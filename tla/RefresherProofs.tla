-------------------------- MODULE RefresherProofs --------------------------
(***************************************************************************)
(* Proofs about Refresher, for any number of processes, refreshes, reads   *)
(* and clock ticks.                                                        *)
(***************************************************************************)
EXTENDS Refresher, TLAPS

-----------------------------------------------------------------------------
(* Typing.  A duration is a natural number only because no call starts in  *)
(* the future, so that goes into the induction.                            *)

NotInFuture == \A t \in Threads : started[t] <= now /\ calledAt[t] <= now

Typed == TypeOK /\ NotInFuture

\* A crash leaves every per-thread variable within its type.
LEMMA ResetType ==
    ASSUME NEW S, NEW f \in [Threads -> S], NEW p, NEW d \in S
    PROVE  Reset(f, p, d) \in [Threads -> S]
  BY DEF Reset

\* A fetch that started in the past gives a well-formed snapshot.
LEMMA SnapshotType ==
    ASSUME NEW n \in Nat, NEW s \in Nat, s <= n, NEW a \in s .. n
    PROVE  Build(s, n, a) \in Snapshot
  BY DEF Build, Snapshot

LEMMA TypedInit == Init => Typed
  <1> SUFFICES ASSUME Init PROVE Typed
    OBVIOUS
  <1>1. [at |-> 0, dur |-> 0, asOf |-> 0] \in Snapshot
    BY DEF Snapshot
  <1>2. TypeOK
    BY <1>1 DEF Init, TypeOK, PC, Errors, Threads
  <1>3. NotInFuture
    BY DEF Init, NotInFuture
  <1> QED
    BY <1>2, <1>3 DEF Typed

LEMMA TypedNext == Typed /\ [Next]_vars => Typed'
  <1> SUFFICES ASSUME Typed, [Next]_vars PROVE Typed'
    OBVIOUS
  <1> USE ThreadsAssumption
  <1>0. Refreshes \subseteq Threads /\ Reads \subseteq Threads
    BY DEF Threads
  <1>1. CASE Tick
    BY <1>1 DEF Typed, TypeOK, NotInFuture, Tick, procVars, threadVars, history
  <1>2. ASSUME NEW p \in Procs, Start(p) PROVE Typed'
    <2>1. up' \in [Procs -> BOOLEAN] /\ warm' \in [Procs -> BOOLEAN]
      BY <1>2 DEF Typed, TypeOK, Start, Warm, SetCached, Decodes
    <2>2. cached' \in [Procs -> Snapshot \cup {Nil}]
      BY <1>2 DEF Typed, TypeOK, Start, Warm, SetCached, Decodes
    <2> QED
      BY <1>2, <2>1, <2>2 DEF Typed, TypeOK, NotInFuture, Start, threadVars
  <1>3. ASSUME NEW p \in Procs, Crash(p) PROVE Typed'
    <2> USE <1>3
    <2>1. pc' \in [Threads -> PC] /\ snap' \in [Threads -> Snapshot \cup {Nil}]
          /\ err' \in [Threads -> Errors]
      BY ResetType DEF Crash, Typed, TypeOK, PC, Errors
    <2>2. started' \in [Threads -> Nat] /\ calledAt' \in [Threads -> Nat]
          /\ floor' \in [Threads -> Snapshot \cup {Nil}]
      BY ResetType DEF Crash, Typed, TypeOK
    <2>3. /\ \A t \in Refreshes : pc'[t] \notin {"load", "fill"}
          /\ \A t \in Reads : pc'[t] \in {"idle", "load", "fill", "done"}
      BY <1>0 DEF Crash, Typed, TypeOK, Reset
    <2>4. TypeOK'
      BY <2>1, <2>2, <2>3 DEF Crash, Typed, TypeOK
    <2>5. NotInFuture'
      BY DEF Crash, Reset, Typed, TypeOK, NotInFuture
    <2> QED
      BY <2>4, <2>5 DEF Typed
  <1>4. ASSUME NEW t \in Refreshes, RefreshStep(t) PROVE Typed'
    <2> USE <1>0, <1>4
    <2>1. CASE CallRefresh(t)
      BY <2>1 DEF Typed, TypeOK, PC, NotInFuture, CallRefresh, Goto, procVars
    <2>2. CASE LockRefresh(t)
      BY <2>2 DEF Typed, TypeOK, PC, NotInFuture, LockRefresh, Goto, history
    <2>3. CASE RefreshFails(t)
      BY <2>3 DEF Typed, TypeOK, PC, Errors, NotInFuture, RefreshFails, Returns,
                  Goto, history
    <2>4. CASE BuildSnapshot(t)
      <3>1. snap' \in [Threads -> Snapshot \cup {Nil}]
        <4>1. now \in Nat /\ started[t] \in Nat /\ started[t] <= now
          BY DEF Typed, TypeOK, NotInFuture
        <4>2. PICK a \in started[t] .. now :
                  snap' = [snap EXCEPT ![t] = Build(started[t], now, a)]
          BY <2>4 DEF BuildSnapshot
        <4>3. Build(started[t], now, a) \in Snapshot
          BY <4>1, SnapshotType
        <4> QED
          BY <4>2, <4>3 DEF Typed, TypeOK
      <3> QED
        BY <2>4, <3>1 DEF Typed, TypeOK, PC, NotInFuture, BuildSnapshot, Goto,
                          procVars, history
    <2>5. CASE SaveOk(t) \/ SaveFails(t)
      BY <2>5 DEF Typed, TypeOK, PC, Errors, NotInFuture, SaveOk, SaveFails, Goto,
                  procVars, history
    <2>6. CASE PublishRefresh(t)
      BY <2>6 DEF Typed, TypeOK, PC, NotInFuture, PublishRefresh, SetCached, Returns, Goto
    <2> QED
      BY <2>1, <2>2, <2>3, <2>4, <2>5, <2>6 DEF RefreshStep
  <1>5. ASSUME NEW t \in Reads, ReadStep(t) PROVE Typed'
    <2> USE <1>0, <1>5
    <2>1. CASE CallCurrent(t)
      BY <2>1 DEF Typed, TypeOK, PC, Errors, NotInFuture, CallCurrent, Returns, Goto,
                  procVars
    <2>2. CASE Load(t)
      BY <2>2 DEF Typed, TypeOK, PC, Errors, NotInFuture, Load, LoadErrors,
                  Decodes, Returns, Goto, procVars, history
    <2>3. CASE FillCache(t)
      BY <2>3 DEF Typed, TypeOK, PC, Errors, NotInFuture, FillCache, SetCached,
                  Returns, Goto, history
    <2> QED
      BY <2>1, <2>2, <2>3 DEF ReadStep
  <1>6. ASSUME NEW t \in Threads, Reply(t) PROVE Typed'
    BY <1>0, <1>6 DEF Typed, TypeOK, PC, Errors, NotInFuture, Reply, Goto, procVars
  <1>7. CASE UNCHANGED vars
    BY <1>7 DEF Typed, TypeOK, NotInFuture, vars, procVars, threadVars, history
  <1> QED
    BY <1>1, <1>2, <1>3, <1>4, <1>5, <1>6, <1>7 DEF Next

\* Every variable of Refresher keeps to its type.
THEOREM TypeCorrect == Spec => []TypeOK
  <1>1. Typed => TypeOK
    BY DEF Typed
  <1> QED
    BY <1>1, TypedInit, TypedNext, PTL DEF Spec

-----------------------------------------------------------------------------
(* Mutual exclusion.                                                       *)

LEMMA SerialisedNext ==
    Typed /\ RefreshesSerialised /\ [Next]_vars => RefreshesSerialised'
  <1> SUFFICES ASSUME Typed, RefreshesSerialised, [Next]_vars
               PROVE  RefreshesSerialised'
    OBVIOUS
  <1> USE ThreadsAssumption DEF RefreshesSerialised, Critical
  <1>0. Refreshes \subseteq Threads /\ Reads \subseteq Threads
    BY DEF Threads
  <1>1. CASE Tick
    BY <1>1 DEF Tick, procVars, threadVars
  <1>2. ASSUME NEW p \in Procs, Start(p) PROVE RefreshesSerialised'
    BY <1>2 DEF Start, threadVars
  <1>3. ASSUME NEW p \in Procs, Crash(p) PROVE RefreshesSerialised'
    BY <1>0, <1>3 DEF Crash, Reset, Typed, TypeOK
  <1>4. ASSUME NEW t \in Refreshes, RefreshStep(t) PROVE RefreshesSerialised'
    <2> USE <1>0 DEF Typed, TypeOK, Goto, Returns
    <2>1. CASE CallRefresh(t)
      BY <2>1 DEF CallRefresh, procVars
    <2>2. CASE LockRefresh(t)
      BY <2>2 DEF LockRefresh
    <2>3. CASE RefreshFails(t)
      BY <2>3 DEF RefreshFails
    <2>4. CASE BuildSnapshot(t) \/ SaveOk(t) \/ SaveFails(t)
      BY <2>4 DEF BuildSnapshot, SaveOk, SaveFails, procVars
    <2>5. CASE PublishRefresh(t)
      BY <2>5 DEF PublishRefresh
    <2> QED
      BY <1>4, <2>1, <2>2, <2>3, <2>4, <2>5 DEF RefreshStep
  <1>5. ASSUME NEW t \in Reads, ReadStep(t) PROVE RefreshesSerialised'
    BY <1>0, <1>5 DEF ReadStep, CallCurrent, Load, FillCache, Goto, Returns,
                      procVars, Typed, TypeOK
  <1>6. ASSUME NEW t \in Threads, Reply(t) PROVE RefreshesSerialised'
    BY <1>0, <1>6 DEF Reply, Goto, procVars, Typed, TypeOK
  <1>7. CASE UNCHANGED vars
    BY <1>7 DEF vars, procVars, threadVars
  <1> QED
    BY <1>1, <1>2, <1>3, <1>4, <1>5, <1>6, <1>7 DEF Next

LEMMA SerialisedInit == Init => RefreshesSerialised
  BY ThreadsAssumption DEF Init, RefreshesSerialised, Critical, Threads

\* refreshMu serialises the refreshes of each process.
THEOREM MutualExclusion == Spec => []RefreshesSerialised
  BY SerialisedInit, TypedInit, TypedNext, SerialisedNext, PTL DEF Spec

-----------------------------------------------------------------------------
(* What a snapshot says about its age, and what a Refresh may return.      *)

InWindow(x) ==
    x \in Snapshot => x.at <= x.asOf + x.dur /\ x.asOf <= x.at /\ x.at <= now

Windows ==
    /\ InWindow(stored)
    /\ \A p \in Procs : InWindow(cached[p])
    /\ \A t \in Threads : InWindow(snap[t])

\* From Lock on a Refresh holds nothing older than its call, and it reaches
\* Save only with a snapshot in hand.
FreshSteps ==
    \A t \in Refreshes :
        /\ pc[t] \in Critical => calledAt[t] <= started[t]
        /\ pc[t] \in {"save", "publish"} => snap[t] \in Snapshot
        /\ pc[t] \in {"save", "publish", "done"} /\ snap[t] # Nil
              => snap[t].asOf >= calledAt[t]

LEMMA WindowsNext == Typed /\ Windows /\ [Next]_vars => Windows'
  <1> SUFFICES ASSUME Typed, Windows, [Next]_vars PROVE Windows'
    OBVIOUS
  <1> USE ThreadsAssumption, ValuesAssumption DEF Windows, InWindow, Typed, TypeOK
  <1>0. Refreshes \subseteq Threads /\ Reads \subseteq Threads
    BY DEF Threads
  <1>1. CASE Tick
    BY <1>1 DEF Tick, procVars, threadVars, Snapshot
  <1>2. ASSUME NEW p \in Procs, Start(p) PROVE Windows'
    BY <1>2 DEF Start, Warm, SetCached, Decodes, threadVars
  <1>3. ASSUME NEW p \in Procs, Crash(p) PROVE Windows'
    BY <1>3 DEF Crash, Reset
  <1>4. ASSUME NEW t \in Refreshes, RefreshStep(t) PROVE Windows'
    <2> USE <1>0 DEF Goto, Returns
    <2>1. CASE CallRefresh(t) \/ LockRefresh(t) \/ RefreshFails(t)
      BY <2>1 DEF CallRefresh, LockRefresh, RefreshFails, procVars
    <2>2. CASE BuildSnapshot(t)
      <3>1. PICK a \in started[t] .. now :
                snap' = [snap EXCEPT ![t] = Build(started[t], now, a)]
        BY <2>2 DEF BuildSnapshot
      <3>2. InWindow(Build(started[t], now, a))
        BY DEF Build, NotInFuture
      <3> QED
        BY <2>2, <3>1, <3>2 DEF BuildSnapshot, procVars
    <2>3. CASE SaveOk(t) \/ SaveFails(t) \/ PublishRefresh(t)
      BY <2>3 DEF SaveOk, SaveFails, PublishRefresh, SetCached, procVars
    <2> QED
      BY <1>4, <2>1, <2>2, <2>3 DEF RefreshStep
  <1>5. ASSUME NEW t \in Reads, ReadStep(t) PROVE Windows'
    BY <1>0, <1>5
    DEF ReadStep, CallCurrent, Load, LoadErrors, Decodes, FillCache, SetCached,
        Goto, Returns, procVars
  <1>6. ASSUME NEW t \in Threads, Reply(t) PROVE Windows'
    BY <1>6 DEF Reply, procVars
  <1>7. CASE UNCHANGED vars
    BY <1>7 DEF vars, procVars, threadVars
  <1> QED
    BY <1>1, <1>2, <1>3, <1>4, <1>5, <1>6, <1>7 DEF Next

LEMMA WindowsInit == Init => Windows
  <1> SUFFICES ASSUME Init PROVE Windows
    OBVIOUS
  <1>1. stored \in {Nil, Garbage, [at |-> 0, dur |-> 0, asOf |-> 0]} /\ now = 0
    BY DEF Init
  <1>2. InWindow(stored)
    BY <1>1, ValuesAssumption DEF InWindow
  <1>3. \A p \in Procs : InWindow(cached[p])
    BY ValuesAssumption DEF Init, InWindow
  <1>4. \A t \in Threads : InWindow(snap[t])
    BY ValuesAssumption DEF Init, InWindow
  <1> QED
    BY <1>2, <1>3, <1>4 DEF Windows

\* The orders of every snapshot, stored, cached or on its way, lie between
\* fetched_at - source_duration and fetched_at, with any number of processes.
THEOREM SoundAges == Spec => []SourceWindow
  <1>1. Windows => SourceWindow
    BY DEF Windows, InWindow, SourceWindow
  <1> QED
    BY <1>1, WindowsInit, TypedInit, TypedNext, WindowsNext, PTL DEF Spec

LEMMA FreshStepsNext == Typed /\ FreshSteps /\ [Next]_vars => FreshSteps'
  <1> SUFFICES ASSUME Typed, FreshSteps, [Next]_vars PROVE FreshSteps'
    OBVIOUS
  <1> USE ThreadsAssumption, ValuesAssumption
      DEF FreshSteps, Critical, Typed, TypeOK, NotInFuture
  <1>0. Refreshes \subseteq Threads /\ Reads \subseteq Threads
    BY DEF Threads
  <1>1. CASE Tick
    BY <1>1 DEF Tick, threadVars, history
  <1>2. ASSUME NEW p \in Procs, Start(p) PROVE FreshSteps'
    BY <1>2 DEF Start, threadVars
  <1>3. ASSUME NEW p \in Procs, Crash(p) PROVE FreshSteps'
    BY <1>0, <1>3 DEF Crash, Reset
  <1>4. ASSUME NEW t \in Refreshes, RefreshStep(t) PROVE FreshSteps'
    <2> USE <1>0 DEF Goto, Returns
    <2>1. CASE CallRefresh(t) \/ LockRefresh(t) \/ RefreshFails(t)
      BY <2>1 DEF CallRefresh, LockRefresh, RefreshFails, history
    <2>2. CASE BuildSnapshot(t)
      <3>1. PICK a \in started[t] .. now :
                snap' = [snap EXCEPT ![t] = Build(started[t], now, a)]
        BY <2>2 DEF BuildSnapshot
      <3>2. Build(started[t], now, a) \in Snapshot
        BY SnapshotType
      <3>3. calledAt[t] <= a
        BY <2>2 DEF BuildSnapshot
      <3> QED
        BY <2>2, <3>1, <3>2, <3>3 DEF BuildSnapshot, Build, history
    <2>3. CASE SaveOk(t) \/ SaveFails(t) \/ PublishRefresh(t)
      BY <2>3 DEF SaveOk, SaveFails, PublishRefresh, history
    <2> QED
      BY <1>4, <2>1, <2>2, <2>3 DEF RefreshStep
  <1>5. ASSUME NEW t \in Reads, ReadStep(t) PROVE FreshSteps'
    BY <1>0, <1>5 DEF ReadStep, CallCurrent, Load, FillCache, Goto, Returns, history
  <1>6. ASSUME NEW t \in Threads, Reply(t) PROVE FreshSteps'
    BY <1>0, <1>6 DEF Reply, Goto
  <1>7. CASE UNCHANGED vars
    BY <1>7 DEF vars, threadVars, history
  <1> QED
    BY <1>1, <1>2, <1>3, <1>4, <1>5, <1>6, <1>7 DEF Next

\* A Refresh never returns data older than the moment it was called, with any
\* number of refreshes in front of it and any number of processes.
THEOREM NoCoalescing == Spec => []FreshAsAsked
  <1>1. Init => FreshSteps
    BY DEF Init, FreshSteps, Critical, Threads
  <1>2. FreshSteps => FreshAsAsked
    BY DEF FreshSteps, FreshAsAsked
  <1> QED
    BY <1>1, <1>2, TypedInit, TypedNext, FreshStepsNext, PTL DEF Spec

-----------------------------------------------------------------------------
(* What a read returns.                                                    *)

\* A process that is down has no requests and an empty memory.
DownIsEmpty ==
    /\ \A t \in Threads : pc[t] # "idle" => up[ProcOf[t]]
    /\ \A p \in Procs : ~up[p] => ~warm[p] /\ cached[p] = Nil /\ latest[p] = Nil

\* Once p has published a fetch its cache is never empty again, so a read
\* that had to go to the store was made before that.
ServedSteps ==
    /\ \A p \in Procs : latest[p] # Nil => cached[p] # Nil
    /\ \A t \in Refreshes : pc[t] \in {"save", "publish"} => snap[t] # Nil
    /\ \A t \in Reads :
          /\ pc[t] # "done" => floor[t] = Nil
          /\ pc[t] = "fill" => snap[t] # Nil
          /\ pc[t] = "done" /\ floor[t] # Nil => snap[t] # Nil

\* A warm process has no read on its way to or from the store, so that
\* nothing but a Refresh writes its cache.
WarmSteps ==
    /\ \A p \in Procs :
          warm[p] => /\ cached[p] # Nil
                     /\ latest[p] # Nil => AtLeastAsNew(cached[p], latest[p])
    /\ \A t \in Reads :
          warm[ProcOf[t]] =>
              /\ pc[t] \notin {"load", "fill"}
              /\ pc[t] = "done" =>
                    /\ snap[t] # Nil
                    /\ floor[t] # Nil => AtLeastAsNew(snap[t], floor[t])

ReadInv == DownIsEmpty /\ ServedSteps /\ WarmSteps

\* A snapshot is as new as itself.
LEMMA AsNewReflexive == \A x \in Snapshot : AtLeastAsNew(x, x)
  BY DEF AtLeastAsNew, Snapshot

LEMMA ReadInvNext == Typed /\ ReadInv /\ [Next]_vars => ReadInv'
  <1> SUFFICES ASSUME Typed, ReadInv, [Next]_vars PROVE ReadInv'
    OBVIOUS
  <1> USE ThreadsAssumption, ValuesAssumption
      DEF ReadInv, DownIsEmpty, ServedSteps, WarmSteps, Typed, TypeOK
  <1>0. Refreshes \subseteq Threads /\ Reads \subseteq Threads
    BY DEF Threads
  <1>1. CASE Tick
    BY <1>1 DEF Tick, procVars, threadVars, history
  <1>2. ASSUME NEW p \in Procs, Start(p) PROVE ReadInv'
    <2>1. \A t \in Reads : ProcOf[t] = p => pc[t] = "idle"
      BY <1>0, <1>2 DEF Start
    <2>2. \A q \in Procs : q # p => /\ up'[q] = up[q]
                                    /\ cached'[q] = cached[q]
                                    /\ warm'[q] = warm[q]
      BY <1>2 DEF Start, Warm, SetCached, Decodes
    <2>3. up'[p]
      BY <1>2 DEF Start
    <2>4. DownIsEmpty'
      BY <1>0, <1>2, <2>2, <2>3 DEF Start, threadVars
    <2>5. ServedSteps'
      BY <1>0, <1>2 DEF Start, Warm, SetCached, Decodes, threadVars
    <2>6. WarmSteps'
      BY <1>0, <1>2, <2>1, <2>2 DEF Start, Warm, SetCached, Decodes, threadVars
    <2> QED
      BY <2>4, <2>5, <2>6
  <1>3. ASSUME NEW p \in Procs, Crash(p) PROVE ReadInv'
    BY <1>0, <1>3 DEF Crash, Reset
  <1>4. ASSUME NEW t \in Refreshes, RefreshStep(t) PROVE ReadInv'
    <2> USE <1>0 DEF Goto, Returns
    <2>1. CASE CallRefresh(t) \/ LockRefresh(t) \/ RefreshFails(t)
      BY <2>1 DEF CallRefresh, LockRefresh, RefreshFails, procVars, history
    <2>2. CASE BuildSnapshot(t)
      <3>1. snap'[t] \in Snapshot /\ \A u \in Threads \ {t} : snap'[u] = snap[u]
        <4>1. PICK a \in started[t] .. now :
                  snap' = [snap EXCEPT ![t] = Build(started[t], now, a)]
          BY <2>2 DEF BuildSnapshot
        <4>2. Build(started[t], now, a) \in Snapshot
          BY SnapshotType DEF NotInFuture
        <4> QED
          BY <4>1, <4>2
      <3> QED
        BY <2>2, <3>1 DEF BuildSnapshot, procVars, history
    <2>3. CASE SaveOk(t) \/ SaveFails(t)
      BY <2>3 DEF SaveOk, SaveFails, procVars, history
    <2>4. CASE PublishRefresh(t)
      BY <2>4, AsNewReflexive DEF PublishRefresh, SetCached
    <2> QED
      BY <1>4, <2>1, <2>2, <2>3, <2>4 DEF RefreshStep
  <1>5. ASSUME NEW t \in Reads, ReadStep(t) PROVE ReadInv'
    <2> USE <1>0 DEF Goto, Returns
    <2>1. CASE CallCurrent(t)
      BY <2>1 DEF CallCurrent, procVars
    <2>2. CASE Load(t)
      BY <2>2 DEF Load, LoadErrors, Decodes, procVars, history
    <2>3. CASE FillCache(t)
      BY <2>3 DEF FillCache, SetCached, history
    <2> QED
      BY <1>5, <2>1, <2>2, <2>3 DEF ReadStep
  <1>6. ASSUME NEW t \in Threads, Reply(t) PROVE ReadInv'
    BY <1>0, <1>6 DEF Reply, Goto, procVars
  <1>7. CASE UNCHANGED vars
    BY <1>7 DEF vars, procVars, threadVars, history
  <1> QED
    BY <1>1, <1>2, <1>3, <1>4, <1>5, <1>6, <1>7 DEF Next

LEMMA ReadInvInit == Init => ReadInv
  BY ThreadsAssumption
  DEF Init, ReadInv, DownIsEmpty, ServedSteps, WarmSteps, Threads

\* Once a Refresh has fetched, every later read of that process is served.
THEOREM ServedAfterRefresh == Spec => []ServedOnceRefreshed
  <1>1. ReadInv => ServedOnceRefreshed
    BY DEF ReadInv, ServedSteps, ServedOnceRefreshed
  <1> QED
    BY <1>1, TypedInit, TypedNext, ReadInvInit, ReadInvNext, PTL DEF Spec

\* A process that Warm gave a snapshot serves the latest fetch, even while
\* other processes write the stored object behind its back.
THEOREM WarmIsMonotone == Spec => []WarmServesLatest
  <1>1. ReadInv => WarmServesLatest
    BY DEF ReadInv, WarmSteps, WarmServesLatest
  <1> QED
    BY <1>1, TypedInit, TypedNext, ReadInvInit, ReadInvNext, PTL DEF Spec

-----------------------------------------------------------------------------
(* One process: the order of the snapshots.  Whatever is around when a     *)
(* Refresh takes the mutex was stamped before its fetch began, so it is    *)
(* no newer than what that fetch brings, and until Unlock nobody else can  *)
(* bring anything newer.                                                   *)

NotAfter(x, n) == x \in Snapshot => x.at <= n
NotNewer(x, y) == x \in Snapshot => AtLeastAsNew(y, x)

FetchOrder ==
    \A t \in Refreshes : pc[t] = "fetch" =>
        /\ NotAfter(stored, started[t])
        /\ \A p \in Procs : NotAfter(cached[p], started[t])
        /\ \A d \in Reads : NotAfter(snap[d], started[t])

SaveOrder ==
    \A t \in Refreshes : pc[t] \in {"save", "publish"} =>
        /\ snap[t] \in Snapshot
        /\ NotNewer(stored, snap[t])
        /\ \A p \in Procs : NotNewer(cached[p], snap[t])
        /\ \A d \in Reads : NotNewer(snap[d], snap[t])

\* Between a successful Save and Unlock the object is what was saved.
SavedIsStored ==
    \A t \in Refreshes : pc[t] = "publish" /\ err[t] = "nil" => stored = snap[t]

Order == FetchOrder /\ SaveOrder /\ SavedIsStored

\* The age order of snapshots is transitive.
LEMMA AsNewTransitive ==
    \A x, y, z \in Snapshot :
        AtLeastAsNew(x, y) /\ AtLeastAsNew(y, z) => AtLeastAsNew(x, z)
  BY DEF AtLeastAsNew, Snapshot

\* What was stamped before a fetch began is no newer than what it brings.
LEMMA FetchBringsNewer ==
    ASSUME NEW x, InWindow(x), NEW n \in Nat, NEW s \in Nat, NotAfter(x, s),
           NEW a \in s .. n
    PROVE  NotNewer(x, Build(s, n, a))
  BY DEF Build, InWindow, NotAfter, NotNewer, AtLeastAsNew, Snapshot

\* With one process there is at most one Refresh between Lock and Unlock.
LEMMA OneRefresh ==
    ASSUME SingleInstance, TypeOK, RefreshesSerialised,
           NEW t \in Refreshes, NEW u \in Refreshes,
           pc[t] \in Critical, pc[u] \in Critical
    PROVE  t = u
  BY ThreadsAssumption DEF SingleInstance, RefreshesSerialised, Threads

Ordered == Typed /\ RefreshesSerialised /\ Windows /\ Order

LEMMA OrderNext ==
    ASSUME SingleInstance
    PROVE  Ordered /\ [Next]_vars => Order'
  <1> SUFFICES ASSUME Ordered, [Next]_vars PROVE Order'
    OBVIOUS
  <1> USE ThreadsAssumption, ValuesAssumption
      DEF Ordered, Order, FetchOrder, SaveOrder, SavedIsStored, Typed, TypeOK
  <1>0. Refreshes \subseteq Threads /\ Reads \subseteq Threads
    BY DEF Threads
  <1>1. CASE Tick
    BY <1>1 DEF Tick, procVars, threadVars
  <1>2. ASSUME NEW p \in Procs, Start(p) PROVE Order'
    BY <1>2 DEF Start, Warm, SetCached, Decodes, threadVars
  <1>3. ASSUME NEW p \in Procs, Crash(p) PROVE Order'
    <2>1. \A t \in Refreshes : pc'[t] = "idle"
      BY <1>0, <1>3 DEF Crash, Reset, SingleInstance
    <2> QED
      BY <2>1
  <1>4. ASSUME NEW t \in Refreshes, RefreshStep(t) PROVE Order'
    <2> USE <1>0 DEF Goto, Returns
    <2>0. \A u \in Refreshes : pc[t] \in Critical /\ pc[u] \in Critical => u = t
      BY OneRefresh
    <2>1. CASE CallRefresh(t)
      BY <2>1 DEF CallRefresh, procVars
    <2>2. CASE LockRefresh(t)
      <3>1. FetchOrder'
        BY <2>2 DEF LockRefresh, Windows, InWindow, NotAfter
      <3> QED
        BY <2>2, <3>1 DEF LockRefresh
    <2>3. CASE RefreshFails(t)
      BY <2>3 DEF RefreshFails
    <2>4. CASE BuildSnapshot(t)
      <3>1. PICK a \in started[t] .. now :
                snap' = [snap EXCEPT ![t] = Build(started[t], now, a)]
        BY <2>4 DEF BuildSnapshot
      <3> DEFINE s == Build(started[t], now, a)
      <3>2. s \in Snapshot
        BY SnapshotType DEF NotInFuture
      <3>3. /\ NotNewer(stored, s)
            /\ \A p \in Procs : NotNewer(cached[p], s)
            /\ \A d \in Reads : NotNewer(snap[d], s)
        BY <2>4, FetchBringsNewer DEF BuildSnapshot, Windows
      <3>4. \A u \in Threads \ {t} : snap'[u] = snap[u]
        BY <3>1
      <3>5. snap'[t] = s
        BY <3>1
      <3> HIDE DEF s
      <3>6. \A u \in Refreshes : u # t => pc'[u] \notin Critical
        BY <2>0, <2>4 DEF BuildSnapshot, Critical
      <3> QED
        BY <2>4, <3>2, <3>3, <3>4, <3>5, <3>6 DEF BuildSnapshot, Critical, procVars
    <2>5. CASE SaveOk(t) \/ SaveFails(t)
      <3>1. \A u \in Refreshes : u # t => pc'[u] \notin Critical
        BY <2>0, <2>5 DEF SaveOk, SaveFails, Critical
      <3>2. stored' \in {stored, snap[t]} /\ (err'[t] = "nil" => stored' = snap[t])
        BY <2>5 DEF SaveOk, SaveFails
      <3>3. NotNewer(snap[t], snap[t])
        BY AsNewReflexive DEF NotNewer
      <3> QED
        BY <2>5, <3>1, <3>2, <3>3 DEF SaveOk, SaveFails, Critical, procVars
    <2>6. CASE PublishRefresh(t)
      <3>1. \A u \in Refreshes : pc'[u] \notin Critical
        BY <2>0, <2>6 DEF PublishRefresh, Critical
      <3> QED
        BY <3>1 DEF Critical
    <2> QED
      BY <1>4, <2>1, <2>2, <2>3, <2>4, <2>5, <2>6 DEF RefreshStep
  <1>5. ASSUME NEW t \in Reads, ReadStep(t) PROVE Order'
    <2> USE <1>0 DEF Goto, Returns, NotAfter, NotNewer
    <2>1. CASE CallCurrent(t)
      BY <2>1 DEF CallCurrent, procVars
    <2>2. CASE Load(t)
      BY <2>2 DEF Load, LoadErrors, Decodes, procVars
    <2>3. CASE FillCache(t)
      BY <2>3 DEF FillCache, SetCached
    <2> QED
      BY <1>5, <2>1, <2>2, <2>3 DEF ReadStep
  <1>6. ASSUME NEW t \in Threads, Reply(t) PROVE Order'
    BY <1>0, <1>6 DEF Reply, Goto, procVars, NotAfter, NotNewer
  <1>7. CASE UNCHANGED vars
    BY <1>7 DEF vars, procVars, threadVars
  <1> QED
    BY <1>1, <1>2, <1>3, <1>4, <1>5, <1>6, <1>7 DEF Next

LEMMA OrderedAlways ==
    ASSUME SingleInstance
    PROVE  Spec => []Ordered
  <1>1. Init => Ordered
    <2>1. Init => Order
      BY DEF Init, Order, FetchOrder, SaveOrder, SavedIsStored, Threads
    <2> QED
      BY <2>1, TypedInit, SerialisedInit, WindowsInit DEF Ordered
  <1>2. Ordered /\ [Next]_vars => Ordered'
    BY TypedNext, SerialisedNext, WindowsNext, OrderNext DEF Ordered
  <1> QED
    BY <1>1, <1>2, PTL DEF Spec

\* Only Save and the loss of the memory store change what is stored.
LEMMA WritersOfStored ==
    ASSUME [Next]_vars, stored' # stored
    PROVE  \/ ~Durable /\ stored' = Nil
           \/ \E t \in Refreshes : /\ pc[t] = "save"
                                   /\ stored' = snap[t]
  BY DEF Next, vars, Tick, Start, Crash, RefreshStep, CallRefresh, LockRefresh,
         RefreshFails, BuildSnapshot, SaveOk, SaveFails, PublishRefresh,
         ReadStep, CallCurrent, Load, FillCache, Reply

\* With a single instance the stored snapshot never gets older, in FetchedAt
\* or in its orders, through any crashes, failed saves and restarts.
THEOREM StoredMonotone ==
    ASSUME SingleInstance
    PROVE  Spec => StoredNeverOlder
  <1>1. Ordered /\ [Next]_vars => [StoredMovesForward]_vars
    <2> SUFFICES ASSUME Ordered, [Next]_vars, stored \in Snapshot,
                        stored' \in Snapshot
                 PROVE  AtLeastAsNew(stored', stored)
      BY DEF StoredMovesForward
    <2>1. CASE stored' = stored
      BY <2>1, AsNewReflexive
    <2>2. CASE stored' # stored
      <3>1. PICK t \in Refreshes : pc[t] = "save" /\ stored' = snap[t]
        BY <2>2, WritersOfStored, ValuesAssumption
      <3> QED
        BY <3>1 DEF Ordered, Order, SaveOrder, NotNewer
    <2> QED
      BY <2>1, <2>2
  <1> QED
    BY <1>1, OrderedAlways, PTL DEF Spec, StoredNeverOlder

\* With a single instance a Refresh that reported success is never undone: the
\* object stays that snapshot or becomes a newer one.
THEOREM AckSurvives ==
    ASSUME SingleInstance
    PROVE  Spec => []AckedIsDurable
  <1>1. Init => AckedIsDurable
    BY DEF Init, AckedIsDurable
  <1>2. Ordered /\ AckedIsDurable /\ [Next]_vars => AckedIsDurable'
    <2> SUFFICES ASSUME Ordered, AckedIsDurable, [Next]_vars, Durable, acked' # Nil
                 PROVE  stored' \in Snapshot /\ AtLeastAsNew(stored', acked')
      BY DEF AckedIsDurable
    <2>1. CASE acked' # acked
      <3>1. PICK t \in Refreshes : /\ pc[t] = "publish" /\ err[t] = "nil"
                                   /\ acked' = snap[t] /\ stored' = stored
        BY <2>1 DEF Next, vars, history, Tick, Start, Crash, RefreshStep,
              CallRefresh, LockRefresh, RefreshFails, BuildSnapshot, SaveOk,
              SaveFails, PublishRefresh, ReadStep, CallCurrent, Load, FillCache,
              Reply
      <3> QED
        BY <3>1, AsNewReflexive DEF Ordered, Order, SaveOrder, SavedIsStored
    <2>2. CASE acked' = acked /\ stored' = stored
      BY <2>2 DEF AckedIsDurable
    <2>3. CASE acked' = acked /\ stored' # stored
      <3>1. PICK t \in Refreshes : pc[t] = "save" /\ stored' = snap[t]
        BY <2>3, WritersOfStored
      <3>2. snap[t] \in Snapshot /\ AtLeastAsNew(snap[t], stored)
        BY <2>3, <3>1 DEF Ordered, Order, SaveOrder, NotNewer, AckedIsDurable
      <3>3. acked \in Snapshot /\ stored \in Snapshot /\ AtLeastAsNew(stored, acked)
        BY <2>3 DEF AckedIsDurable, Ordered, Typed, TypeOK
      <3> QED
        BY <2>3, <3>1, <3>2, <3>3, AsNewTransitive
    <2> QED
      BY <2>1, <2>2, <2>3
  <1> QED
    BY <1>1, <1>2, OrderedAlways, PTL DEF Spec

\* With a single instance the only step that may put an older snapshot in
\* front of readers is a read that found the cache empty.
THEOREM ColdReadsOnly ==
    ASSUME SingleInstance
    PROVE  Spec => OnlyColdReadsRegress
  <1> DEFINE A == \A p \in Procs :
          cached[p] # Nil /\ cached'[p] # Nil /\ ~AtLeastAsNew(cached'[p], cached[p])
              => \E t \in Reads : ProcOf[t] = p /\ pc[t] = "fill" /\ pc'[t] = "done"
  <1>1. Ordered /\ ReadInv /\ [Next]_vars => [A]_vars
    <2> SUFFICES ASSUME Ordered, ReadInv, [Next]_vars, NEW p \in Procs,
                        cached[p] # Nil, cached'[p] # Nil,
                        ~AtLeastAsNew(cached'[p], cached[p])
                 PROVE  \E t \in Reads : ProcOf[t] = p /\ pc[t] = "fill" /\ pc'[t] = "done"
      OBVIOUS
    <2> USE ThreadsAssumption DEF Ordered, Typed, TypeOK
    <2>0. cached[p] \in Snapshot /\ Refreshes \subseteq Threads /\ Reads \subseteq Threads
      BY DEF Threads
    <2>1. cached'[p] # cached[p]
      BY <2>0, AsNewReflexive
    <2>2. ASSUME NEW q \in Procs, Start(q) \/ Crash(q) PROVE FALSE
      BY <2>1, <2>2 DEF Start, Warm, SetCached, Decodes, Crash, ReadInv, DownIsEmpty
    <2>3. ASSUME NEW t \in Refreshes, PublishRefresh(t) PROVE FALSE
      <3>1. ProcOf[t] = p /\ cached'[p] = snap[t]
        BY <2>0, <2>1, <2>3 DEF PublishRefresh, SetCached
      <3>2. NotNewer(cached[p], snap[t])
        BY <2>3 DEF PublishRefresh, Order, SaveOrder
      <3> QED
        BY <2>0, <3>1, <3>2 DEF NotNewer
    <2>4. PICK t \in Reads : FillCache(t)
      BY <2>1, <2>2, <2>3
      DEF Next, vars, procVars, Tick, RefreshStep, CallRefresh, LockRefresh,
          RefreshFails, BuildSnapshot, SaveOk, SaveFails, ReadStep, CallCurrent,
          Load, Reply
    <2>5. ProcOf[t] = p /\ pc[t] = "fill" /\ pc'[t] = "done"
      BY <2>0, <2>1, <2>4 DEF FillCache, SetCached, Returns, Goto
    <2> QED
      BY <2>5
  <1> QED
    BY <1>1, OrderedAlways, TypedInit, TypedNext, ReadInvInit, ReadInvNext, PTL
    DEF Spec, OnlyColdReadsRegress
-----------------------------------------------------------------------------
(* How far the two things that may go wrong can go: a read that found the  *)
(* cache empty, and a second process.                                      *)

\* No read of p is on its way to or from the store.
NoColdReads(p) ==
    \A t \in Reads : ProcOf[t] = p => pc[t] \notin {"load", "fill"}

\* Process p serves the latest fetch and has no read under way that could put
\* back something older.
Settled(p) ==
    /\ cached[p] # Nil
    /\ latest[p] # Nil => AtLeastAsNew(cached[p], latest[p])
    /\ NoColdReads(p)

\* A settled process stays settled for as long as it runs, and its reads return
\* the latest fetch; a Refresh that is published when no read is on its way to
\* or from the store settles the process.
StaysSettled ==
    /\ \A p \in Procs : Settled(p) /\ up'[p] => Settled(p)'
    /\ \A t \in Reads :
           Settled(ProcOf[t]) /\ CallCurrent(t)
               => /\ snap'[t] # Nil
                  /\ floor'[t] # Nil => AtLeastAsNew(snap'[t], floor'[t])
    /\ \A t \in Refreshes :
           PublishRefresh(t) /\ NoColdReads(ProcOf[t]) => Settled(ProcOf[t])'

LEMMA SettledNext ==
    ASSUME Typed, ReadInv, [Next]_vars, NEW p \in Procs, Settled(p), up'[p]
    PROVE  Settled(p)'
  <1> USE ThreadsAssumption, ValuesAssumption DEF Settled, NoColdReads, Typed, TypeOK
  <1>0. Refreshes \subseteq Threads /\ Reads \subseteq Threads
    BY DEF Threads
  <1>1. up[p]
    BY DEF ReadInv, DownIsEmpty
  <1>2. CASE Tick \/ UNCHANGED vars
    BY <1>2 DEF Tick, vars, procVars, threadVars, history
  <1>3. ASSUME NEW q \in Procs, Start(q) PROVE Settled(p)'
    <2>1. q # p /\ cached'[p] = cached[p] /\ UNCHANGED <<latest, pc>>
      BY <1>1, <1>3 DEF Start, Warm, SetCached, threadVars
    <2> QED
      BY <2>1
  <1>4. ASSUME NEW q \in Procs, Crash(q) PROVE Settled(p)'
    <2>1. q # p
      BY <1>4 DEF Crash
    <2>2. cached'[p] = cached[p] /\ latest'[p] = latest[p]
      BY <1>4, <2>1 DEF Crash
    <2>3. \A t \in Reads : ProcOf[t] = p => pc'[t] = pc[t]
      BY <1>0, <1>4, <2>1 DEF Crash, Reset
    <2> QED
      BY <2>2, <2>3
  <1>5. ASSUME NEW t \in Refreshes, RefreshStep(t) PROVE Settled(p)'
    <2>1. \A d \in Reads : pc'[d] = pc[d]
      BY <1>0, <1>5 DEF RefreshStep, CallRefresh, LockRefresh, RefreshFails, BuildSnapshot,
                        SaveOk, SaveFails, PublishRefresh, Returns, Goto
    <2>2. CASE PublishRefresh(t) /\ ProcOf[t] = p
      <3>1. snap[t] \in Snapshot
        BY <1>0, <2>2 DEF PublishRefresh, ReadInv, ServedSteps
      <3>2. cached'[p] = snap[t] /\ latest'[p] = snap[t]
        BY <2>2 DEF PublishRefresh, SetCached
      <3> QED
        BY <2>1, <3>1, <3>2, AsNewReflexive
    <2>3. CASE ~(PublishRefresh(t) /\ ProcOf[t] = p)
      <3>1. cached'[p] = cached[p] /\ latest'[p] = latest[p]
        BY <1>5, <2>3 DEF RefreshStep, CallRefresh, LockRefresh, RefreshFails, BuildSnapshot,
                          SaveOk, SaveFails, PublishRefresh, SetCached, procVars, history
      <3> QED
        BY <2>1, <3>1
    <2> QED
      BY <2>2, <2>3
  <1>6. ASSUME NEW t \in Reads, ReadStep(t) PROVE Settled(p)'
    <2>1. CASE ProcOf[t] = p
      <3>1. CallCurrent(t)
        BY <1>6, <2>1 DEF ReadStep, Load, FillCache
      <3>2. Returns(t, cached[p], "nil") /\ UNCHANGED <<cached, latest>>
        BY <2>1, <3>1 DEF CallCurrent, procVars
      <3>3. \A d \in Reads : pc'[d] = IF d = t THEN "done" ELSE pc[d]
        BY <1>0, <3>2 DEF Returns, Goto
      <3> QED
        BY <3>2, <3>3
    <2>2. CASE ProcOf[t] # p
      <3>1. cached'[p] = cached[p] /\ latest' = latest
        BY <1>6, <2>2 DEF ReadStep, CallCurrent, Load, FillCache, SetCached, procVars, history
      <3>2. \A d \in Reads : d # t => pc'[d] = pc[d]
        BY <1>0, <1>6 DEF ReadStep, CallCurrent, Load, FillCache, Returns, Goto
      <3> QED
        BY <2>2, <3>1, <3>2
    <2> QED
      BY <2>1, <2>2
  <1>7. ASSUME NEW t \in Threads, Reply(t) PROVE Settled(p)'
    BY <1>0, <1>7 DEF Reply, Goto, procVars
  <1> QED
    BY <1>2, <1>3, <1>4, <1>5, <1>6, <1>7 DEF Next

\* With any number of processes, a process that has once served the latest fetch
\* with no cold read under way serves the latest fetch until it ends; so the
\* harm that cold reads do is over after the first Refresh that follows them.
THEOREM SettlesForGood == Spec => [][StaysSettled]_vars
  <1>1. Typed /\ ReadInv /\ [Next]_vars => [StaysSettled]_vars
    <2> SUFFICES ASSUME Typed, ReadInv, Next PROVE StaysSettled
      OBVIOUS
    <2> USE ThreadsAssumption
    <2>0. Refreshes \subseteq Threads /\ Reads \subseteq Threads
      BY DEF Threads
    <2>1. ASSUME NEW p \in Procs, Settled(p), up'[p] PROVE Settled(p)'
      BY <2>1, SettledNext
    <2>2. ASSUME NEW t \in Reads, Settled(ProcOf[t]), CallCurrent(t)
          PROVE  /\ snap'[t] # Nil
                 /\ floor'[t] # Nil => AtLeastAsNew(snap'[t], floor'[t])
      <3>1. snap'[t] = cached[ProcOf[t]] /\ floor'[t] = latest[ProcOf[t]]
        BY <2>0, <2>2 DEF CallCurrent, Returns, Settled, Typed, TypeOK
      <3> QED
        BY <2>2, <3>1 DEF Settled
    <2>3. ASSUME NEW t \in Refreshes, PublishRefresh(t),
                 NoColdReads(ProcOf[t])
          PROVE  Settled(ProcOf[t])'
      <3> DEFINE p == ProcOf[t]
      <3>1. p \in Procs /\ ProcOf' = ProcOf
        BY <2>0
      <3>2. snap[t] \in Snapshot
        BY <2>0, <2>3 DEF PublishRefresh, ReadInv, ServedSteps, Typed, TypeOK
      <3>3. cached'[p] = snap[t] /\ latest'[p] = snap[t]
        BY <2>3, <3>1 DEF PublishRefresh, SetCached, Typed, TypeOK
      <3>4. \A d \in Reads : pc'[d] = pc[d]
        BY <2>0, <2>3 DEF PublishRefresh, Returns, Goto, Typed, TypeOK
      <3> QED
        BY <2>3, <3>2, <3>3, <3>4, AsNewReflexive, ValuesAssumption DEF Settled, NoColdReads
    <2> QED
      BY <2>1, <2>2, <2>3 DEF StaysSettled
  <1> QED
    BY <1>1, TypedInit, TypedNext, ReadInvInit, ReadInvNext, PTL DEF Spec

\* What a Refresh publishes is as new as all there is.
NewestOfAll ==
    \A t \in Refreshes : PublishRefresh(t) =>
        /\ NotNewer(stored, cached'[ProcOf[t]])
        /\ \A p \in Procs : NotNewer(cached[p], cached'[ProcOf[t]])
        /\ \A d \in Reads : NotNewer(snap[d], cached'[ProcOf[t]])

\* With a single instance what a Refresh publishes is at least as new as the
\* object, as what was served before and as what any read is about to serve.
THEOREM RefreshHeals ==
    ASSUME SingleInstance
    PROVE  Spec => [][NewestOfAll]_vars
  <1>1. Ordered /\ [Next]_vars => [NewestOfAll]_vars
    <2> SUFFICES ASSUME Ordered, NEW t \in Refreshes, PublishRefresh(t)
                 PROVE  /\ NotNewer(stored, cached'[ProcOf[t]])
                        /\ \A p \in Procs : NotNewer(cached[p], cached'[ProcOf[t]])
                        /\ \A d \in Reads : NotNewer(snap[d], cached'[ProcOf[t]])
      BY DEF NewestOfAll
    <2>1. ProcOf[t] \in Procs
      BY ThreadsAssumption DEF Threads
    <2>2. cached'[ProcOf[t]] = snap[t] /\ pc[t] = "publish"
      BY <2>1 DEF PublishRefresh, SetCached, Ordered, Typed, TypeOK
    <2> QED
      BY <2>2 DEF Ordered, Order, SaveOrder
  <1> QED
    BY <1>1, OrderedAlways, PTL DEF Spec

\* An object that replaces another is older than it, if at all, by no more than
\* the time that the Refresh that saves it has been under way.
ReplacedByRecent ==
    stored \in Snapshot /\ stored' \in Snapshot /\ stored' # stored
        => \E t \in Refreshes : /\ pc[t] = "save" /\ pc'[t] = "publish"
                                /\ stored.asOf - stored'.asOf <= now - calledAt[t]

\* With any number of processes and no order between their writes, the stored
\* snapshot loses at most the length of the Refresh that overwrites it.
THEOREM RacesAreBounded == Spec => [][ReplacedByRecent]_vars
  <1>1. Typed /\ Windows /\ FreshSteps /\ [Next]_vars => [ReplacedByRecent]_vars
    <2> SUFFICES ASSUME Typed, Windows, FreshSteps, [Next]_vars, stored \in Snapshot,
                        stored' \in Snapshot, stored' # stored
                 PROVE  \E t \in Refreshes : /\ pc[t] = "save" /\ pc'[t] = "publish"
                                             /\ stored.asOf - stored'.asOf <= now - calledAt[t]
      BY DEF ReplacedByRecent
    <2>1. PICK t \in Refreshes : SaveOk(t) \/ SaveFails(t)
      BY ValuesAssumption
      DEF Next, vars, Tick, Start, Crash, RefreshStep, CallRefresh, LockRefresh,
          RefreshFails, BuildSnapshot, PublishRefresh, ReadStep, CallCurrent, Load,
          FillCache, Reply
    <2>2. t \in Threads
      BY DEF Threads
    <2>3. pc[t] = "save" /\ pc'[t] = "publish" /\ stored' = snap[t]
      BY <2>1, <2>2 DEF SaveOk, SaveFails, Goto, Typed, TypeOK
    <2>4. stored'.asOf >= calledAt[t]
      BY <2>3, ValuesAssumption DEF FreshSteps
    <2>5. stored.asOf <= now
      <3>1. stored.asOf \in Nat /\ stored.at \in Nat /\ now \in Nat
        BY DEF Snapshot, Typed, TypeOK
      <3>2. stored.asOf <= stored.at /\ stored.at <= now
        BY DEF Windows, InWindow
      <3> QED
        BY <3>1, <3>2
    <2>6. /\ stored.asOf \in Nat /\ stored'.asOf \in Nat /\ now \in Nat
          /\ calledAt[t] \in Nat
      BY <2>2 DEF Snapshot, Typed, TypeOK
    <2>7. stored.asOf - stored'.asOf <= now - calledAt[t]
      BY <2>4, <2>5, <2>6
    <2> QED
      BY <2>3, <2>7
  <1>2. Init => FreshSteps
    BY DEF Init, FreshSteps, Critical, Threads
  <1> QED
    BY <1>1, <1>2, TypedInit, TypedNext, WindowsInit, WindowsNext, FreshStepsNext, PTL
    DEF Spec
=============================================================================
