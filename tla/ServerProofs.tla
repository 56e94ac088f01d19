---------------------------- MODULE ServerProofs ----------------------------
(***************************************************************************)
(* Proofs about Server, for any number of processes and requests and any   *)
(* settings.  A server is a Refresher with something around it, so what    *)
(* RefresherProofs shows holds for it too.                                 *)
(***************************************************************************)
EXTENDS Server, RefresherProofs

-----------------------------------------------------------------------------
(* A server is a Refresher.                                                *)

\* Whatever a request, a caller or a signal does, it is a step of Refresher or
\* none.
LEMMA StepOfRefresher == [ServerNext]_serverVars => [Next]_vars
  <1> SUFFICES ASSUME [ServerNext]_serverVars PROVE [Next]_vars
    OBVIOUS
  <1>1. CASE Tick
    BY <1>1 DEF Next
  <1>2. ASSUME NEW p \in Procs, Serve(p) \/ Kill(p) \/ Exit(p) PROVE Next
    BY <1>2 DEF Serve, Kill, Exit, Gone, Next
  <1>3. ASSUME NEW p \in Procs, Sigterm(p) \/ GraceOver(p) PROVE UNCHANGED vars
    BY <1>3 DEF Sigterm, GraceOver
  <1>4. ASSUME NEW t \in Refreshes, PostRefresh(t) \/ Refreshing(t) PROVE Next
    BY <1>4 DEF PostRefresh, Refreshing, Next, RefreshStep
  <1>5. ASSUME NEW t \in Reads, Get(t) \/ Reading(t) PROVE Next
    BY <1>5 DEF Get, Reading, Next, ReadStep
  <1>6. ASSUME NEW t \in Threads, HangUp(t) PROVE UNCHANGED vars
    BY <1>6 DEF HangUp
  <1>7. ASSUME NEW t \in Threads, WriteAnswer(t) PROVE Next
    BY <1>7 DEF WriteAnswer, Next
  <1>8. CASE UNCHANGED serverVars
    BY <1>8 DEF serverVars
  <1> QED
    BY <1>1, <1>2, <1>3, <1>4, <1>5, <1>6, <1>7, <1>8 DEF ServerNext

\* Server implements Refresher: everything that is proved about the latter, the
\* order and the durability of what is stored above all, holds behind the API.
THEOREM ServerRefines == ServerSpec => Spec
  <1>1. ServerInit => Init
    BY DEF ServerInit
  <1> QED
    BY <1>1, StepOfRefresher, PTL DEF ServerSpec, Spec

-----------------------------------------------------------------------------
(* Answers.                                                                *)

\* An answer to a read that carries a snapshot carries the one Current
\* returned, and says of its age what metaFor says.
LEMMA ReadAnswers ==
    ASSUME TypeOK, NEW t \in Reads, NEW a \in Answers(t), a.snap # Nil
    PROVE  a = metaFor(snap[t]) /\ err[t] = "nil" /\ a.snap = snap[t]
  <1>1. t \in Threads /\ t \notin Refreshes
    BY ThreadsAssumption DEF Threads
  <1>2. err[t] \in Errors
    BY <1>1 DEF TypeOK
  <1>3. a \in {handleHealth(t), handleData(t)}
    BY <1>1 DEF Answers
  <1>4. CASE err[t] = "nil"
    BY <1>3, <1>4 DEF handleHealth, handleData, metaFor
  <1>5. CASE err[t] # "nil"
    BY <1>3, <1>5 DEF handleHealth, handleData, Bare
  <1> QED
    BY <1>4, <1>5

\* 200 to POST /v1/refresh is what Refresh without an error becomes.
LEMMA RefreshAnswers ==
    ASSUME TypeOK, NEW t \in Refreshes, handleRefresh(t).status = 200
    PROVE  err[t] = "nil" /\ handleRefresh(t).snap = snap[t]
  <1>1. err[t] \in Errors
    BY DEF TypeOK, Threads
  <1>2. CASE err[t] = "nil"
    BY <1>2 DEF handleRefresh
  <1>3. CASE err[t] # "nil"
    <2>1. handleRefresh(t).status \in {502, 207}
      BY <1>1, <1>3 DEF handleRefresh, Bare
    <2> QED
      BY <2>1
  <1> QED
    BY <1>2, <1>3

\* The stale flag is right about the orders, with any number of processes.
THEOREM FlagIsRight == ServerSpec => []StaleFlagIsRight
  <1>1. Typed /\ Windows => StaleFlagIsRight
    <2> SUFFICES ASSUME Typed, Windows, NEW t \in Reads, pc[t] = "done",
                        NEW a \in Answers(t), a.snap # Nil
                 PROVE  IF a.stale THEN now > a.snap.asOf + StaleAfter
                        ELSE now <= a.snap.asOf + a.snap.dur + StaleAfter
      BY DEF StaleFlagIsRight
    <2>1. t \in Threads
      BY DEF Threads
    <2>2. a = metaFor(snap[t]) /\ a.snap = snap[t]
      BY ReadAnswers DEF Typed
    <2>3. snap[t] \in Snapshot /\ now \in Nat
      BY <2>1, <2>2 DEF Typed, TypeOK
    <2>4. InWindow(snap[t])
      BY <2>1 DEF Windows
    <2>5. a.stale = (now - snap[t].at > StaleAfter)
      BY <2>2 DEF metaFor, Stale, Age
    <2>6. /\ snap[t].at \in Nat /\ snap[t].dur \in Nat /\ snap[t].asOf \in Nat
          /\ snap[t].at <= snap[t].asOf + snap[t].dur /\ snap[t].asOf <= snap[t].at
      BY <2>3, <2>4 DEF InWindow, Snapshot
    <2>7. CASE now - snap[t].at > StaleAfter
      <3>1. now > snap[t].asOf + StaleAfter
        BY <2>3, <2>6, <2>7, ServerAssumption
      <3>2. a.stale
        BY <2>5, <2>7
      <3> QED
        BY <2>2, <3>1, <3>2
    <2>8. CASE ~(now - snap[t].at > StaleAfter)
      <3>1. now <= snap[t].asOf + snap[t].dur + StaleAfter
        BY <2>3, <2>6, <2>8, ServerAssumption
      <3>2. ~a.stale
        BY <2>5, <2>8
      <3> QED
        BY <2>2, <3>1, <3>2
    <2> QED
      BY <2>7, <2>8
  <1>2. ServerInit => Typed /\ Windows
    BY TypedInit, WindowsInit DEF ServerInit
  <1>3. Typed /\ Windows /\ [ServerNext]_serverVars => Typed' /\ Windows'
    BY StepOfRefresher, TypedNext, WindowsNext
  <1> QED
    BY <1>1, <1>2, <1>3, PTL DEF ServerSpec

-----------------------------------------------------------------------------
(* Health.                                                                 *)

\* A read that returned a snapshot leaves one in the cache.
ReadsLeaveCache ==
    \A t \in Reads : pc[t] = "done" /\ snap[t] # Nil => cached[ProcOf[t]] # Nil

LEMMA ReadsLeaveCacheNext ==
    Typed /\ ReadInv /\ ReadsLeaveCache /\ [Next]_vars => ReadsLeaveCache'
  <1> SUFFICES ASSUME Typed, ReadInv, ReadsLeaveCache, [Next]_vars
               PROVE  ReadsLeaveCache'
    OBVIOUS
  <1> USE ThreadsAssumption, ValuesAssumption DEF ReadsLeaveCache, Typed, TypeOK
  <1>0. Refreshes \subseteq Threads /\ Reads \subseteq Threads
    BY DEF Threads
  <1>1. CASE Tick
    BY <1>1 DEF Tick, procVars, threadVars
  <1>2. ASSUME NEW p \in Procs, Start(p) PROVE ReadsLeaveCache'
    <2>1. pc' = pc /\ snap' = snap
      BY <1>2 DEF Start, threadVars
    <2>2. \A q \in Procs : cached[q] # Nil => cached'[q] # Nil
      BY <1>2 DEF Start, Warm, SetCached, Decodes
    <2> QED
      BY <1>0, <2>1, <2>2
  <1>3. ASSUME NEW p \in Procs, Crash(p) PROVE ReadsLeaveCache'
    BY <1>0, <1>3 DEF Crash, Reset
  <1>4. ASSUME NEW t \in Refreshes, RefreshStep(t) PROVE ReadsLeaveCache'
    <2> USE <1>0 DEF Goto, Returns
    <2>1. CASE CallRefresh(t) \/ LockRefresh(t) \/ RefreshFails(t)
      BY <2>1 DEF CallRefresh, LockRefresh, RefreshFails, procVars
    <2>2. CASE BuildSnapshot(t) \/ SaveOk(t) \/ SaveFails(t)
      <3>1. cached' = cached /\ \A u \in Reads : pc'[u] = pc[u] /\ snap'[u] = snap[u]
        BY <2>2 DEF BuildSnapshot, SaveOk, SaveFails, procVars
      <3> QED
        BY <3>1
    <2>3. CASE PublishRefresh(t)
      BY <2>3 DEF PublishRefresh, SetCached, ReadInv, ServedSteps
    <2> QED
      BY <1>4, <2>1, <2>2, <2>3 DEF RefreshStep
  <1>5. ASSUME NEW t \in Reads, ReadStep(t) PROVE ReadsLeaveCache'
    <2> USE <1>0 DEF Goto, Returns
    <2>1. CASE CallCurrent(t)
      BY <2>1 DEF CallCurrent, procVars
    <2>2. CASE Load(t)
      BY <2>2 DEF Load, LoadErrors, Decodes, procVars
    <2>3. CASE FillCache(t)
      BY <2>3 DEF FillCache, SetCached, ReadInv, ServedSteps
    <2> QED
      BY <1>5, <2>1, <2>2, <2>3 DEF ReadStep
  <1>6. ASSUME NEW t \in Threads, Reply(t) PROVE ReadsLeaveCache'
    BY <1>0, <1>6 DEF Reply, Goto, procVars
  <1>7. CASE UNCHANGED vars
    BY <1>7 DEF vars, procVars, threadVars
  <1> QED
    BY <1>1, <1>2, <1>3, <1>4, <1>5, <1>6, <1>7 DEF Next

\* After health has reported a snapshot the data endpoints have one, with any
\* number of processes.
THEOREM HealthIsTrue == ServerSpec => []HealthyMeansServing
  <1> DEFINE Inv == Typed /\ ReadInv /\ ReadsLeaveCache
  <1>1. Inv => HealthyMeansServing
    <2> SUFFICES ASSUME Inv, NEW t \in Reads, pc[t] = "done", handleHealth(t).snap # Nil
                 PROVE  cached[ProcOf[t]] # Nil
      BY DEF HealthyMeansServing
    <2>1. handleHealth(t) \in Answers(t)
      BY ThreadsAssumption DEF Answers
    <2>2. snap[t] # Nil
      BY <2>1, ReadAnswers DEF Typed
    <2> QED
      BY <2>2 DEF ReadsLeaveCache
  <1>2. ServerInit => Inv
    BY TypedInit, ReadInvInit DEF ServerInit, Init, ReadsLeaveCache, Threads
  <1>3. Inv /\ [ServerNext]_serverVars => Inv'
    BY StepOfRefresher, TypedNext, ReadInvNext, ReadsLeaveCacheNext
  <1> QED
    BY <1>1, <1>2, <1>3, PTL DEF ServerSpec

-----------------------------------------------------------------------------
(* "No snapshot yet".                                                      *)

\* A durable object that decodes goes on decoding.
LEMMA StaysStored ==
    ASSUME Durable, FreshSteps, [Next]_vars, stored \in Snapshot
    PROVE  stored' \in Snapshot
  <1>1. CASE stored' = stored
    BY <1>1
  <1>2. CASE stored' # stored
    <2>1. PICK t \in Refreshes : pc[t] = "save" /\ stored' = snap[t]
      BY <1>2, WritersOfStored
    <2> QED
      BY <2>1 DEF FreshSteps
  <1> QED
    BY <1>1, <1>2

\* Whoever was shown a stored snapshot came after one was stored.
ShownIsStored ==
    /\ shown # Nil => stored \in Snapshot
    /\ \A t \in Refreshes :
          pc[t] \in {"publish", "done"} /\ err[t] = "nil" => stored \in Snapshot
    /\ \A t \in Reads :
          /\ before[t] # Nil => shown # Nil
          /\ pc[t] = "done" /\ err[t] = "ErrNotFound" => before[t] = Nil

WebTyped == before \in [Threads -> Snapshot \cup {Nil}] /\ shown \in Snapshot \cup {Nil}

\* An answer that is remembered carries a snapshot.
LEMMA AnswerShown ==
    ASSUME TypeOK, NEW t \in Threads, WriteAnswer(t), shown' # shown
    PROVE  /\ err[t] = "nil" /\ snap[t] \in Snapshot /\ pc[t] = "done"
           /\ shown' = Newer(snap[t], shown)
           /\ t \in Refreshes \/ stored = snap[t]
  <1>1. PICK a \in Answers(t) :
            /\ a.status = 200 /\ a.snap # Nil
            /\ t \in Refreshes \/ stored = a.snap
            /\ shown' = Newer(a.snap, shown)
    BY DEF WriteAnswer
  <1>2. err[t] = "nil" /\ a.snap = snap[t]
    <2>1. CASE t \in Refreshes
      <3>1. a = handleRefresh(t)
        BY <2>1 DEF Answers
      <3> QED
        BY <1>1, <2>1, <3>1, RefreshAnswers
    <2>2. CASE t \in Reads
      BY <1>1, <2>2, ReadAnswers
    <2> QED
      BY <2>1, <2>2 DEF Threads
  <1>3. snap[t] \in Snapshot
    BY <1>1, <1>2 DEF TypeOK
  <1> QED
    BY <1>1, <1>2, <1>3 DEF WriteAnswer, Reply

LEMMA WebTypedNext == TypeOK /\ WebTyped /\ [ServerNext]_serverVars => WebTyped'
  <1> SUFFICES ASSUME TypeOK, WebTyped, [ServerNext]_serverVars PROVE WebTyped'
    OBVIOUS
  <1> USE DEF WebTyped
  <1>1. ASSUME NEW p \in Procs, Gone(p) PROVE WebTyped'
    BY <1>1, ResetType DEF Gone
  <1>2. ASSUME NEW t \in Reads, Get(t) PROVE WebTyped'
    BY <1>2 DEF Get
  <1>3. ASSUME NEW t \in Threads, WriteAnswer(t) PROVE WebTyped'
    <2>1. shown' \in Snapshot \cup {Nil}
      BY <1>3, AnswerShown DEF Newer
    <2> QED
      BY <1>3, <2>1 DEF WriteAnswer
  <1>4. CASE shown' = shown /\ before' = before
    BY <1>4
  <1> QED
    BY <1>1, <1>2, <1>3, <1>4
    DEF ServerNext, serverVars, webVars, Serve, Kill, Sigterm, GraceOver, Exit,
        PostRefresh, Refreshing, Reading, HangUp

LEMMA ShownIsStoredNext ==
    ASSUME Durable
    PROVE  Typed /\ FreshSteps /\ WebTyped /\ ShownIsStored /\ [ServerNext]_serverVars
               => ShownIsStored'
  <1> SUFFICES ASSUME Typed, FreshSteps, WebTyped, ShownIsStored, [ServerNext]_serverVars
               PROVE  ShownIsStored'
    OBVIOUS
  <1> USE ThreadsAssumption, ValuesAssumption DEF ShownIsStored, Typed, TypeOK, WebTyped
  <1>0. Refreshes \subseteq Threads /\ Reads \subseteq Threads
    BY DEF Threads
  <1>a. stored \in Snapshot => stored' \in Snapshot
    BY StepOfRefresher, StaysStored
  <1>1. CASE Tick /\ UNCHANGED webVars
    BY <1>1 DEF Tick, webVars, threadVars
  <1>2. ASSUME NEW p \in Procs, Serve(p) PROVE ShownIsStored'
    BY <1>2 DEF Serve, Start, webVars, threadVars
  <1>3. ASSUME NEW p \in Procs, Gone(p) PROVE ShownIsStored'
    BY <1>0, <1>3 DEF Gone, Crash, Reset
  <1>4. ASSUME NEW p \in Procs, Sigterm(p) \/ GraceOver(p) PROVE ShownIsStored'
    BY <1>4 DEF Sigterm, GraceOver, vars, threadVars
  <1>5. ASSUME NEW t \in Refreshes, PostRefresh(t) \/ Refreshing(t) PROVE ShownIsStored'
    <2> USE <1>0 DEF Goto, Returns, webVars
    <2>1. CASE PostRefresh(t)
      BY <2>1 DEF PostRefresh, CallRefresh
    <2>2. CASE Refreshing(t)
      <3> USE <2>2 DEF Refreshing
      <3>1. CASE LockRefresh(t) \/ RefreshFails(t)
        BY <3>1 DEF LockRefresh, RefreshFails
      <3>2. CASE BuildSnapshot(t)
        BY <3>2 DEF BuildSnapshot
      <3>3. CASE SaveOk(t)
        BY <3>3, <1>a DEF SaveOk, FreshSteps
      <3>4. CASE SaveFails(t)
        BY <3>4, <1>a DEF SaveFails
      <3>5. CASE PublishRefresh(t)
        BY <3>5 DEF PublishRefresh
      <3> QED
        BY <3>1, <3>2, <3>3, <3>4, <3>5
    <2> QED
      BY <1>5, <2>1, <2>2
  <1>6. ASSUME NEW t \in Reads, Get(t) \/ Reading(t) PROVE ShownIsStored'
    <2> USE <1>0 DEF Goto, Returns, webVars
    <2>1. CASE Get(t)
      BY <2>1 DEF Get, CallCurrent
    <2>2. CASE Reading(t)
      <3>1. CASE Load(t)
        BY <2>2, <3>1 DEF Reading, Load, LoadErrors, Decodes
      <3>2. CASE FillCache(t)
        BY <2>2, <3>2 DEF Reading, FillCache
      <3> QED
        BY <2>2, <3>1, <3>2 DEF Reading
    <2> QED
      BY <1>6, <2>1, <2>2
  <1>7. ASSUME NEW t \in Threads, HangUp(t) PROVE ShownIsStored'
    BY <1>7 DEF HangUp, vars, threadVars
  <1>8. ASSUME NEW t \in Threads, WriteAnswer(t) PROVE ShownIsStored'
    <2>1. stored' = stored /\ (shown # Nil => shown' # Nil)
      BY <1>8, AnswerShown DEF WriteAnswer, Reply, Newer
    <2>2. shown' # Nil => stored \in Snapshot
      BY <1>8, AnswerShown
    <2> QED
      BY <1>0, <1>8, <2>1, <2>2 DEF WriteAnswer, Reply, Goto
  <1>9. CASE UNCHANGED serverVars
    BY <1>9 DEF serverVars, webVars, vars, threadVars
  <1> QED
    BY <1>1, <1>2, <1>3, <1>4, <1>5, <1>6, <1>7, <1>8, <1>9 DEF ServerNext, Kill, Exit

\* With Cloud Storage nobody is told "no snapshot yet" once a stored snapshot
\* has been shown, with any number of processes, crashes and failing loads.
THEOREM NotFoundIsTrue ==
    ASSUME Durable
    PROVE  ServerSpec => []NoSnapshotYetIsTrue
  <1> DEFINE Inv == Typed /\ FreshSteps /\ WebTyped /\ ShownIsStored
  <1>1. Inv => NoSnapshotYetIsTrue
    <2> SUFFICES ASSUME Inv, NEW t \in Reads, pc[t] = "done", handleData(t).status = 503
                 PROVE  before[t] = Nil
      BY DEF NoSnapshotYetIsTrue
    <2>1. err[t] \in Errors
      BY DEF Typed, TypeOK, Threads
    <2>2. err[t] = "ErrNotFound"
      BY <2>1 DEF handleData, metaFor, Bare
    <2> QED
      BY <2>2 DEF ShownIsStored
  <1>2. ServerInit => Inv
    <2>1. ServerInit => FreshSteps
      BY DEF ServerInit, Init, FreshSteps, Critical, Threads
    <2> QED
      BY <2>1, TypedInit DEF ServerInit, Init, WebTyped, ShownIsStored, Threads
  <1>3. Inv /\ [ServerNext]_serverVars => Inv'
    BY StepOfRefresher, TypedNext, FreshStepsNext, WebTypedNext, ShownIsStoredNext
    DEF Typed
  <1> QED
    BY <1>1, <1>2, <1>3, PTL DEF ServerSpec

-----------------------------------------------------------------------------
(* One process: what was acknowledged, and what was shown.                 *)

\* A Refresh that returned without an error is stored, or something newer is.
DoneIsStored ==
    \A t \in Refreshes :
        pc[t] = "done" /\ err[t] = "nil"
            => /\ snap[t] \in Snapshot /\ stored \in Snapshot
               /\ AtLeastAsNew(stored, snap[t])

LEMMA DoneIsStoredNext ==
    ASSUME SingleInstance
    PROVE  Ordered /\ DoneIsStored /\ [Next]_vars => DoneIsStored'
  <1> SUFFICES ASSUME Ordered, DoneIsStored, [Next]_vars, NEW t \in Refreshes,
                      pc'[t] = "done", err'[t] = "nil"
               PROVE  /\ snap'[t] \in Snapshot /\ stored' \in Snapshot
                      /\ AtLeastAsNew(stored', snap'[t])
    BY DEF DoneIsStored
  <1> USE ThreadsAssumption DEF Ordered, Typed, TypeOK
  <1>0. Refreshes \subseteq Threads /\ Reads \subseteq Threads /\ Refreshes \cap Reads = {}
    BY DEF Threads
  <1>1. CASE PublishRefresh(t)
    BY <1>0, <1>1, AsNewReflexive
    DEF PublishRefresh, Returns, Goto, Order, SaveOrder, SavedIsStored
  <1>2. CASE ~PublishRefresh(t)
    <2>1. ~\E p \in Procs : Crash(p)
      BY <1>0 DEF Crash, Reset, SingleInstance
    <2>2. pc[t] = "done" /\ err[t] = "nil" /\ snap'[t] = snap[t]
      <3>1. ASSUME NEW u \in Refreshes, RefreshStep(u)
            PROVE  pc[t] = "done" /\ err[t] = "nil" /\ snap'[t] = snap[t]
        BY <1>0, <1>2, <3>1
        DEF RefreshStep, CallRefresh, LockRefresh, RefreshFails, BuildSnapshot,
            SaveOk, SaveFails, PublishRefresh, Returns, Goto
      <3>2. ASSUME NEW u \in Reads, ReadStep(u)
            PROVE  pc[t] = "done" /\ err[t] = "nil" /\ snap'[t] = snap[t]
        BY <1>0, <3>2 DEF ReadStep, CallCurrent, Load, FillCache, Returns, Goto
      <3>3. ASSUME NEW u \in Threads, Reply(u)
            PROVE  pc[t] = "done" /\ err[t] = "nil" /\ snap'[t] = snap[t]
        BY <1>0, <3>3 DEF Reply, Goto
      <3>4. CASE Tick \/ (\E p \in Procs : Start(p)) \/ UNCHANGED vars
        BY <3>4 DEF Tick, Start, vars, threadVars
      <3> QED
        BY <2>1, <3>1, <3>2, <3>3, <3>4 DEF Next
    <2>3. CASE stored' = stored
      BY <2>2, <2>3 DEF DoneIsStored
    <2>4. CASE stored' # stored
      <3>1. \/ \E u \in Refreshes : pc[u] = "save" /\ stored' = snap[u]
            \/ \E p \in Procs : Crash(p)
        BY <2>4
        DEF Next, vars, Tick, Start, RefreshStep, CallRefresh, LockRefresh,
            RefreshFails, BuildSnapshot, SaveOk, SaveFails, PublishRefresh,
            ReadStep, CallCurrent, Load, FillCache, Reply
      <3>2. PICK u \in Refreshes : pc[u] = "save" /\ stored' = snap[u]
        BY <2>1, <3>1
      <3>3. snap[u] \in Snapshot /\ NotNewer(stored, snap[u])
        BY <3>2 DEF Order, SaveOrder
      <3> QED
        BY <2>2, <3>2, <3>3, AsNewTransitive DEF DoneIsStored, NotNewer
    <2> QED
      BY <2>3, <2>4
  <1> QED
    BY <1>1, <1>2

\* With one process 200 to POST /v1/refresh means that the object is that
\* snapshot or a newer one.
THEOREM RefreshedIsStored ==
    ASSUME SingleInstance
    PROVE  ServerSpec => []RefreshedMeansStored
  <1>1. Ordered /\ DoneIsStored => RefreshedMeansStored
    BY RefreshAnswers DEF Ordered, Typed, DoneIsStored, RefreshedMeansStored
  <1>2. Init => DoneIsStored
    BY DEF Init, DoneIsStored, Threads
  <1>3. Spec => []RefreshedMeansStored
    BY <1>1, <1>2, OrderedAlways, DoneIsStoredNext, PTL DEF Spec
  <1> QED
    BY <1>3, ServerRefines, PTL

\* In a warm process the cache has caught up with every request that is over.
WarmCache ==
    /\ \A t \in Reads :
          warm[ProcOf[t]] /\ pc[t] = "done"
              => err[t] = "nil" /\ AtLeastAsNew(cached[ProcOf[t]], snap[t])
    /\ \A t \in Refreshes :
          warm[ProcOf[t]] /\ pc[t] = "done" /\ err[t] = "nil"
              => snap[t] \in Snapshot /\ AtLeastAsNew(cached[ProcOf[t]], snap[t])

\* In a warm process only PublishRefresh writes the cache, with something at
\* least as new.
LEMMA WarmCacheMoves ==
    ASSUME SingleInstance, Ordered, ReadInv, [Next]_vars, NEW p \in Procs,
           warm[p], warm'[p]
    PROVE  /\ cached[p] \in Snapshot /\ cached'[p] \in Snapshot
           /\ AtLeastAsNew(cached'[p], cached[p])
  <1> USE ThreadsAssumption DEF Ordered, Typed, TypeOK
  <1>0. Refreshes \subseteq Threads /\ Reads \subseteq Threads
    BY DEF Threads
  <1>1. cached[p] \in Snapshot
    BY DEF ReadInv, WarmSteps
  <1>2. CASE cached'[p] = cached[p]
    BY <1>1, <1>2, AsNewReflexive
  <1>3. CASE cached'[p] # cached[p]
    <2>1. ASSUME NEW q \in Procs, Start(q) \/ Crash(q) PROVE FALSE
      BY <1>3, <2>1 DEF Start, Warm, SetCached, Decodes, Crash, ReadInv, DownIsEmpty
    <2>2. ASSUME NEW d \in Reads, FillCache(d) PROVE FALSE
      BY <1>0, <1>3, <2>2 DEF FillCache, SetCached, ReadInv, WarmSteps
    <2>3. PICK t \in Refreshes : PublishRefresh(t)
      BY <1>3, <2>1, <2>2
      DEF Next, vars, procVars, Tick, RefreshStep, CallRefresh, LockRefresh,
          RefreshFails, BuildSnapshot, SaveOk, SaveFails, ReadStep, CallCurrent,
          Load, Reply
    <2>4. cached'[p] = snap[t]
      BY <1>0, <1>3, <2>3 DEF PublishRefresh, SetCached
    <2>5. snap[t] \in Snapshot /\ NotNewer(cached[p], snap[t])
      BY <2>3 DEF PublishRefresh, Order, SaveOrder
    <2> QED
      BY <1>1, <2>4, <2>5 DEF NotNewer
  <1> QED
    BY <1>2, <1>3

\* A request of a warm process that is over was over before, or is over now
\* with what is in the cache, or with an error.
LEMMA WarmRequests ==
    ASSUME Typed, ReadInv, [Next]_vars, NEW t \in Threads, warm'[ProcOf[t]],
           pc'[t] = "done"
    PROVE  /\ warm[ProcOf[t]]
           /\ \/ pc[t] = "done" /\ err'[t] = err[t] /\ snap'[t] = snap[t]
              \/ t \in Reads /\ err'[t] = "nil" /\ cached'[ProcOf[t]] = snap'[t]
              \/ /\ t \in Refreshes
                 /\ err'[t] = "nil" => /\ pc[t] = "publish"
                                       /\ cached'[ProcOf[t]] = snap'[t]
                                       /\ snap'[t] = snap[t]
  <1> USE ThreadsAssumption DEF Typed, TypeOK, ReadInv, DownIsEmpty, WarmSteps
  <1>0. Refreshes \subseteq Threads /\ Reads \subseteq Threads
    BY DEF Threads
  <1>1. CASE Tick \/ UNCHANGED vars
    BY <1>1 DEF Tick, vars, threadVars, history
  <1>2. ASSUME NEW p \in Procs, Start(p)
        PROVE  /\ warm[ProcOf[t]]
               /\ pc[t] = "done" /\ err'[t] = err[t] /\ snap'[t] = snap[t]
    BY <1>2 DEF Start, Warm, threadVars
  <1>3. ASSUME NEW p \in Procs, Crash(p)
        PROVE  /\ warm[ProcOf[t]]
               /\ pc[t] = "done" /\ err'[t] = err[t] /\ snap'[t] = snap[t]
    BY <1>3 DEF Crash, Reset
  <1>4. ASSUME NEW u \in Refreshes, RefreshStep(u)
        PROVE  /\ warm[ProcOf[t]]
               /\ \/ pc[t] = "done" /\ err'[t] = err[t] /\ snap'[t] = snap[t]
                  \/ /\ t \in Refreshes
                     /\ err'[t] = "nil" => /\ pc[t] = "publish"
                                           /\ cached'[ProcOf[t]] = snap'[t]
                                           /\ snap'[t] = snap[t]
    BY <1>0, <1>4
    DEF RefreshStep, CallRefresh, LockRefresh, RefreshFails, BuildSnapshot, SaveOk,
        SaveFails, PublishRefresh, SetCached, Returns, Goto, history
  <1>5. ASSUME NEW u \in Reads, ReadStep(u)
        PROVE  /\ warm[ProcOf[t]]
               /\ \/ pc[t] = "done" /\ err'[t] = err[t] /\ snap'[t] = snap[t]
                  \/ t \in Reads /\ err'[t] = "nil" /\ cached'[ProcOf[t]] = snap'[t]
    BY <1>0, <1>5
    DEF ReadStep, CallCurrent, Load, FillCache, SetCached, Returns, Goto, procVars, history
  <1>6. ASSUME NEW u \in Threads, Reply(u)
        PROVE  /\ warm[ProcOf[t]]
               /\ pc[t] = "done" /\ err'[t] = err[t] /\ snap'[t] = snap[t]
    BY <1>6 DEF Reply, Goto
  <1> QED
    BY <1>1, <1>2, <1>3, <1>4, <1>5, <1>6 DEF Next

LEMMA WarmCacheNext ==
    ASSUME SingleInstance
    PROVE  Ordered /\ ReadInv /\ WarmCache /\ [Next]_vars => WarmCache'
  <1> SUFFICES ASSUME Ordered, ReadInv, WarmCache, [Next]_vars PROVE WarmCache'
    OBVIOUS
  <1> USE ThreadsAssumption DEF Ordered, Typed, TypeOK
  <1>0. Typed' /\ ReadInv'
    BY TypedNext, ReadInvNext
  <1>1. ASSUME NEW t \in Reads, warm'[ProcOf[t]], pc'[t] = "done"
        PROVE  err'[t] = "nil" /\ AtLeastAsNew(cached'[ProcOf[t]], snap'[t])
    <2>0. t \in Threads /\ t \notin Refreshes
      BY DEF Threads
    <2>1. warm[ProcOf[t]]
      BY <1>1, <2>0, WarmRequests
    <2>2. /\ cached[ProcOf[t]] \in Snapshot /\ cached'[ProcOf[t]] \in Snapshot
          /\ AtLeastAsNew(cached'[ProcOf[t]], cached[ProcOf[t]])
      BY <1>1, <2>0, <2>1, WarmCacheMoves
    <2>3. CASE pc[t] = "done" /\ err'[t] = err[t] /\ snap'[t] = snap[t]
      <3>1. snap[t] \in Snapshot
        BY <2>0, <2>1, <2>3 DEF ReadInv, WarmSteps
      <3> QED
        BY <2>1, <2>2, <2>3, <3>1, AsNewTransitive DEF WarmCache
    <2>4. CASE err'[t] = "nil" /\ cached'[ProcOf[t]] = snap'[t]
      BY <2>2, <2>4, AsNewReflexive
    <2> QED
      BY <1>1, <2>0, <2>3, <2>4, WarmRequests
  <1>2. ASSUME NEW t \in Refreshes, warm'[ProcOf[t]], pc'[t] = "done", err'[t] = "nil"
        PROVE  snap'[t] \in Snapshot /\ AtLeastAsNew(cached'[ProcOf[t]], snap'[t])
    <2>0. t \in Threads /\ t \notin Reads
      BY DEF Threads
    <2>1. warm[ProcOf[t]]
      BY <1>2, <2>0, WarmRequests
    <2>2. /\ cached[ProcOf[t]] \in Snapshot /\ cached'[ProcOf[t]] \in Snapshot
          /\ AtLeastAsNew(cached'[ProcOf[t]], cached[ProcOf[t]])
      BY <1>2, <2>0, <2>1, WarmCacheMoves
    <2>3. CASE pc[t] = "done" /\ err'[t] = err[t] /\ snap'[t] = snap[t]
      BY <1>2, <2>1, <2>2, <2>3, AsNewTransitive DEF WarmCache
    <2>4. CASE cached'[ProcOf[t]] = snap'[t]
      BY <2>2, <2>4, AsNewReflexive
    <2> QED
      BY <1>2, <2>0, <2>3, <2>4, WarmRequests
  <1> QED
    BY <1>1, <1>2 DEF WarmCache

-----------------------------------------------------------------------------
(* What was shown stays reachable.                                         *)

\* The object, the cache of a warm process and the answer of a read that came
\* later are never older than what has been shown.
ShownOrder ==
    /\ shown # Nil => stored \in Snapshot /\ AtLeastAsNew(stored, shown)
    /\ \A p \in Procs : warm[p] /\ shown # Nil => AtLeastAsNew(cached[p], shown)
    /\ \A t \in Reads :
          warm[ProcOf[t]] /\ pc[t] = "done" /\ before[t] # Nil
              => AtLeastAsNew(snap[t], before[t])

\* Only Get answers a read of a warm process, and it notes what was shown.
LEMMA WarmGet ==
    ASSUME Typed, ReadInv, [ServerNext]_serverVars, NEW t \in Reads,
           warm'[ProcOf[t]], pc'[t] = "done", before \in [Threads -> Snapshot \cup {Nil}]
    PROVE  /\ warm[ProcOf[t]]
           /\ \/ Get(t)
              \/ pc[t] = "done" /\ snap'[t] = snap[t] /\ before'[t] \in {before[t], Nil}
  <1> USE ThreadsAssumption DEF Typed, TypeOK
  <1>0. Refreshes \subseteq Threads /\ Reads \subseteq Threads /\ t \notin Refreshes
    BY DEF Threads
  <1>1. warm[ProcOf[t]]
    BY <1>0, StepOfRefresher, WarmRequests
  <1>2. pc[t] \in {"idle", "done"}
    BY <1>0, <1>1 DEF ReadInv, WarmSteps
  <1> DEFINE Kept == pc[t] = "done" /\ snap'[t] = snap[t] /\ before'[t] \in {before[t], Nil}
  <1>3. CASE Tick /\ UNCHANGED webVars
    BY <1>1, <1>3 DEF Tick, threadVars, webVars
  <1>4. ASSUME NEW p \in Procs, Serve(p) PROVE Kept
    BY <1>4 DEF Serve, Start, threadVars, webVars
  <1>5. ASSUME NEW p \in Procs, Gone(p) PROVE Kept
    BY <1>0, <1>5 DEF Gone, Crash, Reset
  <1>6. ASSUME NEW p \in Procs, Sigterm(p) \/ GraceOver(p) PROVE Kept
    BY <1>6 DEF Sigterm, GraceOver, vars, threadVars
  <1>7. ASSUME NEW u \in Refreshes, PostRefresh(u) \/ Refreshing(u) PROVE Kept
    BY <1>0, <1>7
    DEF PostRefresh, Refreshing, webVars, CallRefresh, LockRefresh, RefreshFails,
        BuildSnapshot, SaveOk, SaveFails, PublishRefresh, Returns, Goto
  <1>8. ASSUME NEW u \in Reads, Get(u), u # t PROVE Kept
    BY <1>0, <1>8 DEF Get, CallCurrent, Returns, Goto
  <1>9. ASSUME NEW u \in Reads, Reading(u) PROVE Kept
    BY <1>0, <1>2, <1>9 DEF Reading, webVars, Load, FillCache, Returns, Goto
  <1>10. ASSUME NEW u \in Threads, HangUp(u) PROVE Kept
    BY <1>10 DEF HangUp, vars, threadVars
  <1>11. ASSUME NEW u \in Threads, WriteAnswer(u) PROVE Kept
    BY <1>0, <1>11 DEF WriteAnswer, Reply, Goto
  <1>12. CASE UNCHANGED serverVars
    BY <1>1, <1>12 DEF serverVars, webVars, vars, threadVars
  <1> QED
    BY <1>1, <1>3, <1>4, <1>5, <1>6, <1>7, <1>8, <1>9, <1>10, <1>11, <1>12
    DEF ServerNext, Kill, Exit

LEMMA ShownOrderNext ==
    ASSUME SingleInstance, Durable
    PROVE  Ordered /\ ReadInv /\ FreshSteps /\ DoneIsStored /\ WarmCache /\
           WebTyped /\ ShownOrder /\ [ServerNext]_serverVars
               => ShownOrder'
  <1> SUFFICES ASSUME Ordered, ReadInv, FreshSteps, DoneIsStored, WarmCache,
                      WebTyped, ShownOrder, [ServerNext]_serverVars
               PROVE  ShownOrder'
    OBVIOUS
  <1> USE ThreadsAssumption
  <1>0. /\ Typed /\ TypeOK /\ [Next]_vars
        /\ Refreshes \subseteq Threads /\ Reads \subseteq Threads
        /\ \A t \in Threads : ProcOf[t] \in Procs
    BY StepOfRefresher DEF Ordered, Typed, Threads
  <1>t. Typed' /\ WebTyped'
    BY <1>0, TypedNext, WebTypedNext
  \* What a remembered answer carried.
  <1>1. ASSUME shown' # shown
        PROVE  /\ stored' = stored /\ cached' = cached /\ warm' = warm
               /\ shown' \in Snapshot
               /\ stored \in Snapshot /\ AtLeastAsNew(stored, shown')
               /\ \A p \in Procs : warm[p] => AtLeastAsNew(cached[p], shown')
    <2>1. PICK t \in Threads : WriteAnswer(t)
      BY <1>1
      DEF ServerNext, serverVars, webVars, Serve, Kill, Sigterm, GraceOver, Exit,
          Gone, PostRefresh, Refreshing, Get, Reading, HangUp
    <2>2. /\ err[t] = "nil" /\ snap[t] \in Snapshot /\ pc[t] = "done"
          /\ shown' = Newer(snap[t], shown)
          /\ t \in Refreshes \/ stored = snap[t]
      BY <1>0, <1>1, <2>1, AnswerShown
    <2>3. shown' = snap[t]
      BY <1>1, <2>2 DEF Newer
    <2>4. stored' = stored /\ cached' = cached /\ warm' = warm
      BY <2>1 DEF WriteAnswer, Reply, procVars
    <2>5. stored \in Snapshot /\ AtLeastAsNew(stored, snap[t])
      BY <2>2, AsNewReflexive DEF DoneIsStored
    <2>6. ASSUME NEW p \in Procs, warm[p] PROVE AtLeastAsNew(cached[p], snap[t])
      <3>1. ProcOf[t] = p
        BY <1>0 DEF SingleInstance
      <3> QED
        BY <2>2, <2>6, <3>1 DEF WarmCache, Threads
    <2> QED
      BY <2>2, <2>3, <2>4, <2>5, <2>6
  \* The object.
  <1>2. ASSUME shown' # Nil
        PROVE  stored' \in Snapshot /\ AtLeastAsNew(stored', shown')
    <2>1. CASE shown' # shown
      BY <1>1, <2>1
    <2>2. CASE shown' = shown
      <3>1. shown \in Snapshot /\ stored \in Snapshot /\ AtLeastAsNew(stored, shown)
        BY <1>2, <2>2 DEF ShownOrder, WebTyped
      <3>2. CASE stored' = stored
        BY <2>2, <3>1, <3>2
      <3>3. CASE stored' # stored
        <4>1. PICK t \in Refreshes : pc[t] = "save" /\ stored' = snap[t]
          BY <1>0, <3>3, WritersOfStored
        <4>2. snap[t] \in Snapshot /\ NotNewer(stored, snap[t])
          BY <4>1 DEF Ordered, Order, SaveOrder
        <4> QED
          BY <2>2, <3>1, <4>1, <4>2, AsNewTransitive DEF NotNewer
      <3> QED
        BY <3>2, <3>3
    <2> QED
      BY <2>1, <2>2
  \* The cache of a warm process.
  <1>3. ASSUME NEW p \in Procs, warm'[p], shown' # Nil
        PROVE  AtLeastAsNew(cached'[p], shown')
    <2>1. CASE shown' # shown
      BY <1>1, <1>3, <2>1
    <2>2. CASE shown' = shown /\ warm[p]
      <3>1. /\ cached[p] \in Snapshot /\ cached'[p] \in Snapshot
            /\ AtLeastAsNew(cached'[p], cached[p])
        BY <1>0, <1>3, <2>2, WarmCacheMoves
      <3>2. shown \in Snapshot /\ AtLeastAsNew(cached[p], shown)
        BY <1>3, <2>2 DEF ShownOrder, WebTyped
      <3> QED
        BY <2>2, <3>1, <3>2, AsNewTransitive
    <2>3. CASE shown' = shown /\ ~warm[p]
      <3>1. PICK q \in Procs : Start(q)
        BY <1>0, <1>3, <2>3
        DEF Next, vars, history, Tick, Crash, RefreshStep, CallRefresh, LockRefresh,
            RefreshFails, BuildSnapshot, SaveOk, SaveFails, PublishRefresh,
            ReadStep, CallCurrent, Load, FillCache, Reply, TypeOK
      <3>2. p = q /\ cached'[p] = stored
        BY <1>0, <1>3, <2>3, <3>1 DEF Start, Warm, SetCached, TypeOK
      <3> QED
        BY <1>3, <2>3, <3>2 DEF ShownOrder
    <2> QED
      BY <2>1, <2>2, <2>3
  \* Reads.
  <1>4. ASSUME NEW t \in Reads, warm'[ProcOf[t]], pc'[t] = "done", before'[t] # Nil
        PROVE  AtLeastAsNew(snap'[t], before'[t])
    <2>1. /\ warm[ProcOf[t]]
          /\ \/ Get(t)
             \/ pc[t] = "done" /\ snap'[t] = snap[t] /\ before'[t] \in {before[t], Nil}
      BY <1>0, <1>4, WarmGet DEF WebTyped
    <2>2. CASE Get(t)
      <3>1. cached[ProcOf[t]] # Nil
        BY <1>0, <2>1 DEF ReadInv, WarmSteps
      <3>2. snap'[t] = cached[ProcOf[t]]
        BY <1>0, <2>2, <3>1 DEF Get, CallCurrent, Returns, TypeOK
      <3>3. before'[t] = shown
        BY <1>0, <2>2 DEF Get, WebTyped
      <3> QED
        BY <1>0, <1>4, <2>1, <3>2, <3>3 DEF ShownOrder
    <2>3. CASE ~Get(t)
      BY <1>4, <2>1, <2>3 DEF ShownOrder
    <2> QED
      BY <2>2, <2>3
  <1> QED
    BY <1>2, <1>3, <1>4 DEF ShownOrder

\* With one process over Cloud Storage nobody is sent back in time: what was
\* shown while it was stored, or something newer, is what a later read gets
\* from a process that could load the object when it started.
THEOREM NobodySentBack ==
    ASSUME SingleInstance, Durable
    PROVE  ServerSpec => []NeverOlderThanShown
  <1> DEFINE Web == WebTyped /\ ShownOrder
             Core == ReadInv /\ FreshSteps /\ DoneIsStored /\ WarmCache
  <1>1. Ordered /\ Core /\ Web => NeverOlderThanShown
    <2> SUFFICES ASSUME Ordered, Core, Web, NEW t \in Reads, pc[t] = "done",
                        before[t] # Nil, warm[ProcOf[t]]
                 PROVE  /\ handleData(t).status = 200
                        /\ AtLeastAsNew(handleData(t).snap, before[t])
      BY DEF NeverOlderThanShown
    <2>1. err[t] = "nil" /\ AtLeastAsNew(snap[t], before[t])
      BY DEF WarmCache, ShownOrder
    <2>2. handleData(t) = metaFor(snap[t])
      BY <2>1 DEF handleData
    <2> QED
      BY <2>1, <2>2 DEF metaFor
  <1>2. ServerInit => Core /\ Web
    <2>1. ServerInit => Core
      BY ReadInvInit
      DEF ServerInit, Init, FreshSteps, DoneIsStored, WarmCache, Critical, Threads
    <2> QED
      BY <2>1 DEF ServerInit, Init, WebTyped, ShownOrder, Threads
  <1>3. Ordered /\ Core /\ [ServerNext]_serverVars => Core'
    BY StepOfRefresher, ReadInvNext, FreshStepsNext, DoneIsStoredNext, WarmCacheNext
    DEF Ordered
  <1>4. Ordered /\ Core /\ Web /\ [ServerNext]_serverVars => Web'
    BY WebTypedNext, ShownOrderNext DEF Ordered, Typed
  <1>5. ServerSpec => []Ordered
    BY ServerRefines, OrderedAlways, PTL
  <1> QED
    BY <1>1, <1>2, <1>3, <1>4, <1>5, PTL DEF ServerSpec
=============================================================================
