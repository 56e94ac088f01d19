------------------------- MODULE FetchOrdersProofs -------------------------
(***************************************************************************)
(* Proofs about FetchOrders, for any number of attempts, any timeout, with *)
(* and without a file.                                                     *)
(***************************************************************************)
EXTENDS FetchOrders, InductionFacts, SequenceTheorems, TLAPS

\* The defaults make both settings positive.
LEMMA SettingsType == attempts \in Nat \ {0} /\ timeout \in Nat \ {0}
  BY ClientAssumption DEF attempts, timeout

\* Requests are sent during the call: what they bring is from during the call,
\* and durations are not negative.  A sleep knows the error it backs off from.
InCall ==
    /\ started <= now
    /\ pc = "inflight" => Len(sentAt) > 0
    /\ \A i \in 1 .. Len(sentAt) : started <= sentAt[i] /\ sentAt[i] <= now
    /\ pc = "sleep" => lastErr # "nil"

Typed == TypeOK /\ InCall

LEMMA TypedInit == Init => Typed
  <1> SUFFICES ASSUME Init PROVE Typed
    OBVIOUS
  <1>1. Len(sentAt) = 0 /\ sentAt \in Seq(Nat) /\ outcomes \in Seq(Outcomes)
    BY DEF Init
  <1>2. TypeOK
    <2>1. ctxDone \in BOOLEAN
      BY DEF Init
    <2>2. /\ now = 0 /\ pc = "idle" /\ attempt = 1 /\ backoff = 1 /\ alarm = 0
          /\ started = 0 /\ result = "none" /\ asOf = 0 /\ duration = 0
          /\ lastErr = "nil"
      BY DEF Init
    <2> QED
      BY <1>1, <2>1, <2>2 DEF TypeOK
  <1>3. \A i \in 1 .. Len(sentAt) : FALSE
    BY <1>1
  <1>4. InCall
    BY <1>3 DEF Init, InCall
  <1> QED
    BY <1>2, <1>4 DEF Typed

\* What FetchOrders returns as its error is an error.
LEMMA ErrorType == \A kind : ErrorOf(kind) \in {"ErrUpstream", "error"}
  BY DEF ErrorOf

LEMMA TypedNext == Typed /\ [Next]_vars => Typed'
  <1> SUFFICES ASSUME Typed, [Next]_vars PROVE Typed'
    OBVIOUS
  <1> USE SettingsType, ErrorType DEF Typed, TypeOK, InCall
  <1>1. CASE Tick
    BY <1>1 DEF Tick, callVars, replyVars
  <1>2. CASE Cancel
    BY <1>2 DEF Cancel, callVars, replyVars
  <1>3. CASE Call
    BY <1>3, ClientAssumption DEF Call
  <1>4. ASSUME NEW kind \in Outcomes \ {"ok"}, Fails(kind) \/ Sleeps(kind),
               UNCHANGED sentAt
        PROVE  Typed'
    <2>1. outcomes' \in Seq(Outcomes)
      <3>1. kind \in Outcomes /\ outcomes' = Append(outcomes, kind)
        BY <1>4 DEF Fails, Sleeps
      <3> QED
        BY <3>1
    <2>2. CASE Fails(kind)
      BY <1>4, <2>1, <2>2 DEF Fails, Return, callVars
    <2>3. CASE Sleeps(kind)
      BY <1>4, <2>1, <2>3 DEF Sleeps, replyVars
    <2> QED
      BY <1>4, <2>2, <2>3
  <1>5. CASE Respond
    <2>1. ASSUME NEW a \in sentAt[Len(sentAt)] .. now, ReturnOrders(a),
                 outcomes' = Append(outcomes, "ok"), UNCHANGED sentAt,
                 pc = "inflight"
          PROVE  Typed'
      <3>1. outcomes' \in Seq(Outcomes)
        BY <2>1 DEF Outcomes
      <3>2. a \in Nat
        BY <2>1
      <3> QED
        BY <2>1, <3>1, <3>2 DEF ReturnOrders, callVars
    <2> QED
      BY <1>4, <1>5, <2>1 DEF Respond
  <1>6. CASE Step
    <2>1. CASE ReadFile
      BY <2>1 DEF ReadFile, Return, ReturnOrders, callVars
    <2>2. CASE Send
      BY <2>2 DEF Send, replyVars
    <2>3. CASE SendCancelled \/ TimedOut
      BY <1>4, <2>3 DEF SendCancelled, TimedOut, Outcomes
    <2>4. CASE Wake
      BY <2>4 DEF Wake, replyVars
    <2>5. CASE SleepCancelled
      BY <2>5 DEF SleepCancelled, Return, callVars
    <2> QED
      BY <1>6, <2>1, <2>2, <2>3, <2>4, <2>5 DEF Step
  <1>7. CASE UNCHANGED vars
    BY <1>7 DEF vars, callVars, replyVars
  <1> QED
    BY <1>1, <1>2, <1>3, <1>5, <1>6, <1>7 DEF Next

\* Every variable of FetchOrders keeps to its type.
THEOREM TypeCorrect == Spec => []TypeOK
  <1>1. Typed => TypeOK
    BY DEF Typed
  <1> QED
    BY <1>1, TypedInit, TypedNext, PTL DEF Spec

-----------------------------------------------------------------------------
(* FetchOrders is a Fetcher.                                               *)

\* With any settings, what a successful call returns is the orders as of an
\* instant of that call and its true duration, which is what the Refresher
\* stamps its snapshots with.
THEOREM Refinement == Spec => ImplementsFetcher
  <1>1. Init => F!Init
    BY DEF Init, F!Init, phase
  <1>2. Typed /\ [Next]_vars => [F!Next]_F!vars
    <2> SUFFICES ASSUME Typed, [Next]_vars PROVE [F!Next]_F!vars
      OBVIOUS
    <2> USE DEF Typed, TypeOK, InCall
    <2>1. CASE Tick
      BY <2>1 DEF Tick, callVars, replyVars, phase, F!Next, F!Pass
    <2>2. CASE Cancel
      BY <2>2 DEF Cancel, callVars, replyVars, phase, F!vars
    <2>3. CASE Call
      BY <2>3, ClientAssumption DEF Call, Between, phase, F!Next, F!Begin
    <2>4. ASSUME NEW e \in {"ErrUpstream", "error"}, Return(e),
                 pc \notin {"idle", "returned"}
          PROVE  F!Fail
      BY <2>4 DEF Return, callVars, phase, F!Fail
    <2>5. ASSUME NEW a \in started .. now, ReturnOrders(a),
                 pc \notin {"idle", "returned"}
          PROVE  F!Succeed
      BY <2>5 DEF ReturnOrders, callVars, phase, F!Succeed
    <2>6. ASSUME NEW kind, Fails(kind) \/ Sleeps(kind), pc \notin {"idle", "returned"}
          PROVE  [F!Next]_F!vars
      <3>1. CASE Fails(kind)
        BY <2>4, <2>6, <3>1, ErrorType DEF Fails, F!Next
      <3>2. CASE Sleeps(kind)
        BY <2>6, <3>2 DEF Sleeps, replyVars, phase, F!vars
      <3> QED
        BY <2>6, <3>1, <3>2
    <2>7. CASE Respond
      <3>1. ASSUME NEW a \in sentAt[Len(sentAt)] .. now, ReturnOrders(a)
            PROVE  F!Succeed
        BY <2>5, <2>7, <3>1 DEF Respond
      <3> QED
        BY <2>6, <2>7, <3>1 DEF Respond, F!Next
    <2>8. CASE Step
      <3>1. CASE ReadFile
        BY <2>4, <2>5, <3>1 DEF ReadFile, F!Next
      <3>2. CASE Send \/ Wake
        BY <3>2 DEF Send, Wake, replyVars, phase, F!vars
      <3>3. CASE SendCancelled \/ TimedOut
        BY <2>6, <3>3 DEF SendCancelled, TimedOut
      <3>4. CASE SleepCancelled
        BY <2>4, <3>4 DEF SleepCancelled, F!Next
      <3> QED
        BY <2>8, <3>1, <3>2, <3>3, <3>4 DEF Step
    <2>9. CASE UNCHANGED vars
      BY <2>9 DEF vars, callVars, replyVars, phase, F!vars
    <2> QED
      BY <2>1, <2>2, <2>3, <2>7, <2>8, <2>9 DEF Next
  <1> QED
    BY <1>1, <1>2, TypedInit, TypedNext, PTL DEF Spec, ImplementsFetcher, F!Spec

-----------------------------------------------------------------------------
(* What ends a call for good.                                              *)

\* Until the call returns, all that has happened is worth a retry.
Retryable ==
    /\ pc # "returned" =>
          \A i \in 1 .. Len(outcomes) : outcomes[i] \notin {"ok", "client", "origin"}
    /\ pc = "returned" =>
          \A i \in 1 .. Len(outcomes) - 1 : outcomes[i] \notin {"ok", "client", "origin"}

\* Adding an outcome to outcomes that were worth a retry.
LEMMA AppendOutcome ==
    ASSUME NEW s \in Seq(Outcomes), NEW k \in Outcomes,
           \A i \in 1 .. Len(s) : s[i] \notin {"ok", "client", "origin"}
    PROVE  /\ \A i \in 1 .. Len(Append(s, k)) - 1 :
                  Append(s, k)[i] \notin {"ok", "client", "origin"}
           /\ k \notin {"ok", "client", "origin"} =>
                  \A i \in 1 .. Len(Append(s, k)) :
                      Append(s, k)[i] \notin {"ok", "client", "origin"}
  OBVIOUS

LEMMA RetryableNext == Typed /\ Retryable /\ [Next]_vars => Retryable'
  <1> SUFFICES ASSUME Typed, Retryable, [Next]_vars PROVE Retryable'
    OBVIOUS
  <1>0. outcomes \in Seq(Outcomes)
    BY DEF Typed, TypeOK
  <1>1. ASSUME UNCHANGED <<pc, outcomes>> PROVE Retryable'
    BY <1>1 DEF Retryable
  <1>2. ASSUME pc # "returned", outcomes' = outcomes PROVE Retryable'
    BY <1>0, <1>2 DEF Retryable
  <1>3. CASE Call
    <2>1. outcomes' = <<>>
      BY <1>3 DEF Call
    <2>2. Len(outcomes') = 0
      BY <2>1
    <2> QED
      BY <2>2 DEF Retryable
  <1>4. ASSUME NEW kind \in Outcomes \ {"ok"}, Fails(kind) \/ Sleeps(kind),
               pc # "returned"
        PROVE  Retryable'
    <2>1. \A i \in 1 .. Len(outcomes) : outcomes[i] \notin {"ok", "client", "origin"}
      BY <1>4 DEF Retryable
    <2>2. CASE Fails(kind)
      <3>1. outcomes' = Append(outcomes, kind) /\ pc' = "returned"
        BY <2>2 DEF Fails, Return
      <3> QED
        BY <1>0, <2>1, <3>1, AppendOutcome DEF Retryable
    <2>3. CASE Sleeps(kind)
      <3>1. /\ outcomes' = Append(outcomes, kind) /\ pc' = "sleep"
            /\ kind \notin {"ok", "client", "origin"}
        BY <1>4, <2>3 DEF Sleeps, OriginExhausted
      <3> QED
        BY <1>0, <2>1, <3>1, AppendOutcome DEF Retryable
    <2> QED
      BY <1>4, <2>2, <2>3
  <1>5. CASE Respond
    <2>1. ASSUME NEW a, ReturnOrders(a), outcomes' = Append(outcomes, "ok"),
                 pc = "inflight"
          PROVE  Retryable'
      <3>1. pc' = "returned" /\ "ok" \in Outcomes
        BY <2>1 DEF ReturnOrders, Outcomes
      <3>2. \A i \in 1 .. Len(outcomes) : outcomes[i] \notin {"ok", "client", "origin"}
        BY <2>1 DEF Retryable
      <3> QED
        BY <1>0, <2>1, <3>1, <3>2, AppendOutcome DEF Retryable
    <2> QED
      BY <1>4, <1>5, <2>1 DEF Respond
  <1>6. CASE SendCancelled \/ TimedOut
    <2>1. "transport" \in Outcomes \ {"ok"}
      BY DEF Outcomes
    <2> QED
      BY <1>4, <1>6, <2>1 DEF SendCancelled, TimedOut
  <1>7. CASE ReadFile \/ Send \/ Wake \/ SleepCancelled
    BY <1>2, <1>7 DEF ReadFile, Send, Wake, SleepCancelled
  <1>8. CASE Tick \/ Cancel \/ UNCHANGED vars
    BY <1>1, <1>8 DEF Tick, Cancel, vars
  <1> QED
    BY <1>3, <1>5, <1>6, <1>7, <1>8 DEF Next, Step

\* With any settings, a success, a rejection and an exhausted origin are the
\* last attempt of their call.
THEOREM NoRetryAfterDecision == Spec => []DecisiveOutcomeIsLast
  <1>1. Init => Retryable
    <2>1. Init => Len(outcomes) = 0
      BY DEF Init
    <2> QED
      BY <2>1 DEF Retryable
  <1>2. Typed /\ Retryable => DecisiveOutcomeIsLast
    <2> SUFFICES ASSUME Typed, Retryable, NEW i \in 1 .. Len(outcomes),
                        outcomes[i] \in {"ok", "client", "origin"}
                 PROVE  i = Len(outcomes) /\ pc = "returned"
      BY DEF DecisiveOutcomeIsLast
    <2>1. Len(outcomes) \in Nat
      BY DEF Typed, TypeOK
    <2>2. pc = "returned"
      BY DEF Retryable
    <2>3. ~(i \in 1 .. Len(outcomes) - 1)
      BY <2>2 DEF Retryable
    <2> QED
      BY <2>1, <2>2, <2>3
  <1> QED
    BY <1>1, <1>2, TypedInit, TypedNext, RetryableNext, PTL DEF Spec

-----------------------------------------------------------------------------
(* How long a call may take.                                               *)

\* Before its attempt-th request a call has spent at most attempt - 1
\* timeouts and the backoffs 1, 2, 4, ..., which add up to backoff - 1; the
\* request adds a timeout and the sleep after it adds backoff.
Spent ==
    /\ attempt <= attempts
    /\ pc = "file" => now = started
    /\ pc = "send" => /\ now - started <= (attempt - 1) * timeout + backoff - 1
                      /\ Len(sentAt) = attempt - 1
    /\ pc = "inflight" => /\ now <= alarm
                          /\ alarm - started <= attempt * timeout + backoff - 1
                          /\ Len(sentAt) = attempt
    /\ pc = "sleep" => /\ now <= alarm
                       /\ alarm - started <= attempt * timeout + 2 * backoff - 1
                       /\ Len(sentAt) = attempt
                       /\ attempt < attempts
    /\ Len(sentAt) <= attempt

\* An attempt more, a timeout more.
LEMMA OneMoreTimeout ==
    \A a, w \in Nat : (a + 1 - 1) * w = a * w /\ (a - 1) * w + w = a * w
  OBVIOUS

LEMMA SpentNext == Typed /\ Spent /\ [Next]_vars => Spent'
  <1> SUFFICES ASSUME Typed, Spent, [Next]_vars PROVE Spent'
    OBVIOUS
  <1> USE SettingsType
  <1>0. /\ attempt \in Nat \ {0} /\ backoff \in Nat \ {0} /\ now \in Nat
        /\ alarm \in Nat /\ started \in Nat /\ sentAt \in Seq(Nat)
        /\ Len(sentAt) \in Nat
    BY DEF Typed, TypeOK
  <1>1. CASE Tick
    BY <1>0, <1>1 DEF Tick, Between, callVars, Spent
  <1>2. CASE Cancel \/ UNCHANGED vars
    BY <1>0, <1>2 DEF Cancel, callVars, vars, Spent
  <1>3. CASE Call
    <2>1. Len(sentAt') = 0
      BY <1>3 DEF Call
    <2>2. /\ attempt' = 1 /\ backoff' = 1 /\ now' = now /\ started' = now
          /\ pc' \in {"file", "send"}
      BY <1>3, ClientAssumption DEF Call
    <2>3. (attempt' - 1) * timeout = 0
      BY <2>2
    <2> QED
      BY <1>0, <2>1, <2>2, <2>3 DEF Spent
  <1>4. ASSUME pc' = "returned", UNCHANGED <<callVars, sentAt>> PROVE Spent'
    BY <1>0, <1>4 DEF Spent, callVars
  <1>5. ASSUME NEW kind, pc = "inflight", Sleeps(kind), UNCHANGED sentAt PROVE Spent'
    <2>1. /\ pc' = "sleep" /\ attempt < attempts /\ alarm' = now + backoff
          /\ UNCHANGED <<now, attempt, backoff, started, sentAt>>
      BY <1>5 DEF Sleeps
    <2>2. timeout * attempt \in Nat /\ attempt * timeout \in Nat
      BY <1>0
    <2>3. /\ now <= alarm /\ alarm - started <= attempt * timeout + backoff - 1
          /\ Len(sentAt) = attempt
      BY <1>5 DEF Spent
    <2> QED
      BY <1>0, <2>1, <2>2, <2>3 DEF Spent
  <1>6. CASE Respond
    BY <1>4, <1>5, <1>6 DEF Respond, ReturnOrders, Fails, Return
  <1>7. CASE Send
    <2>1. Len(sentAt') = Len(sentAt) + 1
      BY <1>0, <1>7 DEF Send
    <2>2. /\ pc' = "inflight" /\ alarm' = now + timeout
          /\ UNCHANGED <<now, attempt, backoff, started>>
      BY <1>7 DEF Send
    <2>3. /\ now - started <= (attempt - 1) * timeout + backoff - 1
          /\ Len(sentAt) = attempt - 1 /\ attempt <= attempts
      BY <1>7 DEF Send, Spent
    <2>4. (attempt - 1) * timeout + timeout = attempt * timeout
          /\ attempt * timeout \in Nat
      BY <1>0, OneMoreTimeout
    <2>5. alarm' - started <= attempt * timeout + backoff - 1 /\ now <= alarm'
      BY <1>0, <2>2, <2>3, <2>4
    <2> QED
      BY <1>0, <2>1, <2>2, <2>3, <2>5 DEF Spent
  <1>8. CASE Wake
    <2>1. /\ pc' = "send" /\ attempt' = attempt + 1 /\ backoff' = 2 * backoff
          /\ now >= alarm /\ UNCHANGED <<now, started, sentAt>>
      BY <1>8 DEF Wake
    <2>2. /\ now <= alarm /\ alarm - started <= attempt * timeout + 2 * backoff - 1
          /\ Len(sentAt) = attempt /\ attempt < attempts
      BY <1>8 DEF Wake, Spent
    <2>3. (attempt' - 1) * timeout = attempt * timeout /\ attempt * timeout \in Nat
      BY <1>0, <2>1, OneMoreTimeout
    <2>4. now' - started' <= (attempt' - 1) * timeout + backoff' - 1
      BY <1>0, <2>1, <2>2, <2>3
    <2> QED
      BY <1>0, <2>1, <2>2, <2>4 DEF Spent
  <1>9. CASE SendCancelled \/ TimedOut \/ ReadFile \/ SleepCancelled
    BY <1>4, <1>5, <1>9
    DEF SendCancelled, TimedOut, ReadFile, SleepCancelled, ReturnOrders, Fails, Return
  <1> QED
    BY <1>1, <1>2, <1>3, <1>6, <1>7, <1>8, <1>9 DEF Next, Step

LEMMA SpentInit == Init => Spent
  <1>1. Init => Len(sentAt) = 0 /\ attempt = 1 /\ pc = "idle"
    BY DEF Init
  <1> QED
    BY <1>1, SettingsType DEF Spent

\* With any settings, a call never makes more than `attempts` requests, and
\* it has returned after that many timeouts and the backoffs between them.
THEOREM Budget == Spec => []WithinBudget
  <1>1. Init => Spent
    BY SpentInit
  <1>2. Typed /\ Spent => WithinBudget
    <2> SUFFICES ASSUME Typed, Spent PROVE WithinBudget
      OBVIOUS
    <2> USE SettingsType
    <2>0. /\ attempt \in Nat \ {0} /\ backoff \in Nat \ {0} /\ now \in Nat
          /\ alarm \in Nat /\ started \in Nat /\ Len(sentAt) \in Nat
          /\ pc \in {"idle", "file", "send", "inflight", "sleep", "returned"}
      BY DEF Typed, TypeOK
    <2>1. (attempt - 1) * timeout + timeout = attempt * timeout
          /\ attempt * timeout \in Nat
      BY <2>0, OneMoreTimeout
    <2>2. attempt <= attempts /\ Len(sentAt) <= attempt
      BY DEF Spent
    <2>3. CASE pc \in {"send", "file"}
      BY <2>0, <2>1, <2>2, <2>3 DEF Spent, WithinBudget
    <2>4. CASE pc \in {"inflight", "sleep"}
      BY <2>0, <2>1, <2>2, <2>4 DEF Spent, WithinBudget
    <2> QED
      BY <2>0, <2>2, <2>3, <2>4 DEF Between, WithinBudget
  <1> QED
    BY <1>1, <1>2, TypedInit, TypedNext, SpentNext, PTL DEF Spec

-----------------------------------------------------------------------------
(* How far apart requests are.                                             *)

\* The powers of two are what they should be.
LEMMA Powers ==
    /\ Pow2[0] = 1 /\ \A n \in Nat : Pow2[n + 1] = 2 * Pow2[n]
    /\ \A n \in Nat : Pow2[n] \in Nat
  <1> DEFINE Doubles(p) == p = [n \in Nat |-> IF n = 0 THEN 1 ELSE 2 * p[n - 1]]
             double == [x \in Nat |-> 2 * x]
  <1>1. \E p : Doubles(p)
    <2>1. double \in [Nat -> Nat] /\ 1 \in Nat
      OBVIOUS
    <2>2. PICK p \in [Nat -> Nat] : p[0] = 1 /\ \A n \in Nat : p[n + 1] = double[p[n]]
      <3> HIDE DEF double
      <3>1. \E p \in [Nat -> Nat] : p[0] = 1 /\ \A n \in Nat : p[n + 1] = double[p[n]]
        <4>1. PICK T : T = Nat
          OBVIOUS
        <4>2. PICK g \in [T -> T] : g = double
          BY <2>1, <4>1, Zenon
        <4>3. PICK a \in T : a = 1
          BY <2>1, <4>1, Zenon
        <4>4. \E p \in [Nat -> T] : p[0] = a /\ \A n \in Nat : p[n + 1] = g[p[n]]
          BY Recursion
        <4> QED
          BY <4>1, <4>2, <4>3, <4>4, Zenon
      <3> QED
        BY <3>1, Zenon
    <2>3. ASSUME NEW n \in Nat, n # 0 PROVE p[n] = 2 * p[n - 1]
      <3>1. n - 1 \in Nat /\ (n - 1) + 1 = n
        BY <2>3
      <3>2. p[(n - 1) + 1] = double[p[n - 1]] /\ p[n - 1] \in Nat
        BY <2>2, <3>1
      <3> QED
        BY <3>1, <3>2
    <2>4. Doubles(p)
      BY <2>2, <2>3
    <2> HIDE DEF Doubles
    <2> QED
      BY <2>4
  <1>2. Pow2 = CHOOSE p : Doubles(p)
    BY DEF Pow2
  <1>3. Doubles(Pow2)
    <2> HIDE DEF Doubles
    <2> QED
      BY <1>1, <1>2
  <1>4. \A n \in Nat : Pow2[n] = IF n = 0 THEN 1 ELSE 2 * Pow2[n - 1]
    BY <1>3
  <1>5. Pow2[0] = 1
    BY <1>4
  <1>6. ASSUME NEW n \in Nat PROVE Pow2[n + 1] = 2 * Pow2[n]
    <2>1. n + 1 \in Nat /\ n + 1 # 0 /\ (n + 1) - 1 = n
      OBVIOUS
    <2> QED
      BY <1>4, <2>1
  <1>7. \A n \in Nat : Pow2[n] \in Nat
    <2> DEFINE S == {n \in Nat : Pow2[n] \in Nat}
    <2>1. 0 \in S
      BY <1>5
    <2>2. \A n \in Nat : n \in S => n + 1 \in S
      BY <1>6
    <2>3. Nat \subseteq S
      <3> HIDE DEF S
      <3> QED
        BY <2>1, <2>2, InductionOnSet
    <2> QED
      BY <2>3
  <1> QED
    BY <1>5, <1>6, <1>7

\* A sleep ends no sooner than its backoff after the request before it.
Backed ==
    /\ BacksOff
    /\ pc = "sleep" => alarm - sentAt[attempt] >= backoff
    /\ pc = "send" /\ attempt > 1 => now - sentAt[attempt - 1] >= Pow2[attempt - 2]

LEMMA BackedNext == Typed /\ Spent /\ Backed /\ [Next]_vars => Backed'
  <1> SUFFICES ASSUME Typed, Spent, Backed, [Next]_vars PROVE Backed'
    OBVIOUS
  <1>0. /\ attempt \in Nat \ {0} /\ backoff \in Nat \ {0} /\ now \in Nat
        /\ alarm \in Nat /\ sentAt \in Seq(Nat) /\ Len(sentAt) \in Nat
        /\ \A i \in 1 .. Len(sentAt) : sentAt[i] \in Nat /\ sentAt[i] <= now
    BY DEF Typed, TypeOK, InCall
  <1>1. ASSUME UNCHANGED <<attempt, backoff, sentAt>>, pc' \notin {"send", "sleep"}
        PROVE  Backed'
    BY <1>1 DEF Backed, BacksOff
  <1>2. CASE Tick
    <2>1. /\ UNCHANGED <<pc, attempt, backoff, alarm, sentAt>> /\ now' = now + 1
          /\ pc # "send"
      BY <1>2 DEF Tick, callVars, Between
    <2> QED
      BY <2>1 DEF Backed, BacksOff
  <1>3. CASE Cancel \/ UNCHANGED vars
    BY <1>3 DEF Cancel, vars, callVars, Backed, BacksOff
  <1>4. CASE Call
    <2>1. attempt' = 1 /\ backoff' = 1 /\ sentAt' = <<>> /\ pc' \in {"send", "file"}
      BY <1>4, ClientAssumption DEF Call
    <2>2. attempt' - 1 = 0 /\ Len(sentAt') = 0
      BY <2>1
    <2> QED
      BY <2>1, <2>2, Powers DEF Backed, BacksOff
  <1>5. ASSUME NEW kind, pc = "inflight", Sleeps(kind), UNCHANGED sentAt PROVE Backed'
    <2>1. /\ pc' = "sleep" /\ alarm' = now + backoff
          /\ UNCHANGED <<now, attempt, backoff, sentAt>>
      BY <1>5 DEF Sleeps
    <2>2. Len(sentAt) = attempt
      BY <1>5 DEF Spent
    <2>3. sentAt[attempt] \in Nat /\ sentAt[attempt] <= now
      BY <1>0, <2>2
    <2> QED
      BY <1>0, <2>1, <2>3 DEF Backed, BacksOff
  <1>6. CASE Respond \/ SendCancelled \/ TimedOut \/ ReadFile \/ SleepCancelled
    BY <1>1, <1>5, <1>6 DEF Respond, SendCancelled, TimedOut, ReadFile, SleepCancelled,
                            ReturnOrders, Fails, Return, callVars
  <1>7. CASE Send
    <2>1. pc = "send" /\ pc' = "inflight" /\ sentAt' = Append(sentAt, now)
          /\ UNCHANGED <<now, attempt, backoff>>
      BY <1>7 DEF Send
    <2>2. Len(sentAt) = attempt - 1
      BY <2>1 DEF Spent
    <2>3. /\ Len(sentAt') = attempt /\ sentAt'[attempt] = now
          /\ \A i \in 1 .. attempt - 1 : sentAt'[i] = sentAt[i]
      BY <1>0, <2>1, <2>2, AppendProperties
    <2>4. ASSUME NEW i \in 1 .. attempt - 1
          PROVE  sentAt'[i + 1] - sentAt'[i] >= Pow2[i - 1]
      <3>1. CASE i = attempt - 1
        <4>1. i + 1 = attempt /\ i - 1 = attempt - 2 /\ attempt > 1
          BY <1>0, <3>1
        <4> QED
          BY <2>1, <2>3, <3>1, <4>1 DEF Backed
      <3>2. CASE i # attempt - 1
        <4>1. i \in 1 .. Len(sentAt) - 1 /\ i + 1 \in 1 .. attempt - 1
          BY <1>0, <2>2, <3>2
        <4> QED
          BY <2>3, <4>1 DEF Backed, BacksOff
      <3> QED
        BY <3>1, <3>2
    <2> QED
      BY <2>1, <2>3, <2>4 DEF Backed, BacksOff
  <1>8. CASE Wake
    <2>1. /\ pc = "sleep" /\ pc' = "send" /\ attempt' = attempt + 1 /\ backoff' = 2 * backoff
          /\ now >= alarm /\ UNCHANGED <<now, sentAt>>
      BY <1>8 DEF Wake
    <2>2. attempt - 1 \in Nat /\ (attempt - 1) + 1 = attempt' - 1 /\ attempt - 1 = attempt' - 2
      BY <1>0, <2>1
    <2>3. backoff' = Pow2[attempt' - 1] /\ backoff = Pow2[attempt' - 2]
      BY <2>1, <2>2, Powers DEF Backed, BacksOff
    <2>4. Len(sentAt) = attempt
      BY <2>1 DEF Spent
    <2>5. sentAt[attempt] \in Nat /\ attempt' - 1 = attempt
      BY <1>0, <2>1, <2>4
    <2>6. now - sentAt[attempt] >= backoff
      BY <1>0, <2>1, <2>5 DEF Backed
    <2> QED
      BY <2>1, <2>3, <2>5, <2>6 DEF Backed, BacksOff
  <1> QED
    BY <1>2, <1>3, <1>4, <1>6, <1>7, <1>8 DEF Next, Step

\* With any settings, the n-th retry of a call comes at least 2^(n-1) backoffs
\* of 30 s after the request before it.
THEOREM Spacing == Spec => []BacksOff
  <1>1. Init => Spent /\ Backed
    <2> SUFFICES ASSUME Init PROVE Spent /\ Backed
      OBVIOUS
    <2>1. Len(sentAt) = 0 /\ attempt = 1 /\ backoff = 1 /\ pc = "idle" /\ attempt - 1 = 0
      BY DEF Init
    <2> QED
      BY <2>1, SettingsType, Powers DEF Spent, Backed, BacksOff
  <1>2. Backed => BacksOff
    BY DEF Backed
  <1> QED
    BY <1>1, <1>2, TypedInit, TypedNext, SpentNext, BackedNext, PTL DEF Spec
-----------------------------------------------------------------------------
(* When a call is over, in the settings' own terms.                        *)

LEMMA PowersGrow == \A m, n \in Nat : m <= n => Pow2[m] <= Pow2[n]
  <1> DEFINE S == {d \in Nat : \A m \in Nat : Pow2[m] <= Pow2[m + d]}
  <1>1. 0 \in S
    <2> SUFFICES ASSUME NEW m \in Nat PROVE Pow2[m] <= Pow2[m + 0]
      OBVIOUS
    <2>1. m + 0 = m /\ Pow2[m] \in Nat
      BY Powers
    <2> QED
      BY <2>1
  <1>2. ASSUME NEW d \in Nat, d \in S PROVE d + 1 \in S
    <2> SUFFICES ASSUME NEW m \in Nat PROVE Pow2[m] <= Pow2[m + (d + 1)]
      OBVIOUS
    <2>1. m + (d + 1) = (m + d) + 1 /\ m + d \in Nat
      OBVIOUS
    <2>2. Pow2[(m + d) + 1] = 2 * Pow2[m + d] /\ Pow2[m] \in Nat /\ Pow2[m + d] \in Nat
      BY <2>1, Powers
    <2>3. Pow2[m] <= Pow2[m + d]
      BY <1>2
    <2> QED
      BY <2>1, <2>2, <2>3
  <1>3. Nat \subseteq S
    <2> HIDE DEF S
    <2> QED
      BY <1>1, <1>2, InductionOnSet
  <1> SUFFICES ASSUME NEW m \in Nat, NEW n \in Nat, m <= n PROVE Pow2[m] <= Pow2[n]
    OBVIOUS
  <1>4. n - m \in Nat /\ m + (n - m) = n
    OBVIOUS
  <1>5. Pow2[m] <= Pow2[m + (n - m)]
    BY <1>3, <1>4
  <1> QED
    BY <1>4, <1>5

\* The product is monotone.
LEMMA MoreTimeouts ==
    ASSUME NEW a \in Nat, NEW b \in Nat, a <= b, NEW w \in Nat PROVE a * w <= b * w
  <1>1. b - a \in Nat /\ (b - a) * w \in Nat /\ b * w = a * w + (b - a) * w
    OBVIOUS
  <1>2. a * w \in Nat /\ b * w \in Nat
    OBVIOUS
  <1> QED
    BY <1>1, <1>2

\* All timeouts, and the backoffs 1 + 2 + 4 + ... after all attempts but the last.
LongestCall == attempts * timeout + Pow2[attempts - 1] - 1

\* config.go:38-41 asks for attempts * timeout to stay inside the request
\* timeout of Cloud Run; a call may take the backoffs on top, and no more.
InTime ==
    /\ ~Between => now - started <= LongestCall
    /\ result = "ok" => duration <= LongestCall

LEMMA CallInTime ==
    ASSUME Typed, Spent, Backed, ~Between PROVE now - started <= LongestCall
  <1> USE SettingsType
  <1>0. /\ attempt \in Nat \ {0} /\ backoff \in Nat \ {0} /\ now \in Nat
        /\ alarm \in Nat /\ started \in Nat
        /\ pc \in {"file", "send", "inflight", "sleep"}
    BY DEF Typed, TypeOK, Between
  <1>1. attempt <= attempts /\ attempt - 1 \in Nat /\ attempts - 1 \in Nat
    BY <1>0 DEF Spent
  <1>2. /\ (attempt - 1) * timeout <= attempts * timeout
        /\ attempt * timeout <= attempts * timeout
    BY <1>0, <1>1, MoreTimeouts
  <1>3. /\ (attempt - 1) * timeout \in Nat /\ attempt * timeout \in Nat
        /\ attempts * timeout \in Nat
    BY <1>0, <1>1
  <1>4. backoff = Pow2[attempt - 1] /\ Pow2[attempt - 1] <= Pow2[attempts - 1]
        /\ Pow2[attempts - 1] \in Nat
    <2>1. attempt - 1 <= attempts - 1
      BY <1>0, <1>1
    <2>2. Pow2[attempt - 1] <= Pow2[attempts - 1] /\ Pow2[attempts - 1] \in Nat
      BY <1>1, <2>1, Powers, PowersGrow
    <2> QED
      BY <2>2 DEF Backed, BacksOff
  <1>5. CASE pc = "file"
    <2>1. now = started /\ backoff <= Pow2[attempts - 1]
      BY <1>4, <1>5 DEF Spent
    <2> QED
      BY <1>0, <1>3, <1>4, <2>1 DEF LongestCall
  <1>6. CASE pc = "send"
    <2>1. now - started <= (attempt - 1) * timeout + backoff - 1
      BY <1>6 DEF Spent
    <2> QED
      BY <1>0, <1>2, <1>3, <1>4, <2>1 DEF LongestCall
  <1>7. CASE pc = "inflight"
    <2>1. now <= alarm /\ alarm - started <= attempt * timeout + backoff - 1
      BY <1>7 DEF Spent
    <2> QED
      BY <1>0, <1>2, <1>3, <1>4, <2>1 DEF LongestCall
  <1>8. CASE pc = "sleep"
    <2>1. /\ now <= alarm /\ alarm - started <= attempt * timeout + 2 * backoff - 1
          /\ attempt <= attempts - 1
      BY <1>0, <1>8 DEF Spent
    <2>2. (attempt - 1) + 1 = attempt
      BY <1>0
    <2>3. 2 * backoff = Pow2[attempt] /\ Pow2[attempt] <= Pow2[attempts - 1]
      BY <1>0, <1>1, <1>4, <2>1, <2>2, Powers, PowersGrow
    <2> QED
      BY <1>0, <1>2, <1>3, <1>4, <2>1, <2>3 DEF LongestCall
  <1> QED
    BY <1>0, <1>5, <1>6, <1>7, <1>8

\* With any settings, a call is over after LongestCall at the latest, and what
\* it reports as its duration is no longer than that.
THEOREM CallsAreBounded == Spec => []InTime
  <1>1. Init => Spent /\ Backed /\ InTime
    <2> SUFFICES ASSUME Init PROVE Spent /\ Backed /\ InTime
      OBVIOUS
    <2>1. Len(sentAt) = 0 /\ attempt = 1 /\ backoff = 1 /\ pc = "idle" /\ attempt - 1 = 0
          /\ result = "none"
      BY DEF Init
    <2> QED
      BY <2>1, SettingsType, Powers DEF Spent, Backed, BacksOff, InTime, Between
  <1>2. Typed /\ Spent /\ Backed /\ InTime /\ [Next]_vars
            /\ (Typed /\ Spent /\ Backed)' => InTime'
    <2> SUFFICES ASSUME Typed, Spent, Backed, InTime, [Next]_vars, (Typed /\ Spent /\ Backed)'
                 PROVE  InTime'
      OBVIOUS
    <2>1. (~Between => now - started <= LongestCall)'
      <3>1. (Typed /\ Spent /\ Backed /\ ~Between => now - started <= LongestCall)'
        BY CallInTime, PTL
      <3> QED
        BY <3>1
    <2>2. ASSUME result' = "ok" PROVE duration' <= LongestCall
      <3>1. CASE UNCHANGED <<result, duration>>
        BY <2>2, <3>1 DEF InTime
      <3>2. CASE \E a : ReturnOrders(a) /\ ~Between
        BY <3>2, CallInTime DEF ReturnOrders
      <3>3. CASE Call \/ \E e \in {"error", "ErrUpstream"} : Return(e)
        BY <2>2, <3>3 DEF Call, Return
      <3>4. CASE SleepCancelled
        <4>1. lastErr \in {"nil", "ErrUpstream", "error"}
          BY DEF Typed, TypeOK
        <4> QED
          BY <2>2, <3>4, <4>1 DEF SleepCancelled, Return
      <3>5. ASSUME NEW kind, Fails(kind) \/ Sleeps(kind) PROVE duration' <= LongestCall
        BY <3>1, <3>3, <3>5, ErrorType DEF Fails, Sleeps, replyVars
      <3>6. CASE ReadFile
        BY <3>2, <3>3, <3>6 DEF ReadFile, Between
      <3>7. CASE Respond
        BY <3>2, <3>5, <3>7 DEF Respond, Between
      <3>8. CASE SendCancelled \/ TimedOut
        BY <3>5, <3>8 DEF SendCancelled, TimedOut
      <3>9. CASE Tick \/ Cancel \/ Send \/ Wake \/ UNCHANGED vars
        BY <3>1, <3>9 DEF Tick, Cancel, Send, Wake, vars, replyVars
      <3> QED
        BY <3>3, <3>4, <3>6, <3>7, <3>8, <3>9 DEF Next, Step
    <2> QED
      BY <2>1, <2>2 DEF InTime, LongestCall, attempts, timeout
  <1> QED
    BY <1>1, <1>2, TypedInit, TypedNext, SpentNext, BackedNext, PTL DEF Spec

\* How far a call has come: three steps per attempt that is left, and within a
\* step the time to the next alarm and whether the context is still alive.
Remaining ==
    IF Between THEN 0
    ELSE 3 * (attempts - attempt)
         + (IF pc \in {"file", "send"} THEN 3 ELSE IF pc = "inflight" THEN 2 ELSE 1)
Wait ==
    (IF pc \in {"inflight", "sleep"} THEN alarm - now ELSE 0) + (IF ctxDone THEN 0 ELSE 1)

\* Every step of a call brings its end nearer.
CountsDown ==
    ~Between => \/ Remaining' < Remaining
                \/ Remaining' = Remaining /\ Wait' < Wait

LEMMA MeasuresAreNumbers == Typed /\ Spent => Remaining \in Nat /\ Wait \in Nat
  <1> SUFFICES ASSUME Typed, Spent PROVE Remaining \in Nat /\ Wait \in Nat
    OBVIOUS
  <1>0. /\ attempt \in Nat \ {0} /\ now \in Nat /\ alarm \in Nat /\ attempts \in Nat
        /\ attempt <= attempts
    BY SettingsType DEF Typed, TypeOK, Spent
  <1>1. attempts - attempt \in Nat
    BY <1>0
  <1>2. Remaining \in Nat
    BY <1>1 DEF Remaining
  <1>3. pc \in {"inflight", "sleep"} => alarm - now \in Nat
    BY <1>0 DEF Spent
  <1>4. (IF pc \in {"inflight", "sleep"} THEN alarm - now ELSE 0) \in Nat
    BY <1>3
  <1>5. Wait \in Nat
    BY <1>4 DEF Wait
  <1> QED
    BY <1>2, <1>5

LEMMA StepsCountDown == Typed /\ Spent /\ [Next]_vars => [CountsDown]_vars
  <1> SUFFICES ASSUME Typed, Spent, Next, ~Between
               PROVE  Remaining' < Remaining \/ (Remaining' = Remaining /\ Wait' < Wait)
    BY DEF CountsDown
  <1>0. /\ attempt \in Nat \ {0} /\ now \in Nat /\ alarm \in Nat /\ attempts \in Nat
        /\ attempt <= attempts /\ pc \in {"file", "send", "inflight", "sleep"}
        /\ attempts' = attempts
    BY SettingsType DEF Typed, TypeOK, Spent, Between, attempts
  <1> HIDE DEF attempts
  <1>1. ASSUME pc' = "returned" PROVE Remaining' < Remaining
    <2>1. Remaining' = 0
      BY <1>1 DEF Remaining, Between
    <2>2. Remaining > 0
      BY <1>0 DEF Remaining
    <2> QED
      BY <2>1, <2>2
  <1>2. ASSUME NEW kind, pc = "inflight", Sleeps(kind) PROVE Remaining' < Remaining
    BY <1>0, <1>2 DEF Sleeps, Remaining, Between
  <1>3. CASE Tick
    <2>1. /\ pc \in {"inflight", "sleep"} /\ now' = now + 1
          /\ UNCHANGED <<pc, attempt, alarm, ctxDone>>
      BY <1>3 DEF Tick, callVars
    <2>2. Remaining' = Remaining
      BY <1>0, <2>1 DEF Remaining, Between
    <2>3. Wait' < Wait
      BY <1>0, <2>1 DEF Wait
    <2> QED
      BY <2>2, <2>3
  <1>4. CASE Cancel
    <2>1. ctxDone' = TRUE /\ ctxDone = FALSE /\ UNCHANGED <<now, pc, attempt, alarm>>
      BY <1>4 DEF Cancel, callVars, Typed, TypeOK
    <2>2. Remaining' = Remaining
      BY <1>0, <2>1 DEF Remaining, Between
    <2>3. Wait' < Wait
      BY <1>0, <2>1 DEF Wait
    <2> QED
      BY <2>2, <2>3
  <1>5. CASE Send \/ Wake
    <2>1. CASE Send
      BY <1>0, <2>1 DEF Send, Remaining, Between
    <2>2. CASE Wake
      <3>1. pc = "sleep" /\ pc' = "send" /\ attempt' = attempt + 1
        BY <2>2 DEF Wake
      <3>2. Remaining = 3 * (attempts - attempt) + 1
        BY <3>1 DEF Remaining, Between
      <3>3. Remaining' = 3 * (attempts - (attempt + 1)) + 3
        BY <1>0, <3>1 DEF Remaining, Between
      <3> QED
        BY <1>0, <3>2, <3>3
    <2> QED
      BY <1>5, <2>1, <2>2
  <1>6. CASE ReadFile \/ SleepCancelled \/ SendCancelled
    BY <1>1, <1>6 DEF ReadFile, SleepCancelled, SendCancelled, Fails, Return, ReturnOrders
  <1>7. CASE Respond \/ TimedOut
    BY <1>1, <1>2, <1>7 DEF Respond, TimedOut, Fails, Return, ReturnOrders
  <1>8. ~Call
    BY DEF Call
  <1> QED
    BY <1>3, <1>4, <1>5, <1>6, <1>7, <1>8 DEF Next, Step

\* With any settings, a call makes finitely many steps: two numbers, the second
\* within the first, go down with every one of them.
THEOREM CallsRunDown ==
    Spec => [](Remaining \in Nat /\ Wait \in Nat) /\ [][CountsDown]_vars
  <1>1. Init => Spent
    BY SpentInit
  <1> QED
    BY <1>1, TypedInit, TypedNext, SpentNext, MeasuresAreNumbers, StepsCountDown, PTL DEF Spec

-----------------------------------------------------------------------------
(* What an ErrUpstream tells the caller.                                   *)

\* An ErrUpstream that is not about a rejected request or an exhausted origin
\* comes from the last attempt, or from a call whose context has ended.
GaveUp ==
    pc = "returned" /\ result = "ErrUpstream" =>
        \/ outcomes[Len(outcomes)] \in {"client", "origin"}
        \/ attempt = attempts
        \/ ctxDone

\* client.go:46-48 and 135-153: how far the error can be taken at its word.  A
\* caller who is still there, and whose attempts were not used up, is told of a
\* response that is not worth a retry.
THEOREM ErrUpstreamMeansGivenUp == Spec => []GaveUp
  <1>1. Init => GaveUp
    BY DEF Init, GaveUp
  <1>2. Typed /\ Spent /\ GaveUp /\ [Next]_vars => GaveUp'
    <2> SUFFICES ASSUME Typed, Spent, GaveUp, [Next]_vars PROVE GaveUp'
      OBVIOUS
    <2>0. /\ outcomes \in Seq(Outcomes) /\ attempt \in Nat /\ attempts \in Nat
          /\ attempt <= attempts
      BY SettingsType DEF Typed, TypeOK, Spent
    <2>1. ASSUME pc' # "returned" \/ result' # "ErrUpstream" PROVE GaveUp'
      BY <2>1 DEF GaveUp
    <2>2. ASSUME NEW kind \in Outcomes \ {"ok"}, Fails(kind) \/ Sleeps(kind) PROVE GaveUp'
      <3>1. CASE Sleeps(kind)
        BY <2>1, <3>1 DEF Sleeps
      <3>2. CASE Fails(kind)
        <4>1. /\ outcomes' = Append(outcomes, kind) /\ attempt' = attempt
              /\ ctxDone' = ctxDone
              /\ kind = "client" \/ kind = "origin" \/ ctxDone \/ attempt >= attempts
          BY <3>2 DEF Fails, Return, OriginExhausted, callVars
        <4>2. outcomes'[Len(outcomes')] = kind
          BY <2>0, <4>1
        <4>3. attempts' = attempts
          BY DEF attempts
        <4>4. attempt >= attempts => attempt = attempts
          BY <2>0
        <4> QED
          BY <4>1, <4>2, <4>3, <4>4 DEF GaveUp
      <3> QED
        BY <2>2, <3>1, <3>2
    <2>3. CASE Respond
      <3>1. ASSUME NEW a, ReturnOrders(a) PROVE GaveUp'
        BY <2>1, <3>1 DEF ReturnOrders
      <3> QED
        BY <2>2, <2>3, <3>1 DEF Respond
    <2>4. CASE SendCancelled \/ TimedOut
      <3>1. "transport" \in Outcomes \ {"ok"}
        BY DEF Outcomes
      <3> QED
        BY <2>2, <2>4, <3>1 DEF SendCancelled, TimedOut
    <2>5. CASE ReadFile
      BY <2>1, <2>5 DEF ReadFile, Return, ReturnOrders
    <2>6. CASE Send \/ Wake \/ Call
      BY <2>1, <2>6, ClientAssumption DEF Send, Wake, Call
    <2>7. CASE SleepCancelled
      BY <2>7 DEF SleepCancelled, Return, GaveUp
    <2>8. CASE Tick \/ UNCHANGED vars
      BY <2>8 DEF Tick, vars, callVars, replyVars, GaveUp, attempts
    <2>9. CASE Cancel
      BY <2>1, <2>9 DEF Cancel, Between
    <2> QED
      BY <2>3, <2>4, <2>5, <2>6, <2>7, <2>8, <2>9 DEF Next, Step
  <1> QED
    BY <1>1, <1>2, TypedInit, TypedNext, SpentInit, SpentNext, PTL DEF Spec
=============================================================================
