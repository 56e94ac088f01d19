---------------------------- MODULE FetchOrders ----------------------------
(***************************************************************************)
(* Client.FetchOrders of internal/ticketbutler/client.go: the retry loop   *)
(* around one HTTP request for all orders of the event.  The client keeps  *)
(* no state between calls and the Refresher never has two of them at once, *)
(* so one call after the other is modelled.                                *)
(*                                                                         *)
(* The unit of time is 30 seconds, the first backoff.  Timers and a        *)
(* cancelled context take effect at once: time does not pass while a       *)
(* request is over its timeout, a sleep over its end, or either cancelled. *)
(***************************************************************************)
EXTENDS Integers, Sequences

CONSTANTS
    Attempts,   \* Client.Attempts
    Timeout,    \* Client.Timeout, of a single attempt
    Sources,    \* "file": calls of a client whose File is set; "send": of others
    LastCall    \* bound: no call is made after this instant

ASSUME ClientAssumption ==
    /\ Attempts \in Int
    /\ Timeout \in Int
    /\ Sources \subseteq {"file", "send"}
    /\ LastCall \in Nat

attempts == IF Attempts <= 0 THEN 3 ELSE Attempts
timeout  == IF Timeout <= 0 THEN 20 ELSE Timeout

\* How fetchOnce can end: with orders; with a status below 500; with 520,
\* 522, 523 or 524 (OriginExhausted); with another status from 500 on; or
\* without a usable response: transport error, timeout, undecodable body.
Outcomes == {"ok", "client", "origin", "server", "transport"}

\* Mutant: 524 is a server error like any other.
OriginExhausted_Never(kind) == FALSE

OriginExhausted(kind) == kind = "origin"

\* Whether errors.As finds an ErrUpstream in the error.
ErrorOf(kind) ==
    IF kind \in {"client", "origin", "server"} THEN "ErrUpstream" ELSE "error"

VARIABLES
    now,       \* the clock
    pc,        \* where the call is
    attempt,   \* the loop variable
    backoff,   \* 30 s << (attempt - 1), as a value that doubles with attempt
    alarm,     \* when the request in flight times out, or the sleep ends
    started,   \* when the call began
    ctxDone,   \* the context is cancelled
    result,    \* what the call returned, or "none"
    asOf,      \* the instant the orders returned last are from
    duration,  \* Result.Duration returned last
    lastErr,   \* the local variable lastErr
    \* History, read by properties only:
    outcomes,  \* how the attempts of this call ended
    sentAt     \* when the requests of this call were sent

callVars == <<attempt, backoff, alarm, started, lastErr>>
replyVars == <<result, asOf, duration>>
vars == <<now, pc, callVars, ctxDone, replyVars, outcomes, sentAt>>

\* Every variable keeps to its type.
TypeOK ==
    /\ now \in Nat
    /\ pc \in {"idle", "file", "send", "inflight", "sleep", "returned"}
    /\ attempt \in Nat \ {0}
    /\ backoff \in Nat \ {0}
    /\ alarm \in Nat
    /\ started \in Nat
    /\ ctxDone \in BOOLEAN
    /\ result \in {"none", "ok", "ErrUpstream", "error"}
    /\ asOf \in Nat
    /\ duration \in Nat
    /\ lastErr \in {"nil", "ErrUpstream", "error"}
    /\ outcomes \in Seq(Outcomes)
    /\ sentAt \in Seq(Nat)

Init ==
    /\ now = 0
    /\ pc = "idle"
    /\ attempt = 1
    /\ backoff = 1
    /\ alarm = 0
    /\ started = 0
    /\ ctxDone = FALSE
    /\ result = "none"
    /\ asOf = 0
    /\ duration = 0
    /\ lastErr = "nil"
    /\ outcomes = <<>>
    /\ sentAt = <<>>

-----------------------------------------------------------------------------
Between == pc \in {"idle", "returned"}

Tick ==
    /\ \/ Between /\ now < LastCall
       \/ pc \in {"inflight", "sleep"} /\ now < alarm /\ ~ctxDone
    /\ now' = now + 1
    /\ UNCHANGED <<pc, callVars, ctxDone, replyVars, outcomes, sentAt>>

\* The caller's context ends: the client of POST /v1/refresh disconnects.
Cancel ==
    /\ ~Between
    /\ ~ctxDone
    /\ ctxDone' = TRUE
    /\ UNCHANGED <<now, pc, callVars, replyVars, outcomes, sentAt>>

\* A call; its context may have ended while it waited for refreshMu.
Call ==
    /\ Between
    /\ now <= LastCall
    /\ pc' \in Sources
    /\ attempt' = 1
    /\ backoff' = 1
    /\ alarm' = 0
    /\ started' = now
    /\ ctxDone' \in BOOLEAN
    /\ result' = "none"
    /\ lastErr' = "nil"
    /\ outcomes' = <<>>
    /\ sentAt' = <<>>
    /\ UNCHANGED <<now, asOf, duration>>

Return(e) ==
    /\ pc' = "returned"
    /\ result' = e
    /\ UNCHANGED <<now, callVars, asOf, duration, ctxDone>>

\* Mutant: the duration is that of the last attempt only.
ReturnOrders_LastAttempt(a) ==
    /\ pc' = "returned"
    /\ result' = "ok"
    /\ asOf' = a
    /\ duration' = now - IF sentAt = <<>> THEN started ELSE sentAt[Len(sentAt)]
    /\ UNCHANGED <<now, callVars, ctxDone>>

ReturnOrders(a) ==
    /\ pc' = "returned"
    /\ result' = "ok"
    /\ asOf' = a
    /\ duration' = now - started
    /\ UNCHANGED <<now, callVars, ctxDone>>

\* TICKETBUTLER_FILE: the file is the source, and its content the orders as of
\* the moment it is read.
ReadFile ==
    /\ pc = "file"
    /\ Return("error") \/ ReturnOrders(now)
    /\ UNCHANGED <<outcomes, sentAt>>

\* fetchOnce; net/http looks at the context before it sends anything.
Send ==
    /\ pc = "send"
    /\ ~ctxDone
    /\ pc' = "inflight"
    /\ alarm' = now + timeout
    /\ sentAt' = Append(sentAt, now)
    /\ UNCHANGED <<now, attempt, backoff, started, ctxDone, lastErr, replyVars,
                   outcomes>>

\* The rest of the loop body after an error.
Fails(kind) ==
    /\ outcomes' = Append(outcomes, kind)
    /\ \/ kind = "client" \/ OriginExhausted(kind)
       \/ ctxDone
       \/ attempt >= attempts
    /\ Return(ErrorOf(kind))

\* Mutant: lastErr is not kept.
Sleeps_ForgetsError(kind) ==
    /\ outcomes' = Append(outcomes, kind)
    /\ kind # "client" /\ ~OriginExhausted(kind)
    /\ ~ctxDone
    /\ attempt < attempts
    /\ pc' = "sleep"
    /\ alarm' = now + backoff
    /\ UNCHANGED <<now, attempt, backoff, started, lastErr, ctxDone, replyVars>>

\* Mutant: also sleeps after the last attempt.
Sleeps_OnceMore(kind) ==
    /\ outcomes' = Append(outcomes, kind)
    /\ kind # "client" /\ ~OriginExhausted(kind)
    /\ ~ctxDone
    /\ attempt <= attempts
    /\ pc' = "sleep"
    /\ lastErr' = ErrorOf(kind)
    /\ alarm' = now + backoff
    /\ UNCHANGED <<now, attempt, backoff, started, ctxDone, replyVars>>

Sleeps(kind) ==
    /\ outcomes' = Append(outcomes, kind)
    /\ kind # "client" /\ ~OriginExhausted(kind)
    /\ ~ctxDone
    /\ attempt < attempts
    /\ pc' = "sleep"
    /\ lastErr' = ErrorOf(kind)
    /\ alarm' = now + backoff
    /\ UNCHANGED <<now, attempt, backoff, started, ctxDone, replyVars>>

\* The context has ended before the request was sent.
SendCancelled ==
    /\ pc = "send"
    /\ ctxDone
    /\ Fails("transport")
    /\ UNCHANGED sentAt

\* A response, or a broken connection, sooner or later or never.
Respond ==
    /\ pc = "inflight"
    /\ \/ /\ \E a \in sentAt[Len(sentAt)] .. now : ReturnOrders(a)
          /\ outcomes' = Append(outcomes, "ok")
       \/ \E kind \in Outcomes \ {"ok"} : Fails(kind) \/ Sleeps(kind)
    /\ UNCHANGED sentAt

\* Mutant: the request has no timeout of its own.
TimedOut_Never ==
    /\ pc = "inflight"
    /\ ctxDone
    /\ Fails("transport") \/ Sleeps("transport")
    /\ UNCHANGED sentAt

\* The timeout of the attempt, or the end of the context, ends the request.
TimedOut ==
    /\ pc = "inflight"
    /\ now >= alarm \/ ctxDone
    /\ Fails("transport") \/ Sleeps("transport")
    /\ UNCHANGED sentAt

\* Mutant: the backoff stays at 30 s.
Wake_Constant ==
    /\ pc = "sleep"
    /\ now >= alarm
    /\ pc' = "send"
    /\ attempt' = attempt + 1
    /\ UNCHANGED <<now, backoff, alarm, started, ctxDone, lastErr, replyVars,
                   outcomes, sentAt>>

\* sleepFor: when the timer and the context are both done, select may take
\* either.
Wake ==
    /\ pc = "sleep"
    /\ now >= alarm
    /\ pc' = "send"
    /\ attempt' = attempt + 1
    /\ backoff' = 2 * backoff
    /\ UNCHANGED <<now, alarm, started, ctxDone, lastErr, replyVars, outcomes, sentAt>>

SleepCancelled ==
    /\ pc = "sleep"
    /\ ctxDone
    /\ Return(lastErr)
    /\ UNCHANGED <<outcomes, sentAt>>

Step == ReadFile \/ Send \/ SendCancelled \/ TimedOut \/ Wake \/ SleepCancelled

Next == Tick \/ Cancel \/ Call \/ Respond \/ Step

Spec == Init /\ [][Next]_vars

\* Time passes, and the goroutine that can run does run; the upstream owes
\* nobody a response.
FairSpec == Spec /\ WF_vars(Tick) /\ WF_vars(Step)

-----------------------------------------------------------------------------
(* Properties.                                                             *)

\* client.go:66-69 and 89-91: an attempt that succeeded, was rejected or met
\* an exhausted origin is never followed by another one in the same call.
DecisiveOutcomeIsLast ==
    \A i \in 1 .. Len(outcomes) :
        outcomes[i] \in {"ok", "client", "origin"}
            => i = Len(outcomes) /\ pc = "returned"

\* 2 to the power of n, what `<< n` multiplies by.
Pow2[n \in Nat] == IF n = 0 THEN 1 ELSE 2 * Pow2[n - 1]

\* client.go:143-147: consecutive requests of a call are at least 30 s, 60 s,
\* 120 s ... apart, whatever the upstream and the context do in between.
BacksOff ==
    /\ backoff = Pow2[attempt - 1]
    /\ \A i \in 1 .. Len(sentAt) - 1 : sentAt[i + 1] - sentAt[i] >= Pow2[i - 1]

\* A call sends at most `attempts` requests and is over after `attempts`
\* timeouts and the backoffs between them, 1 + 2 + 4 ... = backoff - 1 before
\* the current attempt and none after the last.
WithinBudget ==
    /\ Len(sentAt) <= attempts
    /\ attempt <= attempts
    /\ ~Between => now - started <=
           attempt * timeout + (IF pc = "sleep" THEN 2 * backoff ELSE backoff) - 1

\* What FetchOrders says it took never contradicts what its orders are: it is
\* the Fetcher the Refresher counts on.
phase ==
    IF pc = "idle" THEN "idle"
    ELSE IF pc # "returned" THEN "busy"
    ELSE IF result = "ok" THEN "ok" ELSE "err"

F == INSTANCE Fetcher WITH from <- started, dur <- duration

ImplementsFetcher == F!Spec

\* Every call returns.
Terminates == (phase = "busy") ~> (pc = "returned")

\* client.go:46-48: "ErrUpstream reports a non-retryable response from
\* TicketButler", so that callers can tell it from trouble that may pass.  Here
\* for a caller who is still there when the call returns.
ErrUpstreamIsNotRetryable ==
    pc = "returned" /\ result = "ErrUpstream" /\ ~ctxDone
        => outcomes[Len(outcomes)] \in {"client", "origin"}
=============================================================================
