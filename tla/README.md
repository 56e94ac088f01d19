# Formal model of ticketbutler-proxy

TLA+ specifications of ticketbutler-proxy, the TLC configurations that check
them on small instances, and TLAPS proofs of their main properties for all
instances. `PROJECT.json` lists the parts of the system, the runs, the lines
each definition models, the findings, the hazards and the theorems.

    tlc -workers 2 -config MCServer_service.cfg MCServer
    tlapm ServerProofs.tla

## 1. The system

TicketButler answers a request for all orders of an event in minutes, Apps
Script gives up after 60 seconds. The proxy fetches the orders when Cloud
Scheduler asks for it (`POST /v1/refresh`), keeps an aggregated snapshot in
memory and in Cloud Storage, and answers reads from it at once. Google Sheets
scripts read the proxy, fill the sheets, and mail discount codes to sponsors.

    Cloud Scheduler --POST /v1/refresh--> HTTP API --> Refresher --> FetchOrders --> TicketButler
    Apps Script ------GET /v1/...-------> HTTP API --> Refresher --> Store (Cloud Storage, memory)
    Apps Script --POST discount-codes--> TicketButler,  --> SPONSORS sheet,  --> Gmail

| Component | State | Operations | Module |
|---|---|---|---|
| Refresher (`internal/snapshot`) | `cached` under `mu`, `refreshMu` | `Refresh`, `Current`, `Warm` | `Refresher` |
| Store (`internal/store`) | one object | `Load`, `Save` | `Refresher` |
| TicketButler client (`internal/ticketbutler`) | none between calls; attempt, backoff, context during one | `FetchOrders` | `FetchOrders`, contract in `Fetcher` |
| HTTP API (`internal/httpapi`) | requests under way | the handlers | `Server`, over `Refresher` |
| Process (`cmd/tbproxy`) | running, draining or not | serve, one-shot refresh, SIGTERM, shutdown | `Server`, `Refresher` |
| Tokens (`internal/httpapi/auth.go`) and configuration (`internal/config`) | the configuration an instance started with | `Load`, `validate`, `allows` | `Config`, `Deployment` |
| Deployment scripts (`deploy/`) | the secret, the scheduler's copy of a token | redeploy, `scheduler.sh`, token rotation | `Deployment` |
| Aggregation (`internal/aggregate`) | counts and the position in the payload | `Summarise`, `Sponsors` | `Aggregate`, over `Orders`; the script it was ported from in `LegacySales` |
| Sponsors scripts (`appsscript/Sponsors.gs`, `TicketButler.gs`) | the SPONSORS sheet, codes at TicketButler, mails | `processCommunitySponsors`, `processPaidSponsors`, `sendPaidSponsorCodes` | `SponsorSheet` |
| Proxy client script (`appsscript/TbProxy.gs`) | a token, a memo per execution | `tbGet_` | its token in `Deployment` |
| Ticket sales script (`appsscript/TicketSales.gs`) | two sheets | sheet updates | not modelled |

What is hard about it, and what makes each part right:

* *Refresher.* Reads, refreshes and restarts interleave; a fetch takes minutes,
  so a refresh may queue for longer than its caller waits; fetch and save fail
  separately, and a save that failed may have been made. Right means: refreshes
  of a process do not overlap, the stored object never gets older and keeps
  what was acknowledged, reads never wait for a refresh, a refresh is never
  answered with data from before it was asked for, the ages the API reports
  are sound.
* *HTTP API and process.* Callers hang up, answers come after the write
  deadline, SIGTERM and Shutdown race the requests. Right means: what a status
  says is so (200 stored, 207 not stored, 503 nothing there), nobody who was
  shown a stored snapshot is sent back in time, health means that reads work,
  a shutdown ends.
* *Tokens.* The list, the scheduler's copy and the script's copy change one by
  one, and an instance may start between any two changes. Right means: nobody
  is locked out on the way, and the old token opens nothing in the end.
* *FetchOrders.* Timeouts, retries, backoff and cancellation mix. Right means:
  what settles the matter is not retried, requests and time are bounded, the
  result is of this call and so is the duration.
* *Aggregation.* Right means: every ticket is counted once and in its row, every
  sponsor is listed once, and what a ticket adds is what it added before the port.
* *Sponsors.* Sheet, TicketButler and Gmail are three systems with no
  transaction around them, no lock is taken, and a script can end between any
  two calls. Right means: nobody is mailed a code that TicketButler has not
  answered for (it may still have refused it: see section 5), nobody is marked as
  written to who was not, and what overlap and interruption can add in mails and
  rows is bounded.

`PROJECT.json` has each of these hazards with the line where it bites.

## 2. The modules

### Refresher

Threads are HTTP requests (or the one call of `tbproxy refresh`), each in a
process. Per process: `up`, `cached`, `refreshMu`. Shared: `stored`, the object.
A snapshot is its `fetched_at` (`at`), its `source_duration_ms` (`dur`) and the
instant its orders are from (`asOf`); everything else in it is a function of
the orders.

| Action | Code |
|---|---|
| `Start` (with `Warm`) | `build` and `Warm` before the listener opens (main.go:130-161, refresher.go:105-119) |
| `Crash` | scale to zero, redeployment, kill; the end of `tbproxy refresh`. With the memory store the object goes too |
| `CallRefresh`, `LockRefresh` | the call, and `refreshMu.Lock`, which no context interrupts |
| `RefreshFails` | `FetchOrders` or `Encode` returns an error; deferred `Unlock` |
| `BuildSnapshot` | `FetchOrders` returns orders; the clock is read after it, `Build`, `Encode` |
| `SaveOk`, `SaveFails` | `Store.Save`; a failed save to Cloud Storage may or may not have replaced the object |
| `PublishRefresh` | `setCached` on both paths, return, deferred `Unlock` |
| `CallCurrent`, `Load`, `FillCache` | `Current`: the cached snapshot, or load, decode and `setCached` without looking at what is cached by then |
| `Reply` | the request is over and the thread stands for the next one |

A cancelled context shows as a fetch, load or save that fails, which each may at
any time. Taken as given: the clock does not run backwards, and a `Save` that
has returned has replaced the object by then or never will (hazard at
gcs.go:73). The clock is read once after a fetch, where the client reads it for the
duration and the Refresher again for the stamp (client.go:116, refresher.go:61), and
the duration is not cut to milliseconds (snapshot.go:32): both are below the
resolution of an instant.

`calledAt`, `floor`, `latest`, `warm` and `acked` are history variables: no
action reads them except to set another one. (`Server` reads `calledAt` for the
write deadline, which net/http counts from the same moment.)

### Server

Extends `Refresher`: each action of `Refresher` is taken by a request or by the
process, with what HTTP and the process add to it.

| Action | Code |
|---|---|
| `Get`, `PostRefresh` | a request reaches a handler while the listener is open |
| `Reading`, `Refreshing` | the steps of `Current` and `Refresh`; a request whose context is over gets no more out of TicketButler or Cloud Storage (a file is still read) |
| `HangUp` | the caller's connection ends, and the request's context with it |
| `WriteAnswer` | `handleHealth`, `handleData` (`snapshotOr503` and its callers), `handleRefresh`, `metaFor`, `writeJSON`; lost if the caller has gone or `WriteTimeout` is over |
| `Serve`, `Kill` | `Start` and `Crash` |
| `Sigterm`, `GraceOver`, `Exit` | `serve` from `ctx.Done` on: `Shutdown` closes the listener, waits for requests or 15 s, and the process ends |

`shown` and `before` remember what callers have seen. A request arrives with a
valid token; tokens are the business of `Deployment`.

### Config and Deployment

`Config` has `Load` and `validate` as operators over an environment that is
reduced to what they ask about: empty, nothing but spaces, not parseable, a number,
a short or a long token. `Deployment` is the service around it: the secret, the settings of the
revision, the running instance with the configuration it started with, the
token each of the two callers holds, and the step of the rotation. `Redeploy`
tries any environment, `ScaleToZero` and `ColdStart` come at any time and read
the newest secret. `AddToken`, `Roll`, `UpdateScript`, `RunScheduler` and `DropOld`
are the procedure of deploy/README.md:107-140, `presentedTokens` and `allows` are
auth.go. What `AddToken` writes may be a version that `Load` refuses, with a token
that is too short or with nothing in it; the roll then fails (deploy.sh has
`set -e`) and the version is written again. `RunScheduler` takes the first token of
the list or the one given as `API_TOKEN`. `NewFirst` says where the new token goes: deploy/README.md wants it
first, SECURITY.md appends it.

### Orders, Aggregate and LegacySales

`Orders` reduces a payload to what the aggregation looks at. `Aggregate` has
`Summarise` and then `Sponsors` with a step for each ticket and each order, and
`LegacySales` the loops of testdata/parity/legacy.js in the same steps.
`PortsLegacy` compares the two step by step rather than at the end, so that a
ticket on which they differ does not hide those that come after it. It is about the
step: a row of the script that an earlier ticket made `NaN` stays so, and the port's
does not. A name is the text before and after its last " - " and the words in it;
case and spaces are `Fold` and `Trim`; prices are whole numbers and `Missing`, and so
is the VAT rate; JavaScript's `NaN` is kept.

### Fetcher and FetchOrders

`Fetcher` is the contract behind the interface of refresher.go:17-19: a call
ends with an error, or with the orders as of an instant of the call and with how
long the call took. `Refresher` builds this contract into `RefreshFails` and
`BuildSnapshot`. `FetchOrders` models the loop itself, attempt by attempt, and
`ImplementsFetcher` says that it keeps the contract (`from <- started`,
`dur <- duration`, `phase` from `pc` and `result`).

The unit of time is 30 s, the first backoff. Timers and cancellation are urgent:
`Tick` is disabled while one is due. `sleepFor`'s select may take either branch
when both are ready. `2 * backoff` stands for `30 s << (attempt - 1)`; `BacksOff`
ties it to the power of two, `Pow2`, which is a recursive function so that it can
be proved about.

### SponsorSheet

Executions run one of three functions, one after the other or side by side;
every call that leaves the script is a step, and `Kill` may end an execution
between any two. `rows[1]` is sheet index 3. A code is `digest(company)` and stands
for its company, and a company is a name as it is spelled, since that is what the
script compares. A call to `ticketButlerDiscount` makes the code, finds it there, is
refused with a 400 that made none (`refused`), which the script does not tell from
the first two, or throws. `overlaps` counts the executions that began while another was
under way. `digest` and `getDraft` are not in the repository; a draft may be
missing. `tbSponsors_` that throws ends an execution before it does anything, and
is left out. Edits that people make to the sheet during an execution are not
modelled.

### MC modules

`MCRefresher` and `MCServer` place threads in processes, which a .cfg cannot
write; `MCDeployment` has the environments, `MCAggregate` the payloads; all but
`MCAggregate` have the symmetry of what is interchangeable.

## 3. The runs

| Run | Configuration | What it shows |
|---|---|---|
| `server_restarts` | one process on Cloud Storage, 2 refreshes, 1 read, 3 instants, crashes without limit | all properties of the Refresher |
| `service` | one process, 2 refreshes, 1 read, 2 instants, crashes, signals, callers that hang up | what a status, a body and the stale flag tell the caller is so |
| `liveness` | the same with one instant; only reads and shutdown are fair | reads and shutdowns end although a refresh hangs; refreshes end if fetches and saves do |
| `sigterm` | violation | finding 4 |
| `cold_read_race` | violation | finding 1 |
| `second_writer` | violation | finding 2 |
| `retry_loop` | 4 attempts of 2 units, calls at 0..2, from the API and from a file | all properties of the loop, the refinement, termination |
| `errupstream_meaning` | violation | finding 3 |
| `sponsors` | 1 community sponsor, 1 paid sponsor, 2 executions at a time, 4 in all, 1 interruption | rows, codes, mails and dates agree |
| `summary` | up to 3 tickets of 13 kinds in up to 2 orders | every ticket counted once, every sponsor once, the port faithful |
| `rotation` | 3 tokens and a short one, rotations without limit, new token first, about 60 environments | both callers get in throughout, the old token does not afterwards, past the first roll an instance can start |
| `rotation_appended` | violation | finding 5 |

The properties:

* `RefreshesSerialised`: between `Lock` and `Unlock` is exactly the holder.
* `SourceWindow`: the orders of every snapshot are from between `fetched_at -
  source_duration` and `fetched_at`, which is not in the future.
* `FreshAsAsked`: what `Refresh` returns is from after the call.
* `ServedOnceRefreshed`: after a fetch every later read of the process gets a
  snapshot, whatever the store does.
* `WarmServesLatest`: a process that `Warm` gave a snapshot never serves less
  than its last fetch. Without `Warm` this is finding 1.
* `AckedIsDurable`: the object is the last acknowledged snapshot or a newer one.
* `StoredNeverOlder`: the object is only replaced by one at least as new, though
  nothing in the code compares the two.
* `OnlyColdReadsRegress`: inside one run of a process only a read that found the
  cache empty can put an older snapshot in front of readers. The finding is thus
  the only one of its kind.
* `RefreshedMeansStored`: 200 to `POST /v1/refresh` means that the object is that
  snapshot or a newer one, also when others have refreshed since.
* `NoSnapshotYetIsTrue`: 503 is never the answer to a request that came after
  somebody had been shown a stored snapshot.
* `NeverOlderThanShown`: such a request gets at least that snapshot, through
  crashes and restarts, if its process was warmed up.
* `HealthyMeansServing`: after `/healthz` has reported a snapshot, reads of the
  process have one.
* `StaleFlagIsRight`: the flag, computed from `fetched_at`, is right about the
  orders within the duration of their fetch.
* `EveryRefreshEnds`, `ReadReturns`, `ShutdownEnds`: liveness.
* `ServesOnlyUsable`: whatever the environment, an instance that serves has a
  configuration that needs no further checks.
* `StartsAgain`: only between the writing of a version with a new token and the
  first roll can an instance fail to start; a version that `Load` refuses does not
  get past that roll, and what follows it, the removal of the old token and
  redeployments included, starts.
* `NobodyLockedOut`, `RotatedOut`: the two halves of what a rotation is for.
* `RowsShareOutTickets`, `OneEntryPerSponsor`, `PortsLegacy`: counts, sponsors and
  the port.
* `DecisiveOutcomeIsLast`, `BacksOff`, `WithinBudget`, `ImplementsFetcher`,
  `Terminates`: the loop stops on what settles the matter, waits 30 s, 60 s ...
  between requests, is bounded in requests and time, is a `Fetcher`, ends.
* `DatedMeansMailed`: holds whatever overlaps.
* `OnlyRefusedCodesMissing`: a mailed code that does not exist is one that
  TicketButler answered 400 to, whatever else failed, overlapped or was cut short.
* `NoExtraMails`, `OneRowPerName`: a mail is repeated at most once for each
  overlapping or interrupted execution, a row for each overlapping one only.

Bounds. `MaxTime = 2` has three instants, enough for a snapshot from before, one
being fetched and one fetched after it, each with orders from either end of its
fetch. `service` has two, since its properties compare two snapshots, and
`StaleAfter = WriteTimeout = 0`, so that both are exceeded within them. `liveness`
has one: no fairness depends on the clock. Two refreshes are enough for one to
wait, and threads start over after `Reply`, so sequences are not bounded, and
neither are crashes. Four attempts have three different backoffs; `Timeout = 2`
lies between the first and the last of them; `LastCall = 2` lets a call follow
another one with its leftovers. Three tickets are enough for a group to be met
for the first time, again, and after another one, and the 13 kinds differ in
every condition of the aggregation. A third token lets a rotation follow another.
Four executions are enough to append, mail, fill in the codes of the paid sponsor
and come back to a row after an interruption, two of them at once; the paid
sponsor's row and the rows that overlap adds make the one community sponsor's rows
differ in number and place.

Deadlock is checked for `Refresher` and `Server`, which always can crash or start,
and for `Deployment`. It is off for `FetchOrders` and `SponsorSheet`, which stop at
their bound on calls, and for `Aggregate`, which is done when it is done.

Fairness. `RefreshFairness`: a fetch ends (`Terminates`), a save ends, since
its context or the HTTP client does; a goroutine that can run runs (weak
fairness); `sync.Mutex` goes first-in-first-out once somebody has waited for a
millisecond, hence strong fairness of `LockRefresh`. It is a hypothesis of
`EveryRefreshEnds` and not of the specification, so that `ReadReturns` and
`ShutdownEnds` hold without it. `ReadFairness`: a read that can go on does.
`ShutdownFairness`: the timer of 15 s fires and a process that may exit does. No
fairness for calls, callers, crashes, signals or the clock. In `FetchOrders`, time
passes and timers fire; `Respond` is not fair, since TicketButler owes nobody an
answer.

## 4. The proofs

Seven modules hold theorems; all are for every value of the constants. They
assume what the ASSUMEs of the modules state, which TLC evaluates in each run. The
runs have Cloud Storage as the store; the theorems hold for the memory store too
unless they say `Durable`.

Every invariant and every action property that a passing run checks is stated by
a theorem. The theorems that no run has a property for are of two kinds: the
extent of a finding (what still holds where a property fails), and facts about the
program that are not bounded by an instance (`CallsAreBounded`, `CallsRunDown`,
`RowNumbersStay`, `ImplementsScript`).

*InductionFacts.* The provers cannot instantiate an induction theorem that takes
an operator as a parameter, so induction is stated over sets: `LeastNatural` (a
non-empty set of naturals has a least element), `InductionOnSet` (a set with 0 and
with the successor of each of its members has all naturals) and `Recursion` (for
a start and a step there is the sequence of values they lead to, which is why a
function defined by recursion, such as `Pow2`, satisfies its equation). A proof by
induction defines the set of the numbers that have the property.

*RefresherProofs.*

* `TypeCorrect`: `Typed` adds that no recorded instant is in the future.
* `MutualExclusion`: `RefreshesSerialised` is inductive together with `Typed`.
* `SoundAges`: `Windows`, the same bounds for every place a snapshot can be in.
* `NoCoalescing`: `FreshSteps` carries `calledAt <= started` and then
  `asOf >= calledAt` through the steps of `Refresh`, as the property speaks of
  the last step only.
* `ServedAfterRefresh`, `WarmIsMonotone`: `ReadInv`. `DownIsEmpty` (a stopped
  process has nothing in memory), `ServedSteps` (once `latest` is set so is
  `cached`, and a read that is loading was called before that or has nothing to
  hold against it), `WarmSteps` (a warm process has a full cache, at least as new
  as `latest`, and no read that is loading: this is why `Warm` rules finding 1
  out).
* `StoredMonotone`, `AckSurvives`, `ColdReadsOnly` assume `SingleInstance`.
  Nothing compares a snapshot with what it replaces, so the order has to come
  from the mutex: `Order` says that what is stored was stamped before the
  running fetch began (`FetchOrder`), is no newer than the snapshot about to be
  saved (`SaveOrder`), and is that snapshot once it is saved (`SavedIsStored`).
  `FetchBringsNewer` and `OneRefresh` are the two lemmas behind it. The run
  `second_writer` shows that the assumption is needed.
* `SettlesForGood`, `RefreshHeals`: how far finding 1 goes. A process is `Settled`
  when its cache is as new as its last fetch and no cold read is under way. From
  then on it stays so until it ends, since a read that finds a full cache returns
  it and only a Refresh writes; and a Refresh that is published with no cold read
  under way settles it, and puts there (single instance) what is as new as
  anything stored, cached or about to be returned. No read is cold once the cache
  is full, so the harm is over with the first Refresh that is published after the
  early cold reads have ended.
* `RacesAreBounded`: how far finding 2 goes. With any number of writers, an
  overwritten object is newer than its successor by at most the length of the
  Refresh that wrote the successor, from `Windows` and `FreshSteps`.

*ServerProofs.*

* `ServerRefines`: every step of `Server` is a step of `Refresher` or none, so all
  of the above holds behind the API, and the invariants of `RefresherProofs` are
  available to the proofs that follow.
* `FlagIsRight` from `Windows`; `HealthIsTrue` from `ReadsLeaveCache` (a read that
  returned a snapshot leaves one in the cache).
* `NotFoundIsTrue` (Cloud Storage, any number of processes): `ShownIsStored`, who
  was shown a stored snapshot came after one was stored, and a stored object that
  decodes goes on decoding.
* `RefreshedIsStored` (single instance): `DoneIsStored` carries the order of
  `SavedIsStored` past the unlock, where others may save.
* `NobodySentBack` (single instance, Cloud Storage): `WarmCache`, the cache of a
  warm process has caught up with every request that is over, and `ShownOrder`,
  the object, that cache and the answers to later reads are never older than what
  has been shown.

*DeploymentProofs.* The invariants say for each step of the rotation which tokens
the secret may have (`Enterable`), which an instance may have read of it
(`Readable`; a version that does not load has been read by nobody), and which each
caller may hold. `Booted` is where the incoming token becomes a good one: an instance
has started with it. `LoadAgain` takes that to the version without the old token,
and to other settings. From them `ServedIsUsable`, `AlwaysStarts`, `OldTokenIsOut`, and with `NewFirst`
`CallersGetIn`. The run `rotation_appended` shows that `NewFirst` is needed.
`OnlyTheJobIsLockedOut` says what holds without it (`HoldingAnyway`): the script is
always let in, and so is the job from `scheduler.sh` until the old token is removed.

*AggregateProofs.* `Place`: the position is in the payload. `RowsAreRight`:
`Shares` adds to the property that there is a finite number of tickets behind the
position. `PortIsFaithful`: `Numbers`, the maps of the summary hold numbers, never
`NaN`, and `seen` is what has been found; each action is then the script's action,
with `SameShirt` for the one place where the two look at the answers differently.
`ImplementsScript` puts the steps together: with the script's options and payloads
of ported tickets only, `Aggregate` implements `LegacySales`, its initial states and
its result included. `SponsorsAreDistinct`: `Found` says that the sponsors found so
far are one for each key behind the position and are those of the first tickets;
that `sort.Slice` neither loses, doubles nor misplaces any of them is
`SortedArranges` and `SortedKeepsKeysApart`, by induction on the number of sponsors
with `Insertion` for the step.

*FetchOrdersProofs.*

* `TypeCorrect`: `InCall` adds that requests were sent during the call and that a
  sleeping loop has an error to return.
* `Refinement`: initial states map to initial states, each step to a step of
  `Fetcher` or to a stutter.
* `NoRetryAfterDecision`: `Retryable`, nothing that settles the matter is behind a
  loop that goes on.
* `Budget`: `Spent` bounds `alarm` and `now` by what the attempts so far can have
  used, with `backoff - 1` for the sum of the backoffs.
* `Spacing`: `BacksOff` for all numbers of attempts. `Backed` adds the wait that is
  still owed by a sleeping loop; `Powers` is what `Pow2` is, by induction.
* `CallsAreBounded`: `LongestCall`, the bound of `WithinBudget` as a number of the
  settings alone, for the end of a call and for the duration it reports.
* `ErrUpstreamMeansGivenUp`: how far finding 3 goes. The `ErrUpstream` of a 5xx that is
  retried comes back from the last attempt or to a caller who has gone, and from
  nowhere else.
* `CallsRunDown`: `Remaining` and `Wait` are naturals, and each step of a call makes
  the first smaller, or keeps it and makes the second smaller. A call can thus
  only fail to end by not being scheduled, which is what the fairness of
  `Terminates` excludes.

*SponsorSheetProofs.*

* `TypeCorrect`: `Bounds`, an execution that is about a row is about one it has
  read; `Grows`, the sheet only grows at its end and no row changes its company.
* `RowNumbersStay` is `Grows` as a theorem: the scripts write to a row by the number
  it had when they read the sheet, and no execution ever moves it.
* `DatesAreTrue`, `MailedCodesWork`: `Remembered`, what was read of a row still
  tells its company and kind; `Prepared`, what is done by the time an execution
  gets to each step. `MailedCodesWork` is `OnlyRefusedCodesMissing` for any number of
  companies and executions.
* `RowsPerName`: `RowsCounted` counts an execution that is about to append a row
  as if it had, since it has looked and found none; `Overlaps` bounds how many
  of them there are.
* `MailsPerRow`: `MailsCounted`. As long as a row has no date each of its mails is
  still to be followed by one or its execution was ended; afterwards only those
  who read the row before can mail it.

Only model-checked: liveness (`Terminates`, `EveryRefreshEnds`, `ReadReturns`,
`ShutdownEnds`), which needs fairness and ENABLED, both beyond the prover.

## 5. Findings

1. `cold_read_race` (refresher.go:101). A process that starts without a snapshot
   serves a read that loads the object while a refresh saves and publishes; the
   read then puts the older snapshot over the newer one, and all later reads get
   it until the next refresh. "Current returns the latest snapshot"
   (refresher.go:83).
2. `second_writer` (main.go:181). `tbproxy refresh` next to the server has a
   mutex of its own; the older fetch can be stored last. "two overlapping
   triggers cannot both fetch and then race to write" (refresher.go:36-38).
3. `errupstream_meaning` (client.go:153). The run has three attempts that end in a
   5xx, each retried but the last, and a caller who is still there: what comes back
   is an `ErrUpstream`, "a non-retryable response" (client.go:46-48), and the API
   tells the operator to check the token (handlers.go:99-103).
4. `sigterm` (main.go:168). SIGTERM does not reach the contexts of requests, and
   the process exits under a refresh when the 15 seconds are over: it is not
   "cancelled cleanly instead of being killed" (main.go:60-61).
5. `rotation_appended` (scheduler.sh:44). With the new token appended the job is
   given the old one again, and is locked out when that is removed. "rotation has
   no window where nothing works" (SECURITY.md:35-41).

Observed while modelling, without a run:

* `WithinBudget` gives 31.5 minutes for the default 3 attempts of 10 minutes, which
  do not "stay inside the Cloud Run request timeout" (config.go:37-40) of 900 s
  (deploy.sh:134).
* The proxy counts two spellings of a company as one sponsor (sponsors.go:25-26);
  if the first ticket's spelling changes the script adds a second row
  (Sponsors.gs:28).
* A missing amount is 0 here and was NaN in the script, not what "the previous
  parseFloat-based code produced" (types.go:151-152). For tickets with several
  answers to the T-shirt question the script counted all of them, the port the
  first. A VAT rate that is missing is 0 here and was NaN in the script. `Ported`
  leaves these out.
* Any status 400 counts as "the code exists already" (TicketButler.gs:51), so a
  sponsor can be mailed a code that TicketButler refused to make.
* `validate` compares with "" (config.go:101-105): an event or a TicketButler token
  of spaces is accepted, and fails at the first refresh.
* Instances read `:latest` when they start (deploy.sh:140), so a version of the secret
  that `Load` refuses takes the service down at the next cold start, without any
  deployment. `StartsAgain` says when this is over.
* deploy.sh:144-145 keeps the CPU for "a refresh that outlives its triggering
  request". `handleRefresh` runs under the request's context, so a refresh ends with
  its request; `HangUp` and `Refreshing` have it so, and no property is about it.
* `validate`'s condition on `Bucket` and `Object` cannot fail, `Object` having a
  default.

## 6. Not modelled

* `TicketSales.gs`: which rows and columns its sheets have is not in the
  repository, and what it does depends on that.
* `TbProxy.gs`, its token apart: the retries, the memo of an execution and the
  line it logs about stale snapshots end in a value or an exception before the
  execution has done anything.
* An upload that lands after its `Save` has returned with an error (gcs.go:73);
  what Cloud Storage promises about it is outside the repository.
* People who sort or edit the SPONSORS sheet during an execution (Sponsors.gs:72).
* Request logging, headers, gzip and JSON; the `verify`, `version` and usage
  commands, which print and exit.
* `deploy/setup.sh`, CI, the Dockerfile and the fixture tools: not part of the
  running system.
