----------------------------- MODULE Deployment -----------------------------
(***************************************************************************)
(* The service as it is deployed: the secret behind API_TOKENS, instances  *)
(* that read it when they start, internal/httpapi/auth.go, and the two     *)
(* callers, each with a copy of a token: the Apps Script property          *)
(* TBPROXY_TOKEN and the Cloud Scheduler job.  An organiser rotates the    *)
(* token step by step (deploy/README.md, SECURITY.md) while instances come *)
(* and go and the service is redeployed with other settings.               *)
(***************************************************************************)
EXTENDS Config

CONSTANTS
    Envs,      \* environments the service is deployed with, API_TOKENS apart
    NewFirst,  \* TRUE: a new token is put first in the list; FALSE: last
    Oidc,      \* the job's OIDC token, or Blank without SCHEDULER_OIDC=1
    Down       \* no instance is running

Callers == {"script", "job"}

ASSUME DeploymentAssumption ==
    /\ NewFirst \in BOOLEAN /\ Oidc \notin Tokens
    /\ \A e \in Envs : \A raw \in {e.UpstreamTimeout, e.StaleAfter, e.UpstreamAttempts} :
           raw \in Int \cup {Blank, Spaces, Bad}
    /\ \A e \in Envs, ts \in SUBSET Tokens : Filled(e, ts) # Error

VARIABLES
    secret,    \* the newest version of the secret: the parts of API_TOKENS
    settings,  \* the environment of the revision that serves
    instance,  \* the configuration of the running instance, or Down
    held,      \* held[c]: the token that caller c sends
    step,      \* the step of the rotation that was done last
    updated,   \* callers that were pointed at the new token
    current,   \* the token in use before, or outside, a rotation
    incoming   \* the token a rotation brings in

vars == <<secret, settings, instance, held, step, updated, current, incoming>>

Steps == {"steady", "added", "rolled", "dropped"}

\* An instance reads what the secret holds when it starts.
Boot(e) == Load(e, secret)

\* A list may have empty parts; they count for nothing.
Init ==
    /\ current \in Tokens
    /\ secret \in {<<current>>, <<current, Blank>>, <<Spaces, current>>}
    /\ settings \in Envs
    /\ Boot(settings) # Error
    /\ instance = Down
    /\ held = [c \in Callers |-> current]
    /\ step = "steady"
    /\ updated = {}
    /\ incoming = current

-----------------------------------------------------------------------------
(* Authentication.                                                         *)

\* Mutant: Authorization takes precedence over X-Api-Key.
presentedTokens_OneHeader(r) ==
    IF r.bearer # Blank THEN {r.bearer} ELSE {r.key} \ {Blank}

\* Both headers count.
presentedTokens(r) == {r.bearer, r.key} \ {Blank}

\* allows, for an authenticator made from the tokens of configuration c.
allows(c, r) == presentedTokens(r) \cap c.APITokens # {}

\* TbProxy.gs sends its token as a bearer token; the job sends its token as
\* X-Api-Key, and with OIDC Google's token as a bearer token.
Request(c) ==
    IF c = "script"
    THEN [bearer |-> held["script"], key |-> Blank]
    ELSE [bearer |-> Oidc, key |-> held["job"]]

-----------------------------------------------------------------------------
(* Instances.                                                              *)

\* A revision whose process exits at once gets no traffic.
Redeploy(e) ==
    /\ IF Boot(e) = Error THEN UNCHANGED <<settings, instance>>
       ELSE settings' = e /\ instance' = Boot(e)
    /\ UNCHANGED <<secret, held, step, updated, current, incoming>>

ScaleToZero ==
    /\ instance # Down
    /\ instance' = Down
    /\ UNCHANGED <<secret, settings, held, step, updated, current, incoming>>

ColdStart ==
    /\ instance = Down
    /\ Boot(settings) # Error
    /\ instance' = Boot(settings)
    /\ UNCHANGED <<secret, settings, held, step, updated, current, incoming>>

-----------------------------------------------------------------------------
(* Rotation.                                                               *)

\* Step 1: a version with the old and the new token.  The new token may be too
\* short, and the version may turn out empty: nothing looks at it before an
\* instance starts.  It is written again when step 2 fails over it.
AddToken ==
    /\ step = "steady" \/ (step = "added" /\ Boot(settings) = Error)
    /\ \E new \in Strings \ {current} :
           /\ incoming' = new
           /\ secret' \in {IF NewFirst THEN <<new, current>> ELSE <<current, new>>, <<Blank>>}
    /\ step' = "added"
    /\ UNCHANGED <<settings, instance, held, updated, current>>

\* Mutant: the version of the secret is pinned when the service is deployed.
Roll_Pinned ==
    /\ step \in {"added", "dropped"}
    /\ IF step = "added"
       THEN step' = "rolled" /\ UNCHANGED <<current, updated>>
       ELSE step' = "steady" /\ current' = incoming /\ updated' = {}
    /\ UNCHANGED <<secret, settings, instance, held, incoming>>

\* Mutant: deploy.sh without set -e; whoever runs it goes on.
Roll_Unchecked ==
    /\ step \in {"added", "dropped"}
    /\ instance' = IF Boot(settings) = Error THEN instance ELSE Boot(settings)
    /\ IF step = "added"
       THEN step' = "rolled" /\ UNCHANGED <<current, updated>>
       ELSE step' = "steady" /\ current' = incoming /\ updated' = {}
    /\ UNCHANGED <<secret, settings, held, incoming>>

\* Step 2 and the end of step 4: roll a revision.  deploy.sh fails, and the
\* rotation stops there, when the new revision does not start.
Roll ==
    /\ step \in {"added", "dropped"}
    /\ Boot(settings) # Error
    /\ instance' = Boot(settings)
    /\ IF step = "added"
       THEN step' = "rolled" /\ UNCHANGED <<current, updated>>
       ELSE step' = "steady" /\ current' = incoming /\ updated' = {}
    /\ UNCHANGED <<secret, settings, held, incoming>>

\* Step 3: the script property ...
UpdateScript ==
    /\ step = "rolled"
    /\ held' = [held EXCEPT !["script"] = incoming]
    /\ updated' = updated \cup {"script"}
    /\ UNCHANGED <<secret, settings, instance, step, current, incoming>>

\* ... and scheduler.sh, which gives the job what is in API_TOKEN or the first
\* part of the list, and stops if there is nothing in it.
RunScheduler ==
    /\ step = "rolled"
    /\ \E token \in {incoming, secret[1]} :
           /\ token \notin {Blank, Spaces}
           /\ held' = [held EXCEPT !["job"] = token]
    /\ updated' = updated \cup {"job"}
    /\ UNCHANGED <<secret, settings, instance, step, current, incoming>>

\* Step 4: a version with the new token only.
DropOld ==
    /\ step = "rolled"
    /\ updated = Callers
    /\ secret' = <<incoming>>
    /\ step' = "dropped"
    /\ UNCHANGED <<settings, instance, held, updated, current, incoming>>

Next ==
    \/ \E e \in Envs : Redeploy(e)
    \/ ScaleToZero \/ ColdStart
    \/ AddToken \/ Roll \/ UpdateScript \/ RunScheduler \/ DropOld

Spec == Init /\ [][Next]_vars

-----------------------------------------------------------------------------
(* Properties.                                                             *)

\* config.go:16-17: whatever the environment was, an instance that serves has a
\* configuration that the rest of the program can use without checking it
\* again; it authenticates its callers, it may try at least once, and so on.
ServesOnlyUsable == instance # Down => Usable(instance)

\* config.go:99-121, deploy/README.md:112-122: a version of the secret is read
\* when an instance happens to start, and Load may refuse it.  That is found out
\* by the first roll: from then on, and through the version without the old token,
\* an instance can always start, whatever was redeployed in between.
StartsAgain == step # "added" => Boot(settings) # Error

\* auth.go:12-14: both callers get in at every step of a rotation, whichever
\* version of the secret the running instance happens to have read.
NobodyLockedOut ==
    instance # Down => \A c \in Callers : allows(instance, Request(c))

\* The point of a rotation: once it is over the old token opens nothing.
RotatedOut ==
    step = "steady" /\ instance # Down =>
        \A t \in Tokens : allows(instance, [bearer |-> t, key |-> t]) => t = current

\* SECURITY.md:36-42: "rotation has no window where nothing works", with the
\* new token appended to the list.
NoWindowWhenAppended == NobodyLockedOut
=============================================================================
