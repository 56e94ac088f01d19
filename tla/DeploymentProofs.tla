-------------------------- MODULE DeploymentProofs --------------------------
(***************************************************************************)
(* Proofs about Deployment and Config, for any tokens and any environments *)
(* the service may be deployed with.                                       *)
(***************************************************************************)
EXTENDS Deployment, TLAPS

-----------------------------------------------------------------------------
(* Load.                                                                   *)

\* A duration that was accepted is positive.
LEMMA Positive ==
    ASSUME NEW raw \in Int \cup {Blank, Spaces, Bad}, NEW def \in Nat \ {0},
           duration(raw, def) # Error
    PROVE  duration(raw, def) > 0
  <1>1. CASE raw = Blank
    BY <1>1 DEF duration
  <1>2. CASE raw \in {Spaces, Bad} /\ raw # Blank
    BY <1>2 DEF duration
  <1>3. CASE raw \in Int /\ raw \notin {Blank, Spaces, Bad}
    <2>1. duration(raw, def) = IF raw <= 0 THEN Error ELSE raw
      BY <1>3 DEF duration
    <2> QED
      BY <1>3, <2>1
  <1> QED
    BY <1>1, <1>2, <1>3

\* What Load returns, for a list of any strings, can be used without further
\* checks and has the entries of the list.
LEMMA LoadUsable ==
    ASSUME NEW e \in Envs, NEW list, splitList(list) \subseteq Strings, Load(e, list) # Error
    PROVE  Usable(Load(e, list)) /\ Load(e, list).APITokens = splitList(list)
  <1> DEFINE c == Filled(e, splitList(list))
  <1>1. /\ Load(e, list) = c /\ validate(c)
        /\ c.UpstreamTimeout # Error /\ c.StaleAfter # Error
        /\ c.SponsorTicketTypePKs # Error /\ c.UpstreamAttempts # Error
    BY DEF Load
  <1>2. /\ c.EventUUID # Blank /\ (c.Token # Blank \/ c.File # Blank)
        /\ c.APITokens # {} /\ c.APITokens = splitList(list)
        /\ c.APITokens \subseteq Tokens
    BY <1>1 DEF validate, Filled, Strings
  <1>3. c.UpstreamTimeout > 0 /\ c.StaleAfter > 0 /\ c.UpstreamAttempts > 0
    <2>1. /\ c.UpstreamTimeout = duration(e.UpstreamTimeout, 10)
          /\ c.StaleAfter = duration(e.StaleAfter, 90)
          /\ c.UpstreamAttempts = duration(e.UpstreamAttempts, 3)
      BY DEF Filled
    <2>2. /\ e.UpstreamTimeout \in Int \cup {Blank, Spaces, Bad}
          /\ e.StaleAfter \in Int \cup {Blank, Spaces, Bad}
          /\ e.UpstreamAttempts \in Int \cup {Blank, Spaces, Bad}
      BY DeploymentAssumption
    <2>3. 10 \in Nat \ {0} /\ 90 \in Nat \ {0} /\ 3 \in Nat \ {0}
      OBVIOUS
    <2> HIDE DEF c
    <2> QED
      BY <1>1, <2>1, <2>2, <2>3, Positive
  <1>4. c.Object # Blank
    <2>1. c.Object = env(e.Object, "snapshot.json.gz")
      BY DEF Filled
    <2> QED
      BY <2>1, StringsAssumption DEF env
  <1>5. c.MerchNamePatterns # {} /\ c.MerchNamePatterns \cap {Blank, Spaces} = {}
    <2>1. c.MerchNamePatterns = ParseMerchPatterns(e.MerchNamePatterns)
      BY DEF Filled
    <2> QED
      BY <2>1, StringsAssumption DEF ParseMerchPatterns, splitList
  <1>6. c.SponsorTicketTypePKs \cap {Blank, Spaces, Bad} = {}
    <2>1. c.SponsorTicketTypePKs = ParseIntList(e.SponsorTicketTypePKs)
      BY DEF Filled
    <2>2. /\ c.SponsorTicketTypePKs = splitList(e.SponsorTicketTypePKs)
          /\ Bad \notin splitList(e.SponsorTicketTypePKs)
      BY <1>1, <2>1 DEF ParseIntList
    <2> QED
      BY <2>2 DEF splitList
  <1> HIDE DEF c
  <1> QED
    BY <1>1, <1>2, <1>3, <1>4, <1>5, <1>6 DEF Usable

\* An environment that was accepted once is accepted with any other tokens.
LEMMA LoadAgain ==
    ASSUME NEW e \in Envs, NEW old, NEW new, Load(e, old) # Error,
           splitList(new) # {}, splitList(new) \subseteq Tokens
    PROVE  Load(e, new) # Error
  <1> DEFINE c == Filled(e, splitList(old))
             d == Filled(e, splitList(new))
  <1>1. /\ validate(c)
        /\ c.UpstreamTimeout # Error /\ c.StaleAfter # Error
        /\ c.SponsorTicketTypePKs # Error /\ c.UpstreamAttempts # Error
    BY DEF Load
  <1>2. /\ d.EventUUID = c.EventUUID /\ d.Token = c.Token /\ d.File = c.File
        /\ d.Bucket = c.Bucket /\ d.Object = c.Object
        /\ d.UpstreamTimeout = c.UpstreamTimeout /\ d.StaleAfter = c.StaleAfter
        /\ d.SponsorTicketTypePKs = c.SponsorTicketTypePKs
        /\ d.UpstreamAttempts = c.UpstreamAttempts
        /\ d.APITokens = splitList(new)
    BY DEF Filled
  <1>3. d # Error
    BY DeploymentAssumption
  <1>4. Load(e, new) = IF \/ d.UpstreamTimeout = Error \/ d.StaleAfter = Error
                          \/ d.SponsorTicketTypePKs = Error \/ d.UpstreamAttempts = Error
                          \/ ~validate(d)
                       THEN Error ELSE d
    BY DEF Load
  <1> HIDE DEF c, d
  <1>5. validate(d)
    BY <1>1, <1>2, StringsAssumption DEF validate
  <1> QED
    BY <1>1, <1>2, <1>3, <1>4, <1>5

-----------------------------------------------------------------------------
(* Instances and rotation.                                                 *)

Both == {current, incoming}

\* What the entries of the secret may be, and what an instance may have read of
\* them, at each step of a rotation.
Enterable ==
    CASE step = "steady" -> {{current}} [] step = "added" -> {Both, {}}
      [] step = "rolled" -> {Both} [] step = "dropped" -> {{incoming}}
Readable ==
    CASE step = "steady" -> {{current}} [] step = "added" -> {{current}, Both}
      [] step = "rolled" -> {Both} [] step = "dropped" -> {Both, {incoming}}

Secrets ==
    /\ settings \in Envs
    /\ current \in Tokens /\ incoming \in Strings
    /\ step \in Steps
    /\ step # "added" => incoming \in Tokens
    /\ splitList(secret) \in Enterable

\* A version that does not load has been read by nobody, so that it can be
\* written again without a caller noticing.
Inv ==
    /\ Secrets
    /\ step # "added" => Boot(settings) # Error
    /\ instance # Down =>
          /\ Usable(instance) /\ instance.APITokens \in Readable
          /\ Boot(settings) = Error => instance.APITokens = {current}

LEMMA OneEntry ==
    ASSUME NEW t \in Tokens
    PROVE  /\ splitList(<<t>>) = {t} /\ splitList(<<t, Blank>>) = {t}
           /\ splitList(<<Spaces, t>>) = {t}
  BY StringsAssumption DEF splitList, Entries, Strings

LEMMA NoEntry == splitList(<<Blank>>) = {}
  BY DEF splitList, Entries

LEMMA TwoEntries ==
    ASSUME NEW t \in Strings, NEW u \in Strings PROVE splitList(<<t, u>>) = {t, u}
  BY StringsAssumption DEF splitList, Entries

\* What is written to the secret, if its entries are tokens, starts an instance
\* with settings that have started one.
LEMMA RewriteStarts ==
    ASSUME Boot(settings) # Error, settings' = settings, settings \in Envs,
           splitList(secret') # {}, splitList(secret') \subseteq Tokens
    PROVE  Boot(settings)' # Error
  BY LoadAgain DEF Boot

\* An instance that starts now has the tokens of the secret.
LEMMA Booted ==
    ASSUME Secrets, NEW e \in Envs, Boot(e) # Error
    PROVE  /\ Usable(Boot(e)) /\ Boot(e).APITokens \in Readable
           /\ step = "added" => incoming \in Tokens /\ Boot(e).APITokens = Both
           /\ Boot(e).APITokens = splitList(secret)
  <1>1. splitList(secret) \subseteq Strings
    BY DEF Secrets, Enterable, Both, Steps, Strings
  <1>2. Usable(Boot(e)) /\ Boot(e).APITokens = splitList(secret)
    BY <1>1, LoadUsable DEF Boot
  <1>3. splitList(secret) # {} /\ splitList(secret) \subseteq Tokens
    BY <1>2 DEF Usable
  <1>4. CASE step = "added"
    <2>1. splitList(secret) = Both
      BY <1>3, <1>4 DEF Secrets, Enterable
    <2> QED
      BY <1>2, <1>3, <1>4, <2>1 DEF Both, Readable
  <1>5. CASE step # "added"
    BY <1>2, <1>5 DEF Secrets, Steps, Enterable, Readable
  <1> QED
    BY <1>2, <1>4, <1>5

LEMMA InvInit == Init => Inv
  <1> SUFFICES ASSUME Init PROVE Inv
    OBVIOUS
  <1>1. splitList(secret) = {current}
    BY OneEntry DEF Init
  <1> QED
    BY <1>1 DEF Init, Inv, Secrets, Enterable, Steps, Strings

LEMMA InvNext == Inv /\ [Next]_vars => Inv'
  <1> SUFFICES ASSUME Inv, [Next]_vars PROVE Inv'
    OBVIOUS
  <1>1. CASE UNCHANGED vars
    BY <1>1 DEF vars, Inv, Secrets, Enterable, Readable, Both, Boot
  <1>2. ASSUME NEW e \in Envs, Redeploy(e) PROVE Inv'
    <2>1. CASE Boot(e) = Error
      <3>1. UNCHANGED vars
        BY <1>2, <2>1 DEF Redeploy, vars
      <3> QED
        BY <3>1 DEF vars, Inv, Secrets, Enterable, Readable, Both, Boot
    <2>2. CASE Boot(e) # Error
      <3>1. settings' = e /\ instance' = Boot(e) /\ secret' = secret
        BY <1>2, <2>2 DEF Redeploy
      <3>2. Secrets' /\ Readable' = Readable /\ Boot(settings)' = Boot(e)
        BY <1>2, <3>1 DEF Redeploy, Inv, Secrets, Enterable, Readable, Both, Boot
      <3> QED
        BY <2>2, <3>1, <3>2, Booted DEF Inv
    <2> QED
      BY <2>1, <2>2
  <1>3. CASE ScaleToZero
    BY <1>3 DEF ScaleToZero, Inv, Secrets, Enterable, Readable, Both, Boot
  <1>4. CASE ColdStart
    <2>1. /\ Secrets' /\ Readable' = Readable /\ Boot(settings)' = Boot(settings)
          /\ settings \in Envs /\ Secrets
      BY <1>4 DEF ColdStart, Inv, Secrets, Enterable, Readable, Both, Boot
    <2> QED
      BY <1>4, <2>1, Booted DEF ColdStart, Inv
  <1>5. CASE AddToken
    <2>1. PICK new \in Strings \ {current} :
              /\ incoming' = new
              /\ secret' \in {IF NewFirst THEN <<new, current>> ELSE <<current, new>>, <<Blank>>}
      BY <1>5 DEF AddToken
    <2>2. /\ step' = "added" /\ current' = current /\ current \in Tokens /\ current \in Strings
          /\ settings' = settings /\ instance' = instance
      BY <1>5 DEF AddToken, Inv, Secrets, Strings
    <2>3. splitList(secret') \in {{current, new}, {}}
      <3>1. CASE secret' = <<new, current>>
        BY <2>2, <3>1, TwoEntries
      <3>2. CASE secret' = <<current, new>>
        BY <2>2, <3>2, TwoEntries
      <3>3. CASE secret' = <<Blank>>
        BY <3>3, NoEntry
      <3> QED
        BY <2>1, <3>1, <3>2, <3>3
    <2>4. Secrets'
      BY <2>1, <2>2, <2>3 DEF Inv, Secrets, Enterable, Both, Steps
    <2>5. instance # Down => instance.APITokens = {current}
      <3>1. CASE step = "steady"
        BY <3>1 DEF Inv, Readable
      <3>2. CASE step = "added" /\ Boot(settings) = Error
        BY <3>2 DEF Inv
      <3> QED
        BY <1>5, <3>1, <3>2 DEF AddToken
    <2>6. {current}' = {current} /\ {current} \in Readable'
      BY <2>2 DEF Readable
    <2> QED
      BY <2>2, <2>4, <2>5, <2>6 DEF Inv
  <1>6. CASE Roll
    <2>1. /\ Boot(settings) # Error /\ instance' = Boot(settings)
          /\ Boot(settings)' = Boot(settings)
          /\ UNCHANGED <<secret, settings, incoming>>
      BY <1>6 DEF Roll, Boot
    <2>2. /\ Usable(Boot(settings)) /\ Boot(settings).APITokens = splitList(secret)
          /\ step = "added" => incoming \in Tokens /\ splitList(secret) = Both
      BY <2>1, Booted DEF Inv, Secrets
    <2>3. Secrets' /\ splitList(secret) \in Readable'
      <3>1. CASE step = "added"
        <4>1. step' = "rolled" /\ current' = current /\ Both' = Both
          BY <1>6, <3>1 DEF Roll, Both
        <4> QED
          BY <2>1, <2>2, <3>1, <4>1 DEF Inv, Secrets, Enterable, Readable, Steps
      <3>2. CASE step = "dropped"
        <4>1. step' = "steady" /\ current' = incoming /\ splitList(secret) = {incoming}
          BY <1>6, <3>2 DEF Roll, Inv, Secrets, Enterable
        <4> QED
          BY <2>1, <3>2, <4>1 DEF Inv, Secrets, Enterable, Readable, Steps
      <3> QED
        BY <1>6, <3>1, <3>2 DEF Roll
    <2> QED
      BY <2>1, <2>2, <2>3 DEF Inv
  <1>7. CASE UpdateScript \/ RunScheduler
    BY <1>7 DEF UpdateScript, RunScheduler, Inv, Secrets, Enterable, Readable, Both, Boot
  <1>8. CASE DropOld
    <2>1. /\ step = "rolled" /\ step' = "dropped" /\ secret' = <<incoming>>
          /\ incoming' = incoming /\ current' = current /\ settings' = settings
          /\ instance' = instance
      BY <1>8 DEF DropOld
    <2>2. splitList(secret') = {incoming} /\ incoming \in Tokens
      BY <2>1, OneEntry DEF Inv, Secrets
    <2>3. Secrets'
      BY <2>1, <2>2 DEF Inv, Secrets, Enterable, Steps
    <2>4. Boot(settings)' # Error
      BY <2>1, <2>2, RewriteStarts DEF Inv, Secrets
    <2>5. Readable = {Both} /\ Both \in Readable'
      BY <2>1 DEF Readable, Both
    <2> QED
      BY <2>1, <2>3, <2>4, <2>5 DEF Inv
  <1> QED
    BY <1>1, <1>2, <1>3, <1>4, <1>5, <1>6, <1>7, <1>8 DEF Next

LEMMA InvAlways == Spec => []Inv
  BY InvInit, InvNext, PTL DEF Spec

\* Whatever it was deployed with, an instance that serves has a configuration
\* that can be used without checking it again.
THEOREM ServedIsUsable == Spec => []ServesOnlyUsable
  <1>1. Inv => ServesOnlyUsable
    BY DEF Inv, ServesOnlyUsable
  <1> QED
    BY <1>1, InvAlways, PTL

\* Whatever is written to the secret in step 1, and however often, the roll that
\* follows is the last place where an instance can fail to start: the settings in
\* force start one at every later step, with either of the later versions.
THEOREM AlwaysStarts == Spec => []StartsAgain
  <1>1. Inv => StartsAgain
    BY DEF Inv, StartsAgain
  <1> QED
    BY <1>1, InvAlways, PTL

\* When a rotation is over no instance takes the old token, wherever in the list
\* the new one was put.
THEOREM OldTokenIsOut == Spec => []RotatedOut
  <1>1. Inv => RotatedOut
    <2> SUFFICES ASSUME Inv, step = "steady", instance # Down, NEW t \in Tokens,
                        allows(instance, [bearer |-> t, key |-> t])
                 PROVE  t = current
      BY DEF RotatedOut
    <2>1. instance.APITokens = {current}
      BY DEF Inv, Readable
    <2> QED
      BY <2>1 DEF allows, presentedTokens
  <1> QED
    BY <1>1, InvAlways, PTL

-----------------------------------------------------------------------------
(* Callers.                                                                *)

\* What callers hold at each step, if the new token comes first in the list.
Holding ==
    /\ held \in [Callers -> Tokens]
    /\ step \in {"steady", "added"} => updated = {} /\ \A c \in Callers : held[c] = current
    /\ step \in {"added", "rolled"} => secret = <<Blank>> \/ secret[1] = incoming
    /\ step = "rolled" => \A c \in Callers :
          held[c] = IF c \in updated THEN incoming ELSE current
    /\ step = "dropped" => \A c \in Callers : held[c] = incoming

LEMMA HoldingNext ==
    ASSUME NewFirst
    PROVE  Inv /\ Holding /\ [Next]_vars => Holding'
  <1> SUFFICES ASSUME Inv, Holding, [Next]_vars PROVE Holding'
    OBVIOUS
  <1> USE DEF Holding, Inv, Secrets, Steps
  <1>1. CASE UNCHANGED vars
    BY <1>1 DEF vars
  <1>2. ASSUME NEW e \in Envs, Redeploy(e) PROVE Holding'
    BY <1>2 DEF Redeploy
  <1>3. CASE ScaleToZero \/ ColdStart
    BY <1>3 DEF ScaleToZero, ColdStart
  <1>4. CASE AddToken
    <2>1. PICK new \in Strings : /\ incoming' = new
                                 /\ secret' = <<new, current>> \/ secret' = <<Blank>>
      BY <1>4 DEF AddToken
    <2> QED
      BY <1>4, <2>1 DEF AddToken
  <1>5. CASE Roll
    BY <1>5 DEF Roll
  <1>6. CASE UpdateScript
    BY <1>6 DEF UpdateScript, Callers
  <1>7. CASE RunScheduler
    <2>1. secret # <<Blank>>
      BY <1>7, NoEntry DEF RunScheduler, Enterable, Both
    <2>2. step = "rolled" /\ held' = [held EXCEPT !["job"] = incoming]
      BY <1>7, <2>1 DEF RunScheduler
    <2> QED
      BY <1>7, <2>2 DEF RunScheduler, Callers
  <1>8. CASE DropOld
    BY <1>8 DEF DropOld
  <1> QED
    BY <1>1, <1>2, <1>3, <1>4, <1>5, <1>6, <1>7, <1>8 DEF Next

\* With the new token first in the list both callers get in at every step of
\* any number of rotations, whatever version of the secret the instance read.
THEOREM CallersGetIn ==
    ASSUME NewFirst
    PROVE  Spec => []NobodyLockedOut
  <1>1. Inv /\ Holding => NobodyLockedOut
    <2> SUFFICES ASSUME Inv, Holding, instance # Down, NEW c \in Callers
                 PROVE  allows(instance, Request(c))
      BY DEF NobodyLockedOut
    <2>1. held[c] \in instance.APITokens
      BY DEF Inv, Secrets, Steps, Holding, Readable, Both
    <2>2. held[c] # Blank
      BY StringsAssumption DEF Holding, Strings
    <2>3. held[c] \in presentedTokens(Request(c))
      BY <2>2 DEF presentedTokens, Request, Callers
    <2> QED
      BY <2>1, <2>3 DEF allows
  <1>2. Init => Holding
    BY DEF Init, Holding
  <1> QED
    BY <1>1, <1>2, InvAlways, HoldingNext, PTL DEF Spec

\* What callers hold at each step, wherever in the list the new token is put.
HoldingAnyway ==
    /\ held \in [Callers -> Tokens]
    /\ step \in {"steady", "added"} => updated = {} /\ held["script"] = current
    /\ step \in {"added", "rolled"} => secret = <<Blank>> \/ secret[1] \in {current, incoming}
    /\ step = "rolled" =>
          /\ held["script"] = IF "script" \in updated THEN incoming ELSE current
          /\ "job" \in updated => held["job"] \in {current, incoming}
    /\ step = "dropped" => held["script"] = incoming

\* SECURITY.md:36-42 and scheduler.sh:39: the script is never locked out, and the
\* job is let in from the run of scheduler.sh until the old token is dropped.
LockedOutAfterDrop ==
    instance # Down =>
        /\ allows(instance, Request("script"))
        /\ step = "rolled" /\ "job" \in updated => allows(instance, Request("job"))

\* Wherever the new token is put in the list, the script is never locked out,
\* and after scheduler.sh the job is not either until the old token is dropped.
THEOREM OnlyTheJobIsLockedOut == Spec => []LockedOutAfterDrop
  <1>1. Init => HoldingAnyway
    BY DEF Init, HoldingAnyway, Callers
  <1>2. Inv /\ HoldingAnyway /\ [Next]_vars => HoldingAnyway'
    <2> SUFFICES ASSUME Inv, HoldingAnyway, [Next]_vars PROVE HoldingAnyway'
      OBVIOUS
    <2> USE DEF HoldingAnyway, Inv, Secrets, Steps, Callers
    <2>1. CASE UNCHANGED vars
      BY <2>1 DEF vars
    <2>2. ASSUME NEW e \in Envs, Redeploy(e) PROVE HoldingAnyway'
      BY <2>2 DEF Redeploy
    <2>3. CASE ScaleToZero \/ ColdStart
      BY <2>3 DEF ScaleToZero, ColdStart
    <2>4. CASE AddToken
      <3>1. PICK new \in Strings :
                /\ incoming' = new
                /\ secret' \in {<<new, current>>, <<current, new>>, <<Blank>>}
        BY <2>4 DEF AddToken
      <3> QED
        BY <2>4, <3>1 DEF AddToken
    <2>5. CASE Roll
      BY <2>5 DEF Roll
    <2>6. CASE UpdateScript
      BY <2>6 DEF UpdateScript
    <2>7. CASE RunScheduler
      <3>0. secret # <<Blank>>
        BY <2>7, NoEntry DEF RunScheduler, Enterable, Both
      <3>1. PICK token \in {current, incoming} :
                /\ held' = [held EXCEPT !["job"] = token] /\ step = "rolled"
                /\ updated' = updated \cup {"job"}
                /\ UNCHANGED <<secret, settings, instance, step, current, incoming>>
        BY <2>7, <3>0 DEF RunScheduler
      <3>2. held'["job"] = token /\ held'["script"] = held["script"]
        BY <3>1
      <3>3. current \in Tokens /\ incoming \in Tokens
        BY <3>1
      <3>4. held' \in [Callers -> Tokens]
        BY <3>1, <3>3
      <3>5. "script" \in updated' <=> "script" \in updated
        BY <3>1
      <3> QED
        BY <3>1, <3>2, <3>4, <3>5
    <2>8. CASE DropOld
      BY <2>8 DEF DropOld
    <2> QED
      BY <2>1, <2>2, <2>3, <2>4, <2>5, <2>6, <2>7, <2>8 DEF Next
  <1>3. Inv /\ HoldingAnyway => LockedOutAfterDrop
    <2> SUFFICES ASSUME Inv, HoldingAnyway, instance # Down, NEW c \in Callers,
                        c = "script" \/ (step = "rolled" /\ "job" \in updated)
                 PROVE  allows(instance, Request(c))
      BY DEF LockedOutAfterDrop, Callers
    <2>1. held[c] \in instance.APITokens
      BY DEF Inv, Secrets, Steps, HoldingAnyway, Readable, Both, Callers
    <2>2. held[c] # Blank
      BY StringsAssumption DEF HoldingAnyway, Strings
    <2>3. held[c] \in presentedTokens(Request(c))
      BY <2>2 DEF presentedTokens, Request, Callers
    <2> QED
      BY <2>1, <2>3 DEF allows
  <1> QED
    BY <1>1, <1>2, <1>3, InvAlways, PTL DEF Spec
=============================================================================
