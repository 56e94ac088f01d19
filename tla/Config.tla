------------------------------- MODULE Config -------------------------------
(***************************************************************************)
(* internal/config: what Load makes of the environment, and what it        *)
(* refuses.  A string is reduced to what Load asks about it: Blank is the  *)
(* empty one, Spaces one that is empty once trimmed, Bad one that does not *)
(* parse; a comma-separated list is the sequence of its parts, and a list  *)
(* that was read is the set of its entries, as nothing depends on their    *)
(* order.  Durations are in minutes.                                       *)
(***************************************************************************)
EXTENDS Integers, Sequences

CONSTANTS
    Tokens,      \* strings of 16 characters or more
    ShortTokens, \* other strings
    Blank, Spaces, Bad, \* see above
    Error        \* what Load returns instead of a configuration

Strings == Tokens \cup ShortTokens

ASSUME StringsAssumption ==
    /\ Tokens \cap ShortTokens = {}
    /\ {Blank, Spaces, Bad} \cap Strings = {}
    /\ {Blank, Spaces, Bad, Error} \cap Int = {}
    /\ Blank \notin {Spaces, Bad, "snapshot.json.gz", "hoodie"}
    /\ Spaces \notin {Bad, "hoodie"}

Entries(list) == {list[i] : i \in DOMAIN list}

\* Parts that are empty once trimmed are left out.
splitList(list) == Entries(list) \ {Blank, Spaces}

env(raw, def) == IF raw = Blank THEN def ELSE raw

\* Mutant: zero is let through.
duration_Zero(raw, def) ==
    CASE raw = Blank            -> def
      [] raw \in {Spaces, Bad} -> Error
      [] OTHER                  -> IF raw < 0 THEN Error ELSE raw

\* duration and positiveInt: the default, or a positive number.
duration(raw, def) ==
    CASE raw = Blank            -> def
      [] raw \in {Spaces, Bad} -> Error
      [] OTHER                  -> IF raw <= 0 THEN Error ELSE raw

ParseIntList(list) == IF Bad \in splitList(list) THEN Error ELSE splitList(list)

ParseMerchPatterns(list) ==
    IF splitList(list) = {} THEN {"hoodie"} ELSE splitList(list)

\* validate accepts c.  Strings are compared with "" and not trimmed, so an
\* event or a TicketButler token of spaces passes.  The last condition, on Bucket
\* and Object, cannot fail: Object has a default.
validate(c) ==
    /\ c.EventUUID # Blank
    /\ c.Token # Blank \/ c.File # Blank
    /\ c.APITokens # {}
    /\ c.APITokens \cap ShortTokens = {}
    /\ c.Bucket # Blank \/ c.Object # Blank

\* The configuration that Load fills in from the environment e and the entries
\* of API_TOKENS, which is a secret and has a life of its own.
Filled(e, tokens) ==
    [EventUUID         |-> e.EventUUID,
     Token             |-> e.Token,
     File              |-> e.File,
     Bucket            |-> e.Bucket,
     Object            |-> env(e.Object, "snapshot.json.gz"),
     APITokens         |-> tokens,
     MerchNamePatterns |-> ParseMerchPatterns(e.MerchNamePatterns),
     UpstreamTimeout   |-> duration(e.UpstreamTimeout, 10),
     StaleAfter        |-> duration(e.StaleAfter, 90),
     SponsorTicketTypePKs |-> ParseIntList(e.SponsorTicketTypePKs),
     UpstreamAttempts  |-> duration(e.UpstreamAttempts, 3)]

\* Load, for the list tokens in API_TOKENS.
Load(e, tokens) ==
    LET c == Filled(e, splitList(tokens))
    IN  IF \/ c.UpstreamTimeout = Error \/ c.StaleAfter = Error
           \/ c.SponsorTicketTypePKs = Error \/ c.UpstreamAttempts = Error
           \/ ~validate(c)
        THEN Error ELSE c

\* What the rest of the program takes for granted about a configuration.  That
\* UpstreamAttempts times UpstreamTimeout fits in a request (config.go:37-40) is
\* asked of whoever deploys it; Load does not look at it, and the defaults do not
\* have it.
Usable(c) ==
    /\ c.EventUUID # Blank
    /\ c.Token # Blank \/ c.File # Blank
    /\ c.APITokens # {} /\ c.APITokens \subseteq Tokens
    /\ c.UpstreamTimeout > 0 /\ c.StaleAfter > 0 /\ c.UpstreamAttempts > 0
    /\ c.Object # Blank
    /\ c.MerchNamePatterns # {} /\ c.MerchNamePatterns \cap {Blank, Spaces} = {}
    /\ c.SponsorTicketTypePKs \cap {Blank, Spaces, Bad} = {}
=============================================================================
