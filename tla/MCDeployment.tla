---------------------------- MODULE MCDeployment ----------------------------
(***************************************************************************)
(* Deployment for TLC: the environments are the one deploy.sh makes and    *)
(* those that differ from it in one or two settings, legal or not.         *)
(***************************************************************************)
EXTENDS Deployment, TLC

\* What deploy.sh sets; MERCH_NAME_PATTERNS and UPSTREAM_ATTEMPTS are left out.
Default ==
    [EventUUID |-> "uuid", Token |-> "tb", File |-> Blank,
     Bucket |-> "bucket", Object |-> Blank,
     MerchNamePatterns |-> <<Blank>>, SponsorTicketTypePKs |-> <<183067>>,
     UpstreamTimeout |-> 10, StaleAfter |-> 90, UpstreamAttempts |-> Blank]

Numbers == {Blank, Spaces, Bad, -1, 0, 1}

MCEnvs ==
    {[Default EXCEPT !.UpstreamTimeout = n, !.UpstreamAttempts = m] :
        n \in Numbers, m \in Numbers}
    \cup {[Default EXCEPT !.StaleAfter = n] : n \in Numbers}
    \cup {[Default EXCEPT !.Token = t, !.File = f] : t \in {Blank, Spaces, "tb"}, f \in {Blank, "file"}}
    \cup {[Default EXCEPT !.EventUUID = u] : u \in {Blank, Spaces, "uuid"}}
    \cup {[Default EXCEPT !.Bucket = b, !.Object = o] : b \in {Blank, "bucket"}, o \in {Blank, Spaces, "object"}}
    \cup {[Default EXCEPT !.SponsorTicketTypePKs = l] : l \in {<<Blank>>, <<1, Spaces, 2>>, <<1, Bad>>}}
    \cup {[Default EXCEPT !.MerchNamePatterns = l] : l \in {<<"hoodie", Blank>>, <<Spaces>>, <<"mug", "hoodie">>}}

TokenSymmetry == Permutations(Tokens)
=============================================================================
