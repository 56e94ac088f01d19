------------------------------ MODULE Aggregate -----------------------------
(***************************************************************************)
(* internal/aggregate, as snapshot.Build calls it: Summarise and then      *)
(* Sponsors, two passes over the orders with a step per ticket.  Module    *)
(* LegacySales is the script that they are "a deliberate,                  *)
(* behaviour-preserving port of" (sizes.go:4-8).                           *)
(***************************************************************************)
EXTENDS Orders

CONSTANTS
    MerchNamePatterns,    \* Options: lower-case words that mark merchandise
    SponsorTicketTypePKs, \* Options: ticket types of community sponsors
    NaN                   \* see LegacySales; no step here makes it

ASSUME NaNAssumption == NaN \notin Nat

VARIABLES
    orders,        \* the payload
    pass,          \* "tickets": Summarise; "sponsors": Sponsors; "printed": done
    o, k,          \* the order looked at, and how many of its tickets are done
    Counts, OrdersByState, TicketGroups, TShirtSizes, Merch,  \* Summary
    sponsors, seen \* Sponsors: its result, and the keys met so far

summary == <<Counts, OrdersByState, TicketGroups, TShirtSizes, Merch>>
vars == <<orders, pass, o, k, summary, sponsors, seen>>

Init ==
    /\ orders \in Payloads
    /\ pass = "tickets"
    /\ o = 0 /\ k = 0
    /\ Counts = [orders |-> 0, tickets |-> 0]
    /\ OrdersByState = EmptyMap
    /\ TicketGroups = EmptyMap
    /\ TShirtSizes = NoSizes
    /\ Merch = EmptyMap
    /\ sponsors = <<>>
    /\ seen = {}

-----------------------------------------------------------------------------
(* Sizes, merchandise, answers, amounts.                                   *)

NormalizeSize(size) ==
    LET s == Fold[size]
    IN  CASE s \in {"s", "small"}        -> "small"
          [] s \in {"m", "medium"}       -> "medium"
          [] s \in {"l", "large"}        -> "large"
          [] s \in {"xl", "extra large"} -> "xl"
          [] s \in {"2xl", "xxl"}        -> "2xl"
          [] s \in {"3xl", "xxxl"}       -> "3xl"
          [] OTHER                       -> s

\* SizeCounts.Add ignores a size it does not know.
Add(counts, size) ==
    IF size \in Sizes THEN [counts EXCEPT ![size] = @ + 1] ELSE counts

\* splitMerch: the name without the size, and the size or "".
splitMerch(t) ==
    IF t.words \cap MerchNamePatterns # {} /\ t.label[2] # None
    THEN [name |-> <<Trim[t.label[1]], None>>, size |-> NormalizeSize(t.label[2])]
    ELSE [name |-> t.label, size |-> ""]

\* AnswerFor and FirstChoice: the first choice of the first answer to the
\* question, "" if there is none.
ShirtChoice(t) ==
    LET asked == {i \in DOMAIN t.answers : t.answers[i].tshirt}
        first == CHOOSE i \in asked : \A j \in asked : i <= j
    IN  IF asked = {} \/ t.answers[first].choices = <<>> THEN ""
        ELSE t.answers[first].choices[1]

\* Amount.UnmarshalJSON; a VAT rate that is not there stays zero as well.
Amount(raw) == IF raw = Missing THEN 0 ELSE raw

\* Income excluding VAT.
ExVAT(income, order) ==
    IF order.vatExempt THEN income ELSE (income * 100) \div (100 + Amount(order.vatRate))

\* Mutant: the group is decided by the list price.
Group_ByPrice(t) ==
    IF Amount(t.price) = 0 THEN GroupFree
    ELSE IF Amount(t.total) < Amount(t.price) THEN GroupDiscounted
    ELSE splitMerch(t).name

\* The row of the REALIZED sheet that a ticket counts for.
Group(t) ==
    IF Amount(t.total) = 0 THEN GroupFree
    ELSE IF Amount(t.total) < Amount(t.price) THEN GroupDiscounted
    ELSE splitMerch(t).name

-----------------------------------------------------------------------------
InOrder == o > 0 /\ k < Len(orders[o].tickets)
Current == orders[o].tickets[k + 1]

\* Mutant: a group is created without its first ticket.
CountIn_FirstLost(group, income) ==
    IF group \in DOMAIN TicketGroups
    THEN [TicketGroups EXCEPT ![group].count = @ + 1, ![group].income = @ + income]
    ELSE Put(TicketGroups, group, [count |-> 0, income |-> income])

CountIn(group, income) ==
    LET row == At(TicketGroups, group, [count |-> 0, income |-> 0])
    IN  Put(TicketGroups, group, [count |-> row.count + 1, income |-> row.income + income])

\* The body of Summarise's inner loop.
CountTicket ==
    /\ pass = "tickets"
    /\ InOrder
    /\ Counts' = [Counts EXCEPT !.tickets = @ + 1]
    /\ LET m == splitMerch(Current)
       IN  Merch' = IF m.size = "" THEN Merch
                    ELSE Put(Merch, m.name, Add(At(Merch, m.name, NoSizes), m.size))
    /\ TShirtSizes' = Add(TShirtSizes, NormalizeSize(ShirtChoice(Current)))
    /\ TicketGroups' = CountIn(Group(Current), ExVAT(Amount(Current.total), orders[o]))
    /\ k' = k + 1
    /\ UNCHANGED <<orders, pass, o, OrdersByState, sponsors, seen>>

\* Mutant: the spelling is compared instead of the key.
SponsorTicket_BySpelling ==
    /\ pass = "sponsors"
    /\ InOrder
    /\ IF /\ Current.pk \in SponsorTicketTypePKs
          /\ Current.company.key # None
          /\ \A i \in DOMAIN sponsors : sponsors[i] # Current.company
       THEN /\ seen' = seen \cup {Current.company.key}
            /\ sponsors' = Append(sponsors, Current.company)
       ELSE UNCHANGED <<seen, sponsors>>
    /\ k' = k + 1
    /\ UNCHANGED <<orders, pass, o, summary>>

\* The body of Sponsors' inner loop.
SponsorTicket ==
    /\ pass = "sponsors"
    /\ InOrder
    /\ IF /\ Current.pk \in SponsorTicketTypePKs
          /\ Current.company.key \notin seen \cup {None}
       THEN /\ seen' = seen \cup {Current.company.key}
            /\ sponsors' = Append(sponsors, Current.company)
       ELSE UNCHANGED <<seen, sponsors>>
    /\ k' = k + 1
    /\ UNCHANGED <<orders, pass, o, summary>>

\* The outer loops; Summarise counts the order.
NextOrder ==
    /\ pass # "printed"
    /\ ~InOrder
    /\ o < Len(orders)
    /\ o' = o + 1 /\ k' = 0
    /\ IF pass = "tickets"
       THEN LET state == orders[o + 1].state
            IN  /\ Counts' = [Counts EXCEPT !.orders = @ + 1]
                /\ OrdersByState' = Put(OrdersByState, state, At(OrdersByState, state, 0) + 1)
       ELSE UNCHANGED <<Counts, OrdersByState>>
    /\ UNCHANGED <<orders, pass, TicketGroups, TShirtSizes, Merch, sponsors, seen>>

\* Summarise returns and Sponsors begins; Sponsors sorts and returns.
EndPass ==
    /\ pass # "printed"
    /\ ~InOrder
    /\ o = Len(orders)
    /\ pass' = IF pass = "tickets" THEN "sponsors" ELSE "printed"
    /\ o' = 0 /\ k' = 0
    /\ sponsors' = IF pass = "sponsors" THEN Sorted(sponsors) ELSE sponsors
    /\ UNCHANGED <<orders, summary, seen>>

Next == CountTicket \/ SponsorTicket \/ NextOrder \/ EndPass

Spec == Init /\ [][Next]_vars

-----------------------------------------------------------------------------
(* Properties.                                                             *)

Legacy == INSTANCE LegacySales WITH
    SponsorPK <- CHOOSE pk \in SponsorTicketTypePKs : TRUE,
    ticketCounts <- TicketGroups, tshirtSizes <- TShirtSizes, merchCounts <- Merch

\* The options that the script had in its code.
LegacyOptions ==
    /\ MerchNamePatterns = {"hoodie"}
    /\ \E pk \in SponsorTicketTypePKs : SponsorTicketTypePKs = {pk}

\* What a ticket must be like for the port to be one: it has one answer to the
\* question, of which the script took all, and its price_total and the rate of
\* the VAT to take off are there, which the script did not read as zero
\* otherwise.  A missing price does no harm.
Ported(t, order) ==
    /\ Cardinality({i \in DOMAIN t.answers : t.answers[i].tshirt}) <= 1
    /\ t.total # Missing
    /\ order.vatExempt \/ order.vatRate # Missing

\* sizes.go:4-8, "behaviour-preserving port": a step on such a ticket adds to
\* the rows as they stand what the script would have added to the same rows,
\* whatever tickets were counted before.
PortsLegacy ==
    [][LegacyOptions /\ (InOrder => Ported(Current, orders[o]))
           => [Legacy!LegacyNext]_(Legacy!legacyVars)]_vars

AllTickets == UNION {{i} \X DOMAIN orders[i].tickets : i \in DOMAIN orders}
Handled ==
    {x \in AllTickets : pass # "tickets" \/ x[1] < o \/ (x[1] = o /\ x[2] <= k)}
TicketAt(x) == orders[x[1]].tickets[x[2]]

\* summary.go:20-30: the rows of the REALIZED sheet share out the tickets, each
\* counted once and in the row it belongs to, whether its product was seen
\* before, and regrouped or not; the total is what the rows add up to.
RowsShareOutTickets ==
    /\ DOMAIN TicketGroups = {Group(TicketAt(x)) : x \in Handled}
    /\ \A g \in DOMAIN TicketGroups :
           TicketGroups[g].count = Cardinality({x \in Handled : Group(TicketAt(x)) = g})
    /\ Counts.tickets = Cardinality(Handled)

Before(x, y) == x[1] < y[1] \/ (x[1] = y[1] /\ x[2] < y[2])

\* The tickets that Sponsors is about, and those of them that come first.
SponsorTickets ==
    {x \in AllTickets : /\ TicketAt(x).pk \in SponsorTicketTypePKs
                        /\ TicketAt(x).company.key # None}
FirstTickets ==
    {x \in SponsorTickets : \A y \in SponsorTickets :
        Before(y, x) => TicketAt(y).company.key # TicketAt(x).company.key}

\* sponsors.go:22-31: the result has the spelling on the first ticket of every
\* company, each company once, in the order of the names.
OneEntryPerSponsor ==
    pass = "printed" =>
        /\ {sponsors[i] : i \in DOMAIN sponsors} = {TicketAt(x).company : x \in FirstTickets}
        /\ \A i, j \in DOMAIN sponsors :
               i < j => /\ sponsors[i].key # sponsors[j].key
                        /\ sponsors[i].rank <= sponsors[j].rank
=============================================================================
