---------------------------- MODULE LegacySales -----------------------------
(***************************************************************************)
(* testdata/parity/legacy.js, the Apps Script that the aggregation was     *)
(* ported from: two passes over the tickets, a step per ticket.  An order  *)
(* is entered by a step of its own, so that the port can count it then.    *)
(***************************************************************************)
EXTENDS Orders

CONSTANTS
    SponsorPK, \* the ticket type of community sponsors, 183067
    NaN        \* JavaScript's not-a-number

VARIABLES
    orders,       \* the payload
    pass,         \* "tickets", "sponsors" or "printed"
    o, k,         \* the order looked at, and how many of its tickets are done
    ticketCounts, tshirtSizes, merchCounts, sponsors

legacyVars == <<orders, pass, o, k, ticketCounts, tshirtSizes, merchCounts, sponsors>>

LegacyInit ==
    /\ orders \in Payloads
    /\ pass = "tickets"
    /\ o = 0 /\ k = 0
    /\ ticketCounts = EmptyMap
    /\ tshirtSizes = NoSizes
    /\ merchCounts = EmptyMap
    /\ sponsors = <<>>

normalizeSize(size) ==
    LET s == Fold[size]
    IN  CASE s \in {"s", "small"}        -> "small"
          [] s \in {"m", "medium"}       -> "medium"
          [] s \in {"l", "large"}        -> "large"
          [] s \in {"xl", "extra large"} -> "xl"
          [] s \in {"2xl", "xxl"}        -> "2xl"
          [] s \in {"3xl", "xxxl"}       -> "3xl"
          [] OTHER                       -> s

\* parseFloat of "" or null is NaN, which equals nothing and is less than
\* nothing, and makes NaN of what it is added to; so does a VAT rate that is
\* not there.
parseFloat(amount) == IF amount = Missing THEN NaN ELSE amount
Less(x, y) == x # NaN /\ y # NaN /\ x < y
Plus(x, y) == IF x = NaN \/ y = NaN THEN NaN ELSE x + y
ExVAT(x, order) ==
    IF order.vatExempt THEN x
    ELSE IF x = NaN \/ order.vatRate = Missing THEN NaN
    ELSE (x * 100) \div (100 + order.vatRate)

\* Tickets of this order are left.
InOrder == o > 0 /\ k < Len(orders[o].tickets)
Current == orders[o].tickets[k + 1]

CountTicket ==
    /\ pass = "tickets"
    /\ InOrder
    /\ LET t       == Current
           isMerch == "hoodie" \in t.words
           sized   == isMerch /\ t.label[2] # None
           size    == IF sized THEN normalizeSize(t.label[2]) ELSE ""
           product == IF sized THEN <<Trim[t.label[1]], None>> ELSE t.label
           income  == parseFloat(t.total)
           group   == IF income = 0 THEN GroupFree
                      ELSE IF Less(income, parseFloat(t.price)) THEN GroupDiscounted
                      ELSE product
           row     == At(ticketCounts, group, [count |-> 0, income |-> 0])
           chosen(s) == {i \in DOMAIN t.answers :
                            /\ t.answers[i].tshirt
                            /\ t.answers[i].choices # <<>>
                            /\ normalizeSize(t.answers[i].choices[1]) = s}
           sizes   == At(merchCounts, product, NoSizes)
       IN  /\ merchCounts' =
                 IF size = "" THEN merchCounts
                 ELSE Put(merchCounts, product,
                          [s \in Sizes |-> IF s = size THEN sizes[s] + 1 ELSE sizes[s]])
           /\ tshirtSizes' = [s \in Sizes |-> tshirtSizes[s] + Cardinality(chosen(s))]
           /\ ticketCounts' =
                 Put(ticketCounts, group,
                     [count  |-> row.count + 1,
                      income |-> Plus(row.income, ExVAT(income, orders[o]))])
    /\ k' = k + 1
    /\ UNCHANGED <<orders, pass, o, sponsors>>

\* The first ticket of each company.
SponsorTicket ==
    /\ pass = "sponsors"
    /\ InOrder
    /\ sponsors' =
          IF /\ Current.pk = SponsorPK
             /\ Current.company.key # None
             /\ \A i \in DOMAIN sponsors : sponsors[i].key # Current.company.key
          THEN Append(sponsors, Current.company) ELSE sponsors
    /\ k' = k + 1
    /\ UNCHANGED <<orders, pass, o, ticketCounts, tshirtSizes, merchCounts>>

NextOrder ==
    /\ pass # "printed"
    /\ ~InOrder
    /\ o < Len(orders)
    /\ o' = o + 1 /\ k' = 0
    /\ UNCHANGED <<orders, pass, ticketCounts, tshirtSizes, merchCounts, sponsors>>

EndPass ==
    /\ pass # "printed"
    /\ ~InOrder
    /\ o = Len(orders)
    /\ pass' = IF pass = "tickets" THEN "sponsors" ELSE "printed"
    /\ o' = 0 /\ k' = 0
    /\ sponsors' = IF pass = "sponsors" THEN Sorted(sponsors) ELSE sponsors
    /\ UNCHANGED <<orders, ticketCounts, tshirtSizes, merchCounts>>

LegacyNext == CountTicket \/ SponsorTicket \/ NextOrder \/ EndPass

LegacySpec == LegacyInit /\ [][LegacyNext]_legacyVars
=============================================================================
