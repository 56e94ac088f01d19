-------------------------- MODULE AggregateProofs ---------------------------
(***************************************************************************)
(* Proofs about Aggregate, for any payloads and any options.               *)
(***************************************************************************)
EXTENDS Aggregate, InductionFacts, SequenceTheorems, FiniteSetTheorems, TLAPS

-----------------------------------------------------------------------------
(* Where the two passes are.                                               *)

\* The ticket looked at is one of the payload.
Place ==
    /\ orders \in Seq(Order)
    /\ pass \in {"tickets", "sponsors", "printed"}
    /\ o \in 0 .. Len(orders) /\ k \in Nat
    /\ o = 0 => k = 0
    /\ o > 0 => k <= Len(orders[o].tickets)

LEMMA OrderAt ==
    ASSUME orders \in Seq(Order), NEW n \in 1 .. Len(orders)
    PROVE  /\ orders[n] \in Order /\ orders[n].tickets \in Seq(Ticket)
           /\ Len(orders[n].tickets) \in Nat
           /\ DOMAIN orders[n].tickets = 1 .. Len(orders[n].tickets)
  <1>1. orders[n] \in Order
    BY ElementOfSeq
  <1>2. orders[n].tickets \in Seq(Ticket)
    BY <1>1 DEF Order
  <1> QED
    BY <1>1, <1>2, LenProperties

LEMMA CurrentTicket ==
    ASSUME Place, InOrder
    PROVE  /\ o \in 1 .. Len(orders) /\ orders[o] \in Order
           /\ k + 1 \in 1 .. Len(orders[o].tickets)
           /\ Current \in Ticket
  <1>1. o \in 1 .. Len(orders) /\ Len(orders) \in Nat
    BY LenProperties DEF Place, InOrder
  <1>2. /\ orders[o] \in Order /\ orders[o].tickets \in Seq(Ticket)
        /\ Len(orders[o].tickets) \in Nat
    BY <1>1, OrderAt DEF Place
  <1>3. k + 1 \in 1 .. Len(orders[o].tickets)
    BY <1>2 DEF Place, InOrder
  <1>4. Current \in Ticket
    BY <1>2, <1>3, ElementOfSeq DEF Current
  <1> QED
    BY <1>1, <1>2, <1>3, <1>4

LEMMA PlaceInit == Init => Place
  <1> SUFFICES ASSUME Init PROVE Place
    OBVIOUS
  <1>1. orders \in Seq(Order)
    BY PayloadsAssumption DEF Init
  <1>2. Len(orders) \in Nat
    BY <1>1, LenProperties
  <1> QED
    BY <1>1, <1>2 DEF Init, Place

LEMMA PlaceNext == Place /\ [Next]_vars => Place'
  <1> SUFFICES ASSUME Place, [Next]_vars PROVE Place'
    OBVIOUS
  <1>0. Len(orders) \in Nat
    BY LenProperties DEF Place
  <1>1. CASE UNCHANGED vars
    BY <1>1 DEF vars, Place
  <1>2. CASE CountTicket \/ SponsorTicket
    <2>1. InOrder /\ k' = k + 1 /\ o' = o /\ orders' = orders /\ pass' = pass
      BY <1>2 DEF CountTicket, SponsorTicket
    <2>2. k + 1 \in 1 .. Len(orders[o].tickets) /\ o \in 1 .. Len(orders)
      BY <2>1, CurrentTicket
    <2>3. Len(orders[o].tickets) \in Nat
      BY <2>2, OrderAt DEF Place
    <2> QED
      BY <1>0, <2>1, <2>2, <2>3 DEF Place
  <1>3. CASE NextOrder
    <2>1. o' = o + 1 /\ k' = 0 /\ orders' = orders /\ pass' = pass /\ o < Len(orders)
      BY <1>3 DEF NextOrder
    <2>2. o + 1 \in 1 .. Len(orders)
      BY <1>0, <2>1 DEF Place
    <2>3. Len(orders[o + 1].tickets) \in Nat
      BY <2>2, OrderAt DEF Place
    <2> QED
      BY <1>0, <2>1, <2>2, <2>3 DEF Place
  <1>4. CASE EndPass
    <2>1. o' = 0 /\ k' = 0 /\ orders' = orders /\ pass' \in {"sponsors", "printed"}
      BY <1>4 DEF EndPass
    <2> QED
      BY <1>0, <2>1 DEF Place
  <1> QED
    BY <1>1, <1>2, <1>3, <1>4 DEF Next

-----------------------------------------------------------------------------
(* Which tickets have been looked at.                                      *)

LEMMA TicketsAre ==
    ASSUME NEW x
    PROVE  x \in AllTickets <=>
               \E n \in DOMAIN orders : \E j \in DOMAIN orders[n].tickets : x = <<n, j>>
  BY DEF AllTickets

\* The tickets that the pass under way has looked at.
Passed == {x \in AllTickets : x[1] < o \/ (x[1] = o /\ x[2] <= k)}

\* The numbers of a ticket.
LEMMA TicketNumbers ==
    ASSUME Place, NEW x \in AllTickets
    PROVE  /\ x = <<x[1], x[2]>> /\ x[1] \in 1 .. Len(orders) /\ Len(orders) \in Nat
           /\ x[2] \in 1 .. Len(orders[x[1]].tickets)
           /\ Len(orders[x[1]].tickets) \in Nat
  <1>1. PICK n \in DOMAIN orders : \E j \in DOMAIN orders[n].tickets : x = <<n, j>>
    BY TicketsAre
  <1>2. PICK j \in DOMAIN orders[n].tickets : x = <<n, j>>
    BY <1>1
  <1>3. n \in 1 .. Len(orders) /\ Len(orders) \in Nat
    BY LenProperties DEF Place
  <1>4. j \in 1 .. Len(orders[n].tickets) /\ Len(orders[n].tickets) \in Nat
    BY <1>3, OrderAt DEF Place
  <1> QED
    BY <1>2, <1>3, <1>4

LEMMA PassedTicket ==
    ASSUME Place, InOrder, orders' = orders, o' = o, k' = k + 1
    PROVE  /\ Passed' = Passed \cup {<<o, k + 1>>} /\ <<o, k + 1>> \in AllTickets
           /\ \A x \in AllTickets : x \in Passed <=> Before(x, <<o, k + 1>>)
  <1>1. o \in 1 .. Len(orders) /\ k + 1 \in 1 .. Len(orders[o].tickets)
    BY CurrentTicket
  <1>2. o \in DOMAIN orders /\ k + 1 \in DOMAIN orders[o].tickets /\ o \in Nat /\ k \in Nat
    BY <1>1, OrderAt, LenProperties DEF Place
  <1>3. AllTickets' = AllTickets /\ <<o, k + 1>> \in AllTickets
    BY <1>2, TicketsAre DEF AllTickets
  <1>4. ASSUME NEW x \in AllTickets
        PROVE  /\ x \in Passed' <=> x \in Passed \/ x = <<o, k + 1>>
               /\ x \in Passed <=> Before(x, <<o, k + 1>>)
    <2>1. x = <<x[1], x[2]>> /\ x[1] \in Nat /\ x[2] \in Nat
      BY TicketNumbers
    <2>2. x = <<o, k + 1>> <=> x[1] = o /\ x[2] = k + 1
      BY <2>1
    <2>3. x \in Passed' <=> x[1] < o \/ (x[1] = o /\ x[2] <= k + 1)
      BY <1>3 DEF Passed
    <2>4. x \in Passed <=> x[1] < o \/ (x[1] = o /\ x[2] <= k)
      BY DEF Passed
    <2>5. Before(x, <<o, k + 1>>) <=> x[1] < o \/ (x[1] = o /\ x[2] < k + 1)
      BY DEF Before
    <2> QED
      BY <1>2, <2>1, <2>2, <2>3, <2>4, <2>5
  <1>5. Passed' \subseteq AllTickets /\ Passed \subseteq AllTickets
    BY <1>3 DEF Passed
  <1> QED
    BY <1>3, <1>4, <1>5

\* Between two orders the tickets of the first o have been looked at.
LEMMA PassedOrders ==
    ASSUME Place, ~InOrder
    PROVE  /\ Passed = {x \in AllTickets : x[1] <= o}
           /\ NextOrder => Passed' = Passed
           /\ EndPass => Passed = AllTickets /\ Passed' = {}
  <1>0. o \in Nat /\ k \in Nat
    BY DEF Place
  <1>1. ASSUME NEW x \in AllTickets PROVE x \in Passed <=> x[1] <= o
    <2>1. /\ x[1] \in Nat /\ x[2] \in Nat /\ x[1] > 0
          /\ x[2] <= Len(orders[x[1]].tickets) /\ Len(orders[x[1]].tickets) \in Nat
      BY TicketNumbers
    <2>2. x[1] = o => k = Len(orders[x[1]].tickets)
      BY <1>0, <2>1 DEF InOrder, Place
    <2> QED
      BY <1>0, <2>1, <2>2 DEF Passed
  <1>2. Passed = {x \in AllTickets : x[1] <= o}
    BY <1>1 DEF Passed
  <1>3. ASSUME NextOrder PROVE Passed' = Passed
    <2>1. AllTickets' = AllTickets /\ o' = o + 1 /\ k' = 0
      BY <1>3 DEF NextOrder, AllTickets
    <2>2. ASSUME NEW x \in AllTickets PROVE x \in Passed' <=> x[1] <= o
      <3>1. x[1] \in Nat /\ x[2] \in Nat /\ x[2] > 0
        BY TicketNumbers
      <3>2. x \in Passed' <=> x[1] < o + 1 \/ (x[1] = o + 1 /\ x[2] <= 0)
        BY <2>1 DEF Passed
      <3> QED
        BY <1>0, <3>1, <3>2
    <2> QED
      BY <1>2, <2>1, <2>2 DEF Passed
  <1>4. ASSUME EndPass PROVE Passed = AllTickets /\ Passed' = {}
    <2>1. AllTickets' = AllTickets /\ o' = 0 /\ k' = 0 /\ o = Len(orders)
      BY <1>4 DEF EndPass, AllTickets
    <2>2. \A x \in AllTickets : x[1] <= Len(orders) /\ x[1] > 0 /\ x[1] \in Nat
      BY TicketNumbers
    <2>3. Passed = AllTickets
      BY <1>2, <2>1, <2>2
    <2>4. \A x \in AllTickets : x \notin Passed'
      BY <2>1, <2>2 DEF Passed
    <2> QED
      BY <2>1, <2>3, <2>4 DEF Passed
  <1> QED
    BY <1>2, <1>3, <1>4

-----------------------------------------------------------------------------
(* The rows of the sheet.                                                  *)

Rows(g) == {x \in Handled : Group(TicketAt(x)) = g}

\* The property, with what makes it inductive: there is something to count.
Shares ==
    /\ IsFiniteSet(Handled)
    /\ Counts \in [orders : Nat, tickets : Nat]
    /\ RowsShareOutTickets

LEMMA HandledIs == Handled = IF pass = "tickets" THEN Passed ELSE AllTickets
  BY DEF Handled, Passed

\* One more ticket of the first pass.
LEMMA HandledCount ==
    ASSUME Place, CountTicket
    PROVE  /\ Handled' = Handled \cup {<<o, k + 1>>} /\ <<o, k + 1>> \notin Handled
           /\ TicketAt(<<o, k + 1>>) = Current
  <1>0. o \in Nat /\ k \in Nat
    BY DEF Place
  <1>1. /\ InOrder /\ pass = "tickets" /\ pass' = pass
        /\ orders' = orders /\ o' = o /\ k' = k + 1
    BY DEF CountTicket
  <1>2. Passed' = Passed \cup {<<o, k + 1>>}
    BY <1>1, PassedTicket
  <1>3. Handled = Passed /\ Handled' = Passed'
    <2>1. AllTickets' = AllTickets
      BY <1>1 DEF AllTickets
    <2> HIDE DEF AllTickets
    <2> QED
      BY <1>1, <2>1 DEF Handled, Passed
  <1>4. <<o, k + 1>> \notin Passed
    BY <1>0 DEF Passed
  <1>5. TicketAt(<<o, k + 1>>) = Current
    BY DEF TicketAt, Current
  <1> QED
    BY <1>2, <1>3, <1>4, <1>5

\* Nothing else handles a ticket.
LEMMA HandledKept ==
    ASSUME Place, SponsorTicket \/ NextOrder \/ EndPass
    PROVE  Handled' = Handled
  <1>1. AllTickets' = AllTickets
    BY DEF SponsorTicket, NextOrder, EndPass, AllTickets
  <1>2. CASE pass # "tickets"
    <2>1. pass' # "tickets"
      BY <1>2 DEF SponsorTicket, NextOrder, EndPass
    <2> QED
      BY <1>1, <1>2, <2>1 DEF Handled
  <1>3. CASE pass = "tickets" /\ NextOrder
    <2>1. pass' = pass /\ Passed' = Passed
      BY <1>3, PassedOrders DEF NextOrder
    <2> QED
      BY <1>1, <1>3, <2>1 DEF Handled, Passed
  <1>4. CASE pass = "tickets" /\ EndPass
    <2>1. pass' # "tickets" /\ Passed = AllTickets
      BY <1>4, PassedOrders DEF EndPass
    <2> QED
      BY <1>1, <1>4, <2>1, HandledIs DEF Handled
  <1> QED
    BY <1>2, <1>3, <1>4 DEF SponsorTicket

LEMMA SharesNext == Place /\ Shares /\ [Next]_vars => Shares'
  <1> SUFFICES ASSUME Place, Shares, [Next]_vars PROVE Shares'
    OBVIOUS
  <1>1. CASE CountTicket
    <2> DEFINE x == <<o, k + 1>>
               g == Group(Current)
               row == At(TicketGroups, g, [count |-> 0, income |-> 0])
    <2>1. Handled' = Handled \cup {x} /\ x \notin Handled /\ TicketAt(x) = Current
      BY <1>1, HandledCount
    <2>2. IsFiniteSet(Handled') /\ Cardinality(Handled') = Cardinality(Handled) + 1
      BY <2>1, FS_AddElement DEF Shares
    <2>3. \A y : TicketAt(y)' = TicketAt(y)
      BY <1>1 DEF CountTicket, TicketAt
    <2>4. PICK income :
              TicketGroups' = Put(TicketGroups, g, [count |-> row.count + 1,
                                                    income |-> row.income + income])
      BY <1>1 DEF CountTicket, CountIn
    <2> HIDE DEF x, g
    <2>5. /\ DOMAIN TicketGroups' = DOMAIN TicketGroups \cup {g}
          /\ TicketGroups'[g].count = row.count + 1
          /\ \A h \in DOMAIN TicketGroups : h # g => TicketGroups'[h] = TicketGroups[h]
      BY <2>4 DEF Put
    <2>6. DOMAIN TicketGroups' = {Group(TicketAt(y)') : y \in Handled'}
      <3>1. DOMAIN TicketGroups = {Group(TicketAt(y)) : y \in Handled}
        BY DEF Shares, RowsShareOutTickets
      <3>2. {Group(TicketAt(y)') : y \in Handled'} = {Group(TicketAt(y)) : y \in Handled'}
        BY <2>3
      <3>3. Group(TicketAt(x)) = g
        BY <2>1 DEF g
      <3> QED
        BY <2>1, <2>5, <3>1, <3>2, <3>3
    <2>7. ASSUME NEW h \in DOMAIN TicketGroups'
          PROVE  TicketGroups'[h].count =
                     Cardinality({y \in Handled' : Group(TicketAt(y)') = h})
      <3>0. {y \in Handled' : Group(TicketAt(y)') = h} =
                IF h = g THEN Rows(h) \cup {x} ELSE Rows(h)
        <4>1. Group(TicketAt(x)) = g
          BY <2>1 DEF g
        <4> QED
          BY <2>1, <2>3, <4>1 DEF Rows
      <3>1. IsFiniteSet(Rows(h)) /\ x \notin Rows(h)
        <4>1. Rows(h) \in SUBSET Handled
          BY DEF Rows
        <4> QED
          BY <2>1, <4>1, FS_Subset DEF Shares
      <3>2. h \in DOMAIN TicketGroups => TicketGroups[h].count = Cardinality(Rows(h))
        BY DEF Shares, RowsShareOutTickets, Rows
      <3>3. CASE h # g
        BY <2>5, <3>0, <3>2, <3>3
      <3>4. CASE h = g
        <4>1. Cardinality(Rows(h) \cup {x}) = Cardinality(Rows(h)) + 1
          BY <3>1, FS_AddElement
        <4>2. row.count = Cardinality(Rows(h))
          <5>1. CASE h \in DOMAIN TicketGroups
            BY <3>2, <3>4, <5>1 DEF At
          <5>2. CASE h \notin DOMAIN TicketGroups
            <6>1. DOMAIN TicketGroups = {Group(TicketAt(y)) : y \in Handled}
              BY DEF Shares, RowsShareOutTickets
            <6>2. Rows(h) = {}
              BY <5>2, <6>1 DEF Rows
            <6>3. row.count = 0
              BY <3>4, <5>2 DEF At
            <6> QED
              BY <6>2, <6>3, FS_EmptySet
          <5> QED
            BY <5>1, <5>2
        <4> QED
          BY <2>5, <3>0, <3>4, <4>1, <4>2
      <3> QED
        BY <3>3, <3>4
    <2>8. /\ Counts'.tickets = Counts.tickets + 1
          /\ Counts' \in [orders : Nat, tickets : Nat]
      <3>1. Counts' = [Counts EXCEPT !.tickets = Counts.tickets + 1]
        BY <1>1 DEF CountTicket
      <3>2. Counts \in [orders : Nat, tickets : Nat]
        BY DEF Shares
      <3> QED
        BY <3>1, <3>2
    <2>9. RowsShareOutTickets'
      BY <2>2, <2>6, <2>7, <2>8 DEF RowsShareOutTickets, Shares
    <2> QED
      BY <2>2, <2>8, <2>9 DEF Shares
  <1>2. CASE SponsorTicket \/ NextOrder \/ EndPass
    <2>1. Handled' = Handled /\ TicketGroups' = TicketGroups /\ orders' = orders
      BY <1>2, HandledKept DEF SponsorTicket, NextOrder, EndPass, summary
    <2>2. Counts'.tickets = Counts.tickets /\ Counts' \in [orders : Nat, tickets : Nat]
      BY <1>2 DEF SponsorTicket, NextOrder, EndPass, summary, Shares
    <2>3. \A y : TicketAt(y)' = TicketAt(y)
      BY <2>1 DEF TicketAt
    <2> QED
      BY <2>1, <2>2, <2>3 DEF Shares, RowsShareOutTickets
  <1>3. CASE UNCHANGED vars
    <2>1. /\ Handled' = Handled /\ TicketGroups' = TicketGroups /\ Counts' = Counts
          /\ \A y : TicketAt(y)' = TicketAt(y)
      BY <1>3 DEF vars, summary, Handled, AllTickets, TicketAt
    <2> QED
      BY <2>1 DEF Shares, RowsShareOutTickets
  <1> QED
    BY <1>1, <1>2, <1>3 DEF Next

\* At every moment the rows share out the tickets counted so far, for every
\* payload and all patterns.
THEOREM RowsAreRight == Spec => []RowsShareOutTickets
  <1>1. Shares => RowsShareOutTickets
    BY DEF Shares
  <1>2. Init => Shares
    <2> SUFFICES ASSUME Init PROVE Shares
      OBVIOUS
    <2>1. Handled = {}
      <3> SUFFICES ASSUME NEW x \in Handled PROVE FALSE
        OBVIOUS
      <3>1. x \in AllTickets /\ (x[1] < 0 \/ (x[1] = 0 /\ x[2] <= 0))
        BY DEF Handled, Init
      <3>2. PICK n \in DOMAIN orders : \E j \in DOMAIN orders[n].tickets : x = <<n, j>>
        BY <3>1, TicketsAre
      <3>3. n \in 1 .. Len(orders) /\ Len(orders) \in Nat /\ x[1] = n
        BY <3>2, PlaceInit, LenProperties DEF Place
      <3> QED
        BY <3>1, <3>3
    <2>2. Cardinality(Handled) = 0 /\ IsFiniteSet(Handled)
      BY <2>1, FS_EmptySet
    <2>3. DOMAIN TicketGroups = {} /\ Counts = [orders |-> 0, tickets |-> 0]
      BY DEF Init, EmptyMap
    <2> QED
      BY <2>1, <2>2, <2>3 DEF Shares, RowsShareOutTickets
  <1> QED
    BY <1>1, <1>2, PlaceInit, PlaceNext, SharesNext, PTL DEF Spec

-----------------------------------------------------------------------------
(* The port.                                                               *)

Chosen(t, s) ==
    {i \in DOMAIN t.answers : /\ t.answers[i].tshirt
                              /\ t.answers[i].choices # <<>>
                              /\ NormalizeSize(t.answers[i].choices[1]) = s}

\* What makes a step of Summarise the script's: its maps hold numbers, and what
\* Sponsors has met is what it has found.
Numbers ==
    /\ TShirtSizes \in [Sizes -> Nat]
    /\ \A p \in DOMAIN Merch : Merch[p] \in [Sizes -> Nat]
    /\ \A g \in DOMAIN TicketGroups : TicketGroups[g].income \in Nat
    /\ sponsors \in Seq([key : Nat \cup {None}, rank : Nat]) \/ pass = "printed"
    /\ pass # "printed" => seen = {sponsors[i].key : i \in DOMAIN sponsors}

LEMMA SameSize == \A x : Legacy!normalizeSize(x) = NormalizeSize(x)
  BY DEF NormalizeSize, Legacy!normalizeSize

LEMMA SameOperators ==
    /\ \A S : Legacy!Cardinality(S) = Cardinality(S)
    /\ \A map, key, value : Legacy!Put(map, key, value) = Put(map, key, value)
    /\ \A map, key, zero : Legacy!At(map, key, zero) = At(map, key, zero)
    /\ Legacy!Sizes = Sizes /\ Legacy!NoSizes = NoSizes
    /\ Legacy!GroupFree = GroupFree /\ Legacy!GroupDiscounted = GroupDiscounted
  <1>1. \A S : Legacy!Cardinality(S) = Cardinality(S)
    BY DEF Legacy!Cardinality, Cardinality
  <1>2. \A map, key, value : Legacy!Put(map, key, value) = Put(map, key, value)
    BY DEF Legacy!Put, Put
  <1>3. \A map, key, zero : Legacy!At(map, key, zero) = At(map, key, zero)
    BY DEF Legacy!At, At
  <1>4. Legacy!Sizes = Sizes /\ Legacy!NoSizes = NoSizes
    BY DEF Legacy!Sizes, Sizes, Legacy!NoSizes, NoSizes
  <1>5. Legacy!GroupFree = GroupFree /\ Legacy!GroupDiscounted = GroupDiscounted
    BY DEF Legacy!GroupFree, GroupFree, Legacy!GroupDiscounted, GroupDiscounted
  <1> QED
    BY <1>1, <1>2, <1>3, <1>4, <1>5

LEMMA NoSize == NormalizeSize("") = ""
  BY PayloadsAssumption DEF NormalizeSize

LEMMA AddIsNumbers ==
    ASSUME NEW counts \in [Sizes -> Nat], NEW size
    PROVE  Add(counts, size) \in [Sizes -> Nat]
  BY DEF Add

LEMMA Quotient == ASSUME NEW a \in Nat, NEW b \in Nat \ {0} PROVE a \div b \in Nat
  OBVIOUS

LEMMA IncomeIsNumber ==
    ASSUME NEW t \in Ticket, NEW order \in Order
    PROVE  ExVAT(Amount(t.total), order) \in Nat
  <1>1. Amount(t.total) \in Nat
    BY DEF Amount, Ticket
  <1>2. Amount(order.vatRate) \in Nat
    BY DEF Amount, Order
  <1>3. Amount(t.total) * 100 \in Nat /\ 100 + Amount(order.vatRate) \in Nat \ {0}
    BY <1>1, <1>2
  <1> QED
    BY <1>1, <1>3, Quotient DEF ExVAT

\* A ticket with at most one answer to the question adds what the script added.
LEMMA SameShirt ==
    ASSUME NEW t \in Ticket, NEW order, Ported(t, order), NEW counts \in [Sizes -> Nat]
    PROVE  Add(counts, NormalizeSize(ShirtChoice(t))) =
               [s \in Sizes |-> counts[s] + Cardinality(Chosen(t, s))]
  <1> DEFINE asked == {i \in DOMAIN t.answers : t.answers[i].tshirt}
  <1>1. t.answers \in Seq(Answer)
    BY DEF Ticket
  <1>2. IsFiniteSet(asked) /\ Cardinality(asked) \in Nat /\ Cardinality(asked) <= 1
    <2>1. DOMAIN t.answers = 1 .. Len(t.answers) /\ Len(t.answers) \in Nat
      BY <1>1, LenProperties
    <2>2. IsFiniteSet(DOMAIN t.answers)
      <3>1. Len(t.answers) \in Int /\ 1 \in Int
        BY <2>1
      <3>2. IsFiniteSet(1 .. Len(t.answers))
        BY <3>1, FS_Interval
      <3> QED
        BY <2>1, <3>2
    <2>3. IsFiniteSet(asked)
      BY <2>2, FS_Subset
    <2>4. Cardinality(asked) <= 1
      BY Zenon DEF Ported
    <2> QED
      BY <2>3, <2>4, FS_CardinalityType
  <1>3. "" \notin Sizes
    BY DEF Sizes
  <1>4. ASSUME \A s \in Sizes : Chosen(t, s) = {}, ShirtChoice(t) = ""
        PROVE  Add(counts, NormalizeSize(ShirtChoice(t))) =
                   [s \in Sizes |-> counts[s] + Cardinality(Chosen(t, s))]
    <2>1. Add(counts, NormalizeSize(ShirtChoice(t))) = counts
      BY <1>3, <1>4, NoSize DEF Add
    <2>2. \A s \in Sizes : Cardinality(Chosen(t, s)) = 0
      BY <1>4, FS_EmptySet
    <2> QED
      BY <2>1, <2>2
  <1>5. CASE asked = {}
    <2>1. \A s \in Sizes : Chosen(t, s) = {}
      BY <1>5 DEF Chosen
    <2>2. ShirtChoice(t) = ""
      BY <1>5 DEF ShirtChoice
    <2> QED
      BY <1>4, <2>1, <2>2
  <1>6. CASE asked # {}
    <2>1. Cardinality(asked) = 1
      BY <1>2, <1>6, FS_EmptySet
    <2>2. PICK i : asked = {i}
      BY <1>2, <2>1, FS_Singleton
    <2>3. t.answers[i] \in Answer /\ i \in DOMAIN t.answers /\ i \in Nat
      BY <1>1, <2>2, ElementOfSeq, LenProperties
    <2>4. (CHOOSE n \in asked : \A j \in asked : n <= j) = i
      BY <2>2, <2>3
    <2>5. ShirtChoice(t) = IF t.answers[i].choices = <<>> THEN ""
                           ELSE t.answers[i].choices[1]
      <3> DEFINE first == CHOOSE n \in asked : \A j \in asked : n <= j
      <3>1. ShirtChoice(t) = IF asked = {} \/ t.answers[first].choices = <<>> THEN ""
                             ELSE t.answers[first].choices[1]
        BY DEF ShirtChoice
      <3>2. first = i
        BY <2>4
      <3> HIDE DEF first, asked
      <3> QED
        BY <1>6, <3>1, <3>2
    <2>6. \A s : Chosen(t, s) = IF /\ t.answers[i].choices # <<>>
                                   /\ NormalizeSize(t.answers[i].choices[1]) = s
                                THEN {i} ELSE {}
      BY <2>2 DEF Chosen
    <2>7. CASE t.answers[i].choices = <<>>
      BY <1>4, <2>5, <2>6, <2>7
    <2>8. CASE t.answers[i].choices # <<>>
      <3> DEFINE size == NormalizeSize(t.answers[i].choices[1])
      <3>1. NormalizeSize(ShirtChoice(t)) = size
        BY <2>5, <2>8
      <3>2. \A s : Cardinality(Chosen(t, s)) = IF s = size THEN 1 ELSE 0
        BY <2>6, <2>8, FS_EmptySet, FS_Singleton
      <3> HIDE DEF size
      <3>3. \A s \in Sizes : counts[s] + Cardinality(Chosen(t, s)) =
                                IF s = size THEN counts[s] + 1 ELSE counts[s]
        <4> SUFFICES ASSUME NEW s \in Sizes
                     PROVE  counts[s] + Cardinality(Chosen(t, s)) =
                                IF s = size THEN counts[s] + 1 ELSE counts[s]
          OBVIOUS
        <4>1. Cardinality(Chosen(t, s)) = IF s = size THEN 1 ELSE 0
          BY <3>2
        <4>2. counts[s] \in Nat
          OBVIOUS
        <4> QED
          BY <4>1, <4>2
      <3>4. Add(counts, size) =
                [s \in Sizes |-> IF s = size THEN counts[s] + 1 ELSE counts[s]]
        BY DEF Add
      <3> QED
        BY <3>1, <3>3, <3>4
    <2> QED
      BY <2>7, <2>8
  <1> QED
    BY <1>5, <1>6

LEMMA NumbersInit == Init => Numbers
  BY EmptySeq DEF Init, Numbers, NoSizes, EmptyMap, Sizes

LEMMA NumbersNext == Place /\ Numbers /\ [Next]_vars => Numbers'
  <1> SUFFICES ASSUME Place, Numbers, [Next]_vars PROVE Numbers'
    OBVIOUS
  <1>1. CASE CountTicket
    <2> DEFINE m == splitMerch(Current)
               income == ExVAT(Amount(Current.total), orders[o])
    <2>1. income \in Nat
      BY <1>1, CurrentTicket, IncomeIsNumber DEF CountTicket
    <2>2. NoSizes \in [Sizes -> Nat]
      BY DEF NoSizes
    <2>3. TShirtSizes' \in [Sizes -> Nat]
      BY <1>1, AddIsNumbers DEF CountTicket, Numbers
    <2>4. \A p \in DOMAIN Merch' : Merch'[p] \in [Sizes -> Nat]
      <3>1. Merch' = Merch \/ Merch' = Put(Merch, m.name, Add(At(Merch, m.name, NoSizes), m.size))
        BY <1>1 DEF CountTicket
      <3>2. At(Merch, m.name, NoSizes) \in [Sizes -> Nat]
        BY <2>2 DEF At, Numbers
      <3>3. Add(At(Merch, m.name, NoSizes), m.size) \in [Sizes -> Nat]
        BY <3>2, AddIsNumbers
      <3> HIDE DEF m
      <3> QED
        BY <3>1, <3>3 DEF Put, Numbers
    <2>5. \A g \in DOMAIN TicketGroups' : TicketGroups'[g].income \in Nat
      <3> DEFINE g0 == Group(Current)
                 row == At(TicketGroups, g0, [count |-> 0, income |-> 0])
      <3>1. TicketGroups' = Put(TicketGroups, g0, [count |-> row.count + 1, income |-> row.income + income])
        BY <1>1 DEF CountTicket, CountIn
      <3>2. row.income \in Nat
        BY DEF At, Numbers
      <3> HIDE DEF g0, row, income
      <3>3. row.income + income \in Nat
        BY <2>1, <3>2
      <3> QED
        BY <3>1, <3>3 DEF Put, Numbers
    <2>6. pass' = pass /\ sponsors' = sponsors /\ seen' = seen
      BY <1>1 DEF CountTicket
    <2> QED
      BY <2>3, <2>4, <2>5, <2>6 DEF Numbers
  <1>2. CASE SponsorTicket
    <2>1. UNCHANGED <<TShirtSizes, Merch, TicketGroups, pass>> /\ pass = "sponsors"
      BY <1>2 DEF SponsorTicket, summary
    <2>2. CASE UNCHANGED <<seen, sponsors>>
      BY <2>1, <2>2 DEF Numbers
    <2>3. CASE seen' = seen \cup {Current.company.key} /\ sponsors' = Append(sponsors, Current.company)
      <3>1. Current.company \in [key : Nat \cup {None}, rank : Nat]
        BY <1>2, CurrentTicket DEF SponsorTicket, Ticket
      <3>2. sponsors \in Seq([key : Nat \cup {None}, rank : Nat])
        BY <2>1 DEF Numbers
      <3>3. /\ sponsors' \in Seq([key : Nat \cup {None}, rank : Nat])
            /\ DOMAIN sponsors' = DOMAIN sponsors \cup {Len(sponsors) + 1}
            /\ \A i \in DOMAIN sponsors : sponsors'[i] = sponsors[i]
            /\ sponsors'[Len(sponsors) + 1] = Current.company
        BY <2>3, <3>1, <3>2, AppendProperties, LenProperties
      <3> HIDE DEF Current
      <3> QED
        BY <2>1, <2>3, <3>3 DEF Numbers
    <2> QED
      BY <1>2, <2>2, <2>3 DEF SponsorTicket
  <1>3. CASE NextOrder
    BY <1>3 DEF NextOrder, Numbers
  <1>4. CASE EndPass
    <2>1. /\ UNCHANGED <<TShirtSizes, Merch, TicketGroups, seen>>
          /\ pass' = "printed" \/ (pass # "printed" /\ sponsors' = sponsors)
      BY <1>4 DEF EndPass, summary
    <2> QED
      BY <2>1 DEF Numbers
  <1>5. CASE UNCHANGED vars
    BY <1>5 DEF vars, summary, Numbers
  <1> QED
    BY <1>1, <1>2, <1>3, <1>4, <1>5 DEF Next

LEMMA SameCount ==
    ASSUME Place, Numbers, LegacyOptions, CountTicket, Ported(Current, orders[o])
    PROVE  Legacy!CountTicket
  <1> DEFINE t == Current
             sized == "hoodie" \in t.words /\ t.label[2] # None
             size == IF sized THEN NormalizeSize(t.label[2]) ELSE ""
             product == IF sized THEN <<Trim[t.label[1]], None>> ELSE t.label
             group == IF t.total = 0 THEN GroupFree
                      ELSE IF Legacy!Less(t.total, Legacy!parseFloat(t.price))
                           THEN GroupDiscounted ELSE product
             row == At(TicketGroups, group, [count |-> 0, income |-> 0])
             sizes == At(Merch, product, NoSizes)
             income == ExVAT(t.total, orders[o])
  <1>1. t \in Ticket /\ orders[o] \in Order
    BY CurrentTicket DEF CountTicket
  <1>2. /\ t.total \in Nat /\ Amount(t.total) = t.total /\ Legacy!parseFloat(t.total) = t.total
        /\ t.total # NaN
    BY <1>1, NaNAssumption, PayloadsAssumption DEF Ported, Ticket, Amount, Legacy!parseFloat
  <1>3. splitMerch(t) = [name |-> product, size |-> size]
    <2>1. (t.words \cap MerchNamePatterns # {}) <=> "hoodie" \in t.words
      BY DEF LegacyOptions
    <2> QED
      BY <2>1 DEF splitMerch
  <1>4. Group(t) = group
    <2>1. (Amount(t.total) < Amount(t.price)) <=> Legacy!Less(t.total, Legacy!parseFloat(t.price))
      <3>1. CASE t.price = Missing
        <4>1. Amount(t.price) = 0 /\ Legacy!parseFloat(t.price) = NaN
          BY <3>1 DEF Amount, Legacy!parseFloat
        <4> HIDE DEF t
        <4> QED
          BY <1>2, <4>1 DEF Legacy!Less
      <3>2. CASE t.price # Missing
        <4>1. Amount(t.price) = t.price /\ Legacy!parseFloat(t.price) = t.price /\ t.price # NaN
          BY <1>1, <3>2, NaNAssumption DEF Amount, Legacy!parseFloat, Ticket
        <4> HIDE DEF t
        <4> QED
          BY <1>2, <4>1 DEF Legacy!Less
      <3> QED
        BY <3>1, <3>2
    <2>2. splitMerch(t).name = product
      <3> HIDE DEF product, size
      <3> QED
        BY <1>3
    <2> QED
      BY <1>2, <2>1, <2>2, Zenon DEF Group
  <1>5. /\ income \in Nat /\ income # NaN
        /\ Legacy!ExVAT(t.total, orders[o]) = income
        /\ ExVAT(Amount(t.total), orders[o]) = income
    <2>1. income \in Nat
      BY <1>1, <1>2, IncomeIsNumber
    <2>2. ExVAT(Amount(t.total), orders[o]) = income
      BY <1>2
    <2>3. CASE orders[o].vatExempt
      BY <1>2, <2>1, <2>2, <2>3, NaNAssumption DEF Legacy!ExVAT, ExVAT
    <2>4. CASE ~orders[o].vatExempt
      <3>1. orders[o].vatRate # Missing /\ Amount(orders[o].vatRate) = orders[o].vatRate
        BY <2>4 DEF Ported, Amount
      <3>2. /\ income = (t.total * 100) \div (100 + orders[o].vatRate)
            /\ Legacy!ExVAT(t.total, orders[o]) = (t.total * 100) \div (100 + orders[o].vatRate)
        BY <1>2, <2>4, <3>1, Zenon DEF Legacy!ExVAT, ExVAT
      <3> QED
        BY <2>1, <2>2, <3>2, NaNAssumption
    <2> QED
      BY <2>3, <2>4
  <1>6. row.income \in Nat /\ Legacy!Plus(row.income, income) = row.income + income
    <2>1. row.income \in Nat
      BY DEF At, Numbers
    <2> QED
      BY <1>5, <2>1, NaNAssumption DEF Legacy!Plus
  <1>7. sizes \in [Sizes -> Nat]
    BY DEF At, NoSizes, Numbers
  <1>8. Merch' = IF size = "" THEN Merch
                 ELSE Put(Merch, product,
                          [s \in Sizes |-> IF s = size THEN sizes[s] + 1 ELSE sizes[s]])
    <2>1. Merch' = IF size = "" THEN Merch ELSE Put(Merch, product, Add(sizes, size))
      <3>1. splitMerch(Current).size = size /\ splitMerch(Current).name = product
        <4> HIDE DEF product, size
        <4> QED
          BY <1>3
      <3> QED
        BY <3>1, Zenon DEF CountTicket
    <2>2. Add(sizes, size) = [s \in Sizes |-> IF s = size THEN sizes[s] + 1 ELSE sizes[s]]
      <3> HIDE DEF sizes, size
      <3> QED
        BY <1>7 DEF Add
    <2> QED
      BY <2>1, <2>2
  <1>9. TShirtSizes' = [s \in Sizes |-> TShirtSizes[s] + Cardinality(Chosen(t, s))]
    BY <1>1, SameShirt DEF CountTicket, Numbers
  <1>10. TicketGroups' = Put(TicketGroups, group,
              [count |-> row.count + 1, income |-> Legacy!Plus(row.income, income)])
    <2>1. TicketGroups' = CountIn(group, income)
      BY <1>4, <1>5 DEF CountTicket
    <2> QED
      BY <1>6, <2>1 DEF CountIn
  <1>11. /\ pass = "tickets" /\ InOrder /\ k' = k + 1
         /\ UNCHANGED <<orders, pass, o, sponsors>>
    BY DEF CountTicket
  <1>12. Legacy!InOrder /\ Legacy!Current = t
    BY <1>11 DEF Legacy!InOrder, InOrder, Legacy!Current, Current
  <1>13. Merch' = IF size = "" THEN Merch
                  ELSE Legacy!Put(Merch, product,
                          [s \in Legacy!Sizes |->
                              IF s = size THEN Legacy!At(Merch, product, Legacy!NoSizes)[s] + 1
                              ELSE Legacy!At(Merch, product, Legacy!NoSizes)[s]])
    BY <1>8, SameOperators, Zenon
  <1>14. TShirtSizes' =
             [s \in Legacy!Sizes |-> TShirtSizes[s] +
                 Legacy!Cardinality({i \in DOMAIN t.answers :
                     /\ t.answers[i].tshirt
                     /\ t.answers[i].choices # <<>>
                     /\ Legacy!normalizeSize(t.answers[i].choices[1]) = s})]
    <2>1. \A s : Chosen(t, s) = {i \in DOMAIN t.answers :
                     /\ t.answers[i].tshirt
                     /\ t.answers[i].choices # <<>>
                     /\ Legacy!normalizeSize(t.answers[i].choices[1]) = s}
      BY SameSize DEF Chosen
    <2> QED
      BY <1>9, <2>1, SameOperators, Zenon
  <1>15. TicketGroups' = Legacy!Put(TicketGroups, group,
              [count |-> row.count + 1,
               income |-> Legacy!Plus(row.income, Legacy!ExVAT(t.total, orders[o]))])
    BY <1>5, <1>10, SameOperators, Zenon
  <1> DEFINE lgroup == IF Legacy!parseFloat(t.total) = 0 THEN Legacy!GroupFree
                       ELSE IF Legacy!Less(Legacy!parseFloat(t.total), Legacy!parseFloat(t.price))
                            THEN Legacy!GroupDiscounted ELSE product
             lrow == Legacy!At(TicketGroups, lgroup, [count |-> 0, income |-> 0])
             lsize == IF sized THEN Legacy!normalizeSize(t.label[2]) ELSE ""
  <1>16. lgroup = group /\ lsize = size
    BY <1>2, SameSize, SameOperators, Zenon
  <1>17. lrow = row
    <2> HIDE DEF lgroup, group
    <2> QED
      BY <1>16, SameOperators, Zenon
  <1>18. TicketGroups' = Legacy!Put(TicketGroups, lgroup,
              [count |-> lrow.count + 1,
               income |-> Legacy!Plus(lrow.income,
                              Legacy!ExVAT(Legacy!parseFloat(t.total), orders[o]))])
    <2> HIDE DEF lgroup, group, lrow, row, t
    <2> QED
      BY <1>2, <1>15, <1>16, <1>17, Zenon
  <1>19. Merch' = IF lsize = "" THEN Merch
                  ELSE Legacy!Put(Merch, product,
                          [s \in Legacy!Sizes |->
                              IF s = lsize THEN Legacy!At(Merch, product, Legacy!NoSizes)[s] + 1
                              ELSE Legacy!At(Merch, product, Legacy!NoSizes)[s]])
    <2> HIDE DEF lsize, size
    <2> QED
      BY <1>13, <1>16, Zenon
  <1> QED
    BY <1>11, <1>12, <1>14, <1>18, <1>19, Zenon DEF Legacy!CountTicket

LEMMA SameSponsor ==
    ASSUME Place, Numbers, LegacyOptions, SponsorTicket
    PROVE  Legacy!SponsorTicket
  <1> DEFINE PK == CHOOSE pk \in SponsorTicketTypePKs : TRUE
  <1>1. \A pk : pk \in SponsorTicketTypePKs <=> pk = PK
    BY DEF LegacyOptions
  <1>2. seen = {sponsors[i].key : i \in DOMAIN sponsors}
    BY DEF SponsorTicket, Numbers
  <1>3. sponsors' = IF /\ Current.pk = PK
                       /\ Current.company.key # None
                       /\ \A i \in DOMAIN sponsors : sponsors[i].key # Current.company.key
                    THEN Append(sponsors, Current.company) ELSE sponsors
    <2> HIDE DEF PK
    <2> QED
      BY <1>1, <1>2 DEF SponsorTicket
  <1>4. /\ pass = "sponsors" /\ InOrder /\ k' = k + 1
        /\ UNCHANGED <<orders, pass, o, TicketGroups, TShirtSizes, Merch>>
    BY DEF SponsorTicket, summary
  <1> QED
    BY <1>3, <1>4 DEF Legacy!SponsorTicket, Legacy!InOrder, InOrder, Legacy!Current, Current

LEMMA SameStep ==
    ASSUME Place, Numbers, Next, LegacyOptions, InOrder => Ported(Current, orders[o])
    PROVE  Legacy!LegacyNext
  <1>1. CASE CountTicket
    BY <1>1, SameCount DEF CountTicket, Legacy!LegacyNext
  <1>2. CASE SponsorTicket
    BY <1>2, SameSponsor DEF Legacy!LegacyNext
  <1>3. CASE NextOrder
    BY <1>3 DEF NextOrder, Legacy!LegacyNext, Legacy!NextOrder, Legacy!InOrder, InOrder
  <1>4. CASE EndPass
    BY <1>4 DEF EndPass, summary, Legacy!LegacyNext, Legacy!EndPass, Legacy!InOrder, InOrder,
                Legacy!Sorted, Sorted
  <1> QED
    BY <1>1, <1>2, <1>3, <1>4 DEF Next

\* sizes.go:4-8: for any payload, and whatever was counted before, a step on a
\* ticket with one answer, a total and a VAT rate is the step of the script.
THEOREM PortIsFaithful == Spec => PortsLegacy
  <1> DEFINE P == LegacyOptions /\ (InOrder => Ported(Current, orders[o]))
                      => [Legacy!LegacyNext]_(Legacy!legacyVars)
  <1>1. ASSUME Place, Numbers, [Next]_vars PROVE [P]_vars
    BY <1>1, SameStep
  <1> QED
    BY <1>1, PlaceInit, PlaceNext, NumbersInit, NumbersNext, PTL DEF Spec, PortsLegacy

\* Every ticket of every payload is one that the script could cope with.
AllPorted ==
    \A payload \in Payloads : \A n \in DOMAIN payload :
        \A j \in DOMAIN payload[n].tickets : Ported(payload[n].tickets[j], payload[n])

\* sizes.go:4-8: with the script's options, and if no ticket lacks its
\* price_total, its VAT rate or has a second answer, the aggregation is the script from the
\* first step to the last, and all it prints is what the script printed.
THEOREM ImplementsScript ==
    ASSUME LegacyOptions, AllPorted
    PROVE  Spec => Legacy!LegacySpec
  <1> DEFINE Known == orders \in Payloads
  <1>1. Init => Legacy!LegacyInit /\ Known
    BY DEF Init, Legacy!LegacyInit, Legacy!EmptyMap, EmptyMap, Legacy!NoSizes, NoSizes,
           Legacy!Sizes, Sizes
  <1>2. Known /\ [Next]_vars => Known'
    BY DEF Next, CountTicket, SponsorTicket, NextOrder, EndPass, vars
  <1>3. ASSUME Place, Known, InOrder PROVE Ported(Current, orders[o])
    <2>1. o \in 1 .. Len(orders) /\ k + 1 \in 1 .. Len(orders[o].tickets)
      BY <1>3, CurrentTicket
    <2>2. o \in DOMAIN orders /\ k + 1 \in DOMAIN orders[o].tickets
      BY <1>3, <2>1, OrderAt, LenProperties DEF Place
    <2> QED
      BY <1>3, <2>2 DEF AllPorted, Current
  <1>4. Place /\ Known /\ Numbers /\ [Next]_vars => [Legacy!LegacyNext]_(Legacy!legacyVars)
    <2> SUFFICES ASSUME Place, Known, Numbers, [Next]_vars
                 PROVE  [Legacy!LegacyNext]_(Legacy!legacyVars)
      OBVIOUS
    <2>1. CASE Next
      BY <1>3, <2>1, SameStep
    <2>2. CASE UNCHANGED vars
      BY <2>2 DEF vars, summary, Legacy!legacyVars
    <2> QED
      BY <2>1, <2>2
  <1> QED
    BY <1>1, <1>2, <1>4, PlaceInit, PlaceNext, NumbersInit, NumbersNext, PTL
    DEF Spec, Legacy!LegacySpec

-----------------------------------------------------------------------------
(* The sponsors.                                                           *)

Company == [key : Nat \cup {None}, rank : Nat]

\* s has the entries of list, in the order of their names.
Arranges(s, list) ==
    /\ s \in [DOMAIN list -> {list[i] : i \in DOMAIN list}]
    /\ \A i, j \in DOMAIN list : i < j => s[i].rank <= s[j].rank
    /\ \A i \in DOMAIN list : \E j \in DOMAIN list : s[j] = list[i]

\* A list that can be sorted can be sorted with one more entry: it goes before
\* the first one that is greater.
LEMMA Insertion ==
    ASSUME NEW n \in Nat, NEW list \in [1 .. n + 1 -> Company], NEW s,
           Arranges(s, [i \in 1 .. n |-> list[i]])
    PROVE  \E t : Arranges(t, list)
  <1> DEFINE x == list[n + 1]
             places == {i \in 1 .. n + 1 : i \in 1 .. n => x.rank < s[i].rank}
  <1>1. \A i \in 1 .. n : \E j \in 1 .. n : s[i] = list[j]
    BY DEF Arranges
  <1>2. \A i, j \in 1 .. n : i < j => s[i].rank <= s[j].rank
    BY DEF Arranges
  <1>3. \A i \in 1 .. n : \E j \in 1 .. n : s[j] = list[i]
    BY DEF Arranges
  <1>4. n + 1 \in places /\ places \subseteq Nat
    OBVIOUS
  <1>5. PICK p \in places : \A q \in places : p <= q
    <2> HIDE DEF places
    <2> QED
      BY <1>4, LeastNatural
  <1>6. p \in 1 .. n + 1
    BY <1>5
  <1>7. /\ x.rank \in Nat /\ \A i \in 1 .. n : s[i].rank \in Nat
    <2>1. \A i \in 1 .. n + 1 : list[i].rank \in Nat
      BY DEF Company
    <2>2. n + 1 \in 1 .. n + 1 /\ 1 .. n \subseteq 1 .. n + 1
      OBVIOUS
    <2> QED
      BY <1>1, <2>1, <2>2
  <1>8. ASSUME NEW i \in 1 .. n, i < p PROVE s[i].rank <= x.rank
    BY <1>5, <1>6, <1>7, <1>8
  <1>9. ASSUME NEW i \in 1 .. n, i >= p PROVE x.rank <= s[i].rank
    <2>1. p \in 1 .. n /\ x.rank < s[p].rank
      BY <1>5, <1>6, <1>9
    <2>2. s[p].rank <= s[i].rank
      <3>1. CASE i = p
        BY <1>7, <2>1, <3>1
      <3>2. CASE i > p
        BY <1>2, <2>1, <3>2
      <3> QED
        BY <1>6, <1>9, <3>1, <3>2
    <2> QED
      BY <1>7, <2>1, <2>2
  <1> DEFINE t == [i \in 1 .. n + 1 |-> IF i < p THEN s[i] ELSE IF i = p THEN x ELSE s[i - 1]]
  <1> HIDE DEF places
  <1>10. /\ \A i \in 1 .. n + 1 : i < p => i \in 1 .. n /\ t[i] = s[i]
        /\ t[p] = x
        /\ \A i \in 1 .. n + 1 : i > p => i - 1 \in 1 .. n /\ i - 1 >= p /\ t[i] = s[i - 1]
    BY <1>6
  <1>11. t \in [1 .. n + 1 -> {list[i] : i \in 1 .. n + 1}]
    <2> SUFFICES ASSUME NEW i \in 1 .. n + 1 PROVE \E j \in 1 .. n + 1 : t[i] = list[j]
      OBVIOUS
    <2> HIDE DEF t
    <2>1. CASE i < p
      <3>1. PICK j \in 1 .. n : s[i] = list[j]
        BY <1>1, <1>10, <2>1
      <3> QED
        BY <1>10, <2>1, <3>1
    <2>2. CASE i = p
      BY <1>10, <2>2
    <2>3. CASE i > p
      BY <1>1, <1>10, <2>3
    <2> QED
      BY <1>6, <2>1, <2>2, <2>3
  <1> HIDE DEF t
  <1>12. ASSUME NEW i \in 1 .. n + 1, NEW j \in 1 .. n + 1, i < j
         PROVE  t[i].rank <= t[j].rank
    <2>1. CASE j < p
      <3>1. i < p
        BY <1>6, <1>12, <2>1
      <3> QED
        BY <1>2, <1>10, <1>12, <2>1, <3>1
    <2>2. CASE j = p
      BY <1>8, <1>10, <1>12, <2>2
    <2>3. CASE j > p /\ i < p
      <3>1. t[i] = s[i] /\ i \in 1 .. n
        BY <1>10, <2>3
      <3>2. t[j] = s[j - 1] /\ j - 1 \in 1 .. n /\ j - 1 >= p
        BY <1>10, <2>3
      <3>3. s[i].rank <= x.rank /\ x.rank <= s[j - 1].rank
        BY <1>8, <1>9, <2>3, <3>1, <3>2
      <3> HIDE DEF x
      <3> QED
        BY <1>7, <3>1, <3>2, <3>3
    <2>4. CASE j > p /\ i = p
      BY <1>9, <1>10, <2>4
    <2>5. CASE j > p /\ i > p
      <3>1. t[i] = s[i - 1] /\ t[j] = s[j - 1] /\ i - 1 \in 1 .. n /\ j - 1 \in 1 .. n
        BY <1>10, <2>5
      <3>2. i - 1 < j - 1
        BY <1>12
      <3> QED
        BY <1>2, <3>1, <3>2
    <2> QED
      BY <1>6, <2>1, <2>2, <2>3, <2>4, <2>5
  <1>13. ASSUME NEW i \in 1 .. n + 1 PROVE \E j \in 1 .. n + 1 : t[j] = list[i]
    <2>1. CASE i = n + 1
      BY <1>6, <1>10, <2>1
    <2>2. CASE i # n + 1
      <3>0. i \in 1 .. n
        BY <2>2
      <3>1. PICK j \in 1 .. n : s[j] = list[i]
        BY <1>3, <3>0
      <3>2. CASE j < p
        BY <1>10, <3>1, <3>2
      <3>3. CASE j >= p
        <4>1. j + 1 \in 1 .. n + 1 /\ j + 1 > p /\ (j + 1) - 1 = j
          BY <1>6, <3>3
        <4>2. t[j + 1] = s[j]
          BY <1>10, <4>1
        <4> QED
          BY <3>1, <4>1, <4>2
      <3> QED
        BY <1>6, <3>2, <3>3
    <2> QED
      BY <2>1, <2>2
  <1>14. DOMAIN list = 1 .. n + 1
    OBVIOUS
  <1>15. Arranges(t, list)
    BY <1>11, <1>12, <1>13, <1>14 DEF Arranges
  <1> QED
    BY <1>15

\* Every list can be sorted, and Sorted does it.
LEMMA SortedArranges == ASSUME NEW list \in Seq(Company) PROVE Arranges(Sorted(list), list)
  <1> DEFINE S == {n \in Nat : \A l \in [1 .. n -> Company] : \E s : Arranges(s, l)}
  <1>1. 0 \in S
    <2> SUFFICES ASSUME NEW l \in [1 .. 0 -> Company] PROVE Arranges(l, l)
      OBVIOUS
    <2> QED
      BY DEF Arranges
  <1>2. ASSUME NEW n \in Nat, n \in S PROVE n + 1 \in S
    <2> SUFFICES ASSUME NEW l \in [1 .. n + 1 -> Company] PROVE \E s : Arranges(s, l)
      OBVIOUS
    <2>1. [i \in 1 .. n |-> l[i]] \in [1 .. n -> Company]
      OBVIOUS
    <2>2. PICK s : Arranges(s, [i \in 1 .. n |-> l[i]])
      BY <1>2, <2>1
    <2> QED
      BY <2>2, Insertion
  <1>3. Nat \subseteq S
    <2> HIDE DEF S
    <2> QED
      BY <1>1, <1>2, InductionOnSet
  <1>4. Len(list) \in Nat /\ list \in [1 .. Len(list) -> Company]
    BY LenProperties
  <1>5. \E s : Arranges(s, list)
    BY <1>3, <1>4
  <1>6. Sorted(list) = CHOOSE s : Arranges(s, list)
    BY DEF Sorted, Arranges
  <1> QED
    BY <1>5, <1>6

\* Sorting a list in which no key occurs twice does not make one occur twice.
LEMMA SortedKeepsKeysApart ==
    ASSUME NEW list \in Seq(Company), NEW s, Arranges(s, list),
           \A i, j \in DOMAIN list : i < j => list[i].key # list[j].key
    PROVE  \A i, j \in DOMAIN list : i < j => s[i].key # s[j].key
  <1> DEFINE D == DOMAIN list
             from == [i \in D |-> CHOOSE j \in D : s[i] = list[j]]
  <1>1. D = 1 .. Len(list) /\ Len(list) \in Nat
    BY LenProperties
  <1>2. IsFiniteSet(D)
    BY <1>1, FS_Interval
  <1>3. \A i, j \in D : list[i].key = list[j].key => i = j
    BY <1>1
  <1>4. \A i \in D : from[i] \in D /\ s[i] = list[from[i]]
    <2> SUFFICES ASSUME NEW i \in D PROVE from[i] \in D /\ s[i] = list[from[i]]
      OBVIOUS
    <2>1. s[i] \in {list[j] : j \in D}
      BY DEF Arranges
    <2> QED
      BY <2>1
  <1>5. from \in [D -> D]
    BY <1>4
  <1> HIDE DEF from, D
  <1>6. ASSUME NEW j \in D PROVE \E i \in D : from[i] = j
    <2>1. PICK i \in D : s[i] = list[j]
      BY DEF Arranges, D
    <2>2. list[from[i]].key = list[j].key
      BY <1>4, <2>1
    <2> QED
      BY <1>3, <1>4, <2>1, <2>2
  <1>7. from \in Surjection(D, D)
    BY <1>5, <1>6 DEF Surjection
  <1>8. from \in Injection(D, D)
    BY <1>2, <1>7, FS_SurjSameCardinalityImpliesInj
  <1>9. ASSUME NEW i \in D, NEW j \in D, s[i].key = s[j].key PROVE i = j
    <2>1. from[i] = from[j]
      BY <1>3, <1>4, <1>9
    <2>2. \A a, b \in D : from[a] = from[b] => a = b
      BY <1>5, <1>8 DEF Injection, IsInjective
    <2> QED
      BY <2>1, <2>2
  <1> QED
    BY <1>1, <1>9 DEF D

\* What Sponsors has found among the tickets it has looked at.
Found ==
    /\ pass = "tickets" => sponsors = <<>> /\ seen = {}
    /\ pass = "sponsors" =>
           /\ seen = {TicketAt(x).company.key : x \in SponsorTickets \cap Passed}
           /\ {sponsors[i] : i \in DOMAIN sponsors} =
                  {TicketAt(x).company : x \in FirstTickets \cap Passed}
           /\ \A i, j \in DOMAIN sponsors : i < j => sponsors[i].key # sponsors[j].key
    /\ OneEntryPerSponsor

LEMMA SamePayload ==
    ASSUME orders' = orders
    PROVE  /\ \A x : TicketAt(x)' = TicketAt(x)
           /\ SponsorTickets' = SponsorTickets /\ FirstTickets' = FirstTickets
  <1>1. \A x : TicketAt(x)' = TicketAt(x)
    BY DEF TicketAt
  <1>2. AllTickets' = AllTickets
    BY DEF AllTickets
  <1>3. SponsorTickets' = SponsorTickets
    BY <1>1, <1>2 DEF SponsorTickets
  <1>4. FirstTickets' = FirstTickets
    BY <1>1, <1>3 DEF FirstTickets
  <1> QED
    BY <1>1, <1>3, <1>4

\* One ticket of the second pass.
LEMMA FoundTicket == ASSUME Place, Numbers, Found, SponsorTicket PROVE Found'
  <1> DEFINE x == <<o, k + 1>>
             c == Current.company
  <1>1. /\ pass = "sponsors" /\ InOrder /\ orders' = orders /\ o' = o /\ k' = k + 1
        /\ pass' = "sponsors"
    BY DEF SponsorTicket
  <1>2. /\ Passed' = Passed \cup {x} /\ x \in AllTickets
        /\ \A y \in AllTickets : y \in Passed <=> Before(y, x)
    BY <1>1, PassedTicket
  <1>3. TicketAt(x) = Current
    BY DEF TicketAt, Current
  <1>4. /\ \A y : TicketAt(y)' = TicketAt(y)
        /\ SponsorTickets' = SponsorTickets /\ FirstTickets' = FirstTickets
    BY <1>1, SamePayload
  <1>5. /\ seen = {TicketAt(y).company.key : y \in SponsorTickets \cap Passed}
        /\ {sponsors[i] : i \in DOMAIN sponsors} =
               {TicketAt(y).company : y \in FirstTickets \cap Passed}
        /\ \A i, j \in DOMAIN sponsors : i < j => sponsors[i].key # sponsors[j].key
    BY <1>1 DEF Found
  <1>6. sponsors \in Seq(Company) /\ seen = {sponsors[i].key : i \in DOMAIN sponsors}
    BY <1>1 DEF Numbers, Company
  <1>7. c \in Company
    BY <1>1, CurrentTicket DEF Ticket, Company
  <1>8. x \in SponsorTickets <=> Current.pk \in SponsorTicketTypePKs /\ c.key # None
    BY <1>2, <1>3 DEF SponsorTickets
  <1>9. x \in FirstTickets <=> x \in SponsorTickets /\ c.key \notin seen
    <2>1. ASSUME NEW y \in SponsorTickets PROVE y \in Passed <=> Before(y, x)
      BY <1>2 DEF SponsorTickets
    <2>2. x \in FirstTickets <=> /\ x \in SponsorTickets
                                 /\ \A y \in SponsorTickets :
                                        Before(y, x) => TicketAt(y).company.key # c.key
      BY <1>3 DEF FirstTickets
    <2> HIDE DEF x, c
    <2> QED
      BY <1>5, <2>1, <2>2
  <1>10. FirstTickets \subseteq SponsorTickets
    BY DEF FirstTickets
  <1> HIDE DEF x, c
  <1>11. CASE x \in FirstTickets
    <2>1. seen' = seen \cup {c.key} /\ sponsors' = Append(sponsors, c)
      BY <1>8, <1>9, <1>11 DEF SponsorTicket, c
    <2>2. /\ DOMAIN sponsors' = DOMAIN sponsors \cup {Len(sponsors) + 1}
          /\ DOMAIN sponsors = 1 .. Len(sponsors) /\ Len(sponsors) \in Nat
          /\ \A i \in DOMAIN sponsors : sponsors'[i] = sponsors[i]
          /\ sponsors'[Len(sponsors) + 1] = c
      BY <1>6, <1>7, <2>1, AppendProperties, LenProperties
    <2>3. seen' = {TicketAt(y).company.key : y \in SponsorTickets \cap Passed'}
      BY <1>2, <1>3, <1>5, <1>10, <1>11, <2>1 DEF c
    <2>4. {sponsors'[i] : i \in DOMAIN sponsors'} =
              {TicketAt(y).company : y \in FirstTickets \cap Passed'}
      <3>1. {sponsors'[i] : i \in DOMAIN sponsors'} = {sponsors[i] : i \in DOMAIN sponsors} \cup {c}
        BY <2>2
      <3> QED
        BY <1>2, <1>3, <1>5, <1>11, <3>1 DEF c
    <2>5. ASSUME NEW i \in DOMAIN sponsors', NEW j \in DOMAIN sponsors', i < j
          PROVE  sponsors'[i].key # sponsors'[j].key
      <3>1. i \in DOMAIN sponsors
        BY <2>2, <2>5
      <3>2. CASE j \in DOMAIN sponsors
        BY <1>5, <2>2, <2>5, <3>1, <3>2
      <3>3. CASE j = Len(sponsors) + 1
        <4>1. sponsors[i].key \in seen /\ c.key \notin seen
          BY <1>6, <1>9, <1>11, <3>1
        <4> QED
          BY <2>2, <3>1, <3>3, <4>1
      <3> QED
        BY <2>2, <3>2, <3>3
    <2>6. seen' = {TicketAt(y)'.company.key : y \in SponsorTickets' \cap Passed'}
      BY <1>4, <2>3
    <2>7. {sponsors'[i] : i \in DOMAIN sponsors'} =
              {TicketAt(y)'.company : y \in FirstTickets' \cap Passed'}
      BY <1>4, <2>4
    <2> QED
      BY <1>1, <2>5, <2>6, <2>7 DEF Found, OneEntryPerSponsor
  <1>12. CASE x \notin FirstTickets
    <2>1. UNCHANGED <<seen, sponsors>>
      BY <1>8, <1>9, <1>12 DEF SponsorTicket, c
    <2>2. seen = {TicketAt(y).company.key : y \in SponsorTickets \cap Passed'}
      <3>1. CASE x \in SponsorTickets
        <4>1. c.key \in seen
          BY <1>9, <1>12, <3>1
        <4>2. TicketAt(x).company.key = c.key
          BY <1>3 DEF c
        <4> QED
          BY <1>2, <1>5, <3>1, <4>1, <4>2
      <3>2. CASE x \notin SponsorTickets
        BY <1>2, <1>5, <3>2
      <3> QED
        BY <3>1, <3>2
    <2>3. FirstTickets \cap Passed' = FirstTickets \cap Passed
      BY <1>2, <1>12
    <2>4. seen' = {TicketAt(y)'.company.key : y \in SponsorTickets' \cap Passed'}
      BY <1>4, <2>1, <2>2
    <2>5. {sponsors'[i] : i \in DOMAIN sponsors'} =
              {TicketAt(y)'.company : y \in FirstTickets' \cap Passed'}
      BY <1>4, <1>5, <2>1, <2>3
    <2> QED
      BY <1>1, <1>5, <2>1, <2>4, <2>5 DEF Found, OneEntryPerSponsor
  <1> QED
    BY <1>11, <1>12

\* The end of the second pass: the list is sorted.
LEMMA FoundSorted ==
    ASSUME Place, Numbers, Found, EndPass, pass = "sponsors" PROVE Found'
  <1>1. ~InOrder /\ orders' = orders /\ pass' = "printed" /\ sponsors' = Sorted(sponsors)
    BY DEF EndPass
  <1>2. FirstTickets \cap Passed = FirstTickets
    BY <1>1, PassedOrders DEF FirstTickets, SponsorTickets
  <1>3. sponsors \in Seq(Company)
    BY DEF Numbers, Company
  <1>4. Arranges(sponsors', sponsors)
    BY <1>1, <1>3, SortedArranges
  <1>5. \A i, j \in DOMAIN sponsors : i < j => sponsors[i].key # sponsors[j].key
    BY DEF Found
  <1>6. DOMAIN sponsors' = DOMAIN sponsors
    BY <1>4 DEF Arranges
  <1>7. \A i, j \in DOMAIN sponsors : i < j => sponsors'[i].key # sponsors'[j].key
    BY <1>3, <1>4, <1>5, SortedKeepsKeysApart
  <1>8. {sponsors'[i] : i \in DOMAIN sponsors'} = {sponsors[i] : i \in DOMAIN sponsors}
    BY <1>4, <1>6 DEF Arranges
  <1>9. {sponsors[i] : i \in DOMAIN sponsors} = {TicketAt(x).company : x \in FirstTickets}
    BY <1>2 DEF Found
  <1>10. /\ \A x : TicketAt(x)' = TicketAt(x)
         /\ FirstTickets' = FirstTickets
    BY <1>1, SamePayload
  <1>11. {sponsors'[i] : i \in DOMAIN sponsors'} = {TicketAt(x)'.company : x \in FirstTickets'}
    BY <1>8, <1>9, <1>10
  <1>12. \A i, j \in DOMAIN sponsors' : i < j => sponsors'[i].rank <= sponsors'[j].rank
    BY <1>4, <1>6 DEF Arranges
  <1> QED
    BY <1>1, <1>6, <1>7, <1>11, <1>12 DEF Found, OneEntryPerSponsor

LEMMA FoundNext == Place /\ Numbers /\ Found /\ [Next]_vars => Found'
  <1> SUFFICES ASSUME Place, Numbers, Found, [Next]_vars PROVE Found'
    OBVIOUS
  <1>0. /\ \A x : TicketAt(x)' = TicketAt(x)
        /\ SponsorTickets' = SponsorTickets /\ FirstTickets' = FirstTickets
    <2>1. orders' = orders
      BY DEF Next, CountTicket, SponsorTicket, NextOrder, EndPass, vars
    <2> QED
      BY <2>1, SamePayload
  <1>1. ASSUME UNCHANGED <<pass, sponsors, seen>>, pass = "sponsors" => Passed' = Passed
        PROVE  Found'
    <2>1. OneEntryPerSponsor'
      BY <1>0, <1>1 DEF Found, OneEntryPerSponsor
    <2>2. CASE pass = "sponsors"
      BY <1>0, <1>1, <2>1, <2>2 DEF Found
    <2>3. CASE pass # "sponsors"
      BY <1>1, <2>1, <2>3 DEF Found
    <2> QED
      BY <2>2, <2>3
  <1>2. CASE CountTicket
    BY <1>1, <1>2 DEF CountTicket
  <1>3. CASE SponsorTicket
    BY <1>3, FoundTicket
  <1>4. CASE NextOrder
    BY <1>1, <1>4, PassedOrders DEF NextOrder
  <1>5. CASE EndPass
    <2>1. CASE pass = "tickets"
      <3>1. Passed' = {} /\ pass' = "sponsors" /\ sponsors' = <<>> /\ seen' = {}
        BY <1>5, <2>1, PassedOrders DEF EndPass, Found
      <3>2. DOMAIN sponsors' = {}
        BY <3>1
      <3>3. seen' = {TicketAt(x)'.company.key : x \in SponsorTickets' \cap Passed'}
        BY <3>1
      <3>4. {sponsors'[i] : i \in DOMAIN sponsors'} =
                {TicketAt(x)'.company : x \in FirstTickets' \cap Passed'}
        BY <3>1, <3>2
      <3> QED
        BY <3>1, <3>2, <3>3, <3>4 DEF Found, OneEntryPerSponsor
    <2>2. CASE pass = "sponsors"
      BY <1>5, <2>2, FoundSorted
    <2> QED
      BY <1>5, <2>1, <2>2 DEF EndPass, Place
  <1>6. CASE UNCHANGED vars
    <2>1. Passed' = Passed
      BY <1>6 DEF vars, Passed, AllTickets
    <2> QED
      BY <1>1, <1>6, <2>1 DEF vars
  <1> QED
    BY <1>2, <1>3, <1>4, <1>5, <1>6 DEF Next

\* sponsors.go:22-31: for every payload and any set of ticket types, the sorted
\* list has every company once, under the spelling of its first ticket.
THEOREM SponsorsAreDistinct == Spec => []OneEntryPerSponsor
  <1>1. Init => Found
    BY DEF Init, Found, OneEntryPerSponsor
  <1>2. Found => OneEntryPerSponsor
    BY DEF Found
  <1> QED
    BY <1>1, <1>2, PlaceInit, PlaceNext, NumbersInit, NumbersNext, FoundNext, PTL DEF Spec
=============================================================================
