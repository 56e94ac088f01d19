---------------------------- MODULE MCAggregate -----------------------------
(***************************************************************************)
(* Aggregate for TLC: payloads of up to three tickets in up to two orders, *)
(* made of tickets that differ in what the aggregation asks about.         *)
(***************************************************************************)
EXTENDS Aggregate, TLC

\* Strings that occur, trimmed, and trimmed and lower-cased.
MCTrim ==
    "Conference" :> "Conference" @@ "Hoodie Zip Black" :> "Hoodie Zip Black"
    @@ "Hoodie Zip Black " :> "Hoodie Zip Black" @@ "T-shirt Green" :> "T-shirt Green"
MCFold ==
    "" :> "" @@ "XL" :> "xl" @@ " xxl" :> "xxl" @@ "Large " :> "large"
    @@ "One size" :> "one size"

Zip(size) == <<"Hoodie Zip Black", size>>
Guest == [key |-> None, rank |-> 0]
Shirt(choices) == [tshirt |-> TRUE, choices |-> choices]
Other == [tshirt |-> FALSE, choices |-> <<"XL">>]

\* A conference ticket, and hoodies.
Plain(price, total, answers, pk, company) ==
    [label |-> <<"Conference", None>>, words |-> {"conference"}, price |-> price,
     total |-> total, answers |-> answers, pk |-> pk, company |-> company]
Hoodie(label, price, total) ==
    [label |-> label, words |-> {"hoodie", "zip"}, price |-> price, total |-> total,
     answers |-> <<>>, pk |-> 2, company |-> Guest]

Tickets ==
    {Hoodie(Zip("XL"), 500, 500), Hoodie(Zip(" xxl"), 500, 250), Hoodie(Zip("XL"), 500, 0),
     Hoodie(<<"Hoodie Zip Black ", "One size">>, 500, 500), Hoodie(Zip(None), Missing, 500),
     [Hoodie(<<"T-shirt Green", "XL">>, 250, 250) EXCEPT !.words = {"shirt"}],
     Plain(1000, 1000, <<Other, Shirt(<<"Large ">>)>>, 2, Guest),
     Plain(1000, 1000, <<Shirt(<<>>), Shirt(<<"XL">>)>>, 2, Guest),
     Plain(1000, Missing, <<>>, 2, Guest),
     Plain(0, 0, <<>>, 1, [key |-> 1, rank |-> 3]),
     Plain(0, 0, <<>>, 1, [key |-> 1, rank |-> 1]),
     Plain(0, 0, <<>>, 1, [key |-> 2, rank |-> 2]),
     Plain(0, 0, <<>>, 1, Guest)}

Lists(n) == UNION {[1 .. m -> Tickets] : m \in 0 .. n}

PaidOrders(n) == {[state |-> "PAID", vatExempt |-> FALSE, vatRate |-> 25, tickets |-> l] : l \in Lists(n)}
ExemptOrders(n) == {[state |-> "CANCELLED", vatExempt |-> TRUE, vatRate |-> 25, tickets |-> l] : l \in Lists(n)}

\* An order without a VAT rate.
NoRateOrders(n) == {[x EXCEPT !.vatRate = Missing] : x \in PaidOrders(n) \cup ExemptOrders(n)}

MCPayloads ==
    {<<>>} \cup {<<a>> : a \in PaidOrders(3)}
    \cup {<<a, b>> : a \in PaidOrders(1), b \in ExemptOrders(2)}
    \cup {<<a, b>> : a \in PaidOrders(1), b \in PaidOrders(1)}
    \cup {<<a, b>> : a \in NoRateOrders(1), b \in PaidOrders(1)}
=============================================================================
