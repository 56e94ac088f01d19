------------------------------- MODULE Orders -------------------------------
(***************************************************************************)
(* The part of a TicketButler orders payload (internal/ticketbutler/       *)
(* types.go) that the aggregation looks at.  A ticket type name is a label *)
(* and the lower-case words that occur in it; its label is the text before *)
(* and the text after the last " - ".  A company name is the key that is   *)
(* left when it is trimmed and lower-cased, and its place in the order of  *)
(* lower-cased names.  A price is a number of øre, or Missing: "" or null. *)
(* A VAT rate is in per cent, or Missing: the order has none (a null is 0  *)
(* to both programs).                                                      *)
(***************************************************************************)
EXTENDS Integers, Sequences, FiniteSets

CONSTANTS
    Payloads,  \* the payloads there may be: sequences of orders
    Missing,   \* a price that is empty or null; no VAT rate
    None,      \* no " - " in a name; no company
    Trim,      \* Trim[x]: the string x trimmed
    Fold       \* Fold[x]: the string x trimmed and lower-cased

\* Answer: whether the trimmed heading is "T-Shirt Size", and the choices made.
Answer == [tshirt : BOOLEAN, choices : Seq(DOMAIN Fold)]

\* Ticket, with a missing AnswerCollection as no answers.
Ticket ==
    [label : (DOMAIN Trim) \X (DOMAIN Fold \cup {None}), words : SUBSET STRING,
     price : Nat \cup {Missing}, total : Nat \cup {Missing},
     answers : Seq(Answer), pk : Nat, company : [key : Nat \cup {None}, rank : Nat]]

Order == [state : STRING, vatExempt : BOOLEAN, vatRate : Nat \cup {Missing},
          tickets : Seq(Ticket)]

ASSUME PayloadsAssumption ==
    /\ Payloads \subseteq Seq(Order)
    /\ Missing \notin Nat
    /\ None \notin Nat
    /\ "" \in DOMAIN Fold /\ Fold[""] = ""

\* The two groups that are not the name of a ticket type.
GroupFree == <<"Sponsors and other free tickets", None>>
GroupDiscounted == <<"Discounted", None>>

\* The sizes that are counted, none of them yet.
Sizes == {"small", "medium", "large", "xl", "2xl", "3xl"}
NoSizes == [s \in Sizes |-> 0]

\* A map with key set to value, and what it holds for key.
Put(map, key, value) ==
    [x \in DOMAIN map \cup {key} |-> IF x = key THEN value ELSE map[x]]
At(map, key, zero) == IF key \in DOMAIN map THEN map[key] ELSE zero

EmptyMap == [x \in {} |-> 0]

\* list in the order of its lower-cased names.
Sorted(list) ==
    CHOOSE s \in [DOMAIN list -> {list[i] : i \in DOMAIN list}] :
        /\ \A i, j \in DOMAIN list : i < j => s[i].rank <= s[j].rank
        /\ \A i \in DOMAIN list : \E j \in DOMAIN list : s[j] = list[i]
=============================================================================
