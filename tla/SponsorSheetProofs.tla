------------------------- MODULE SponsorSheetProofs -------------------------
(***************************************************************************)
(* Proofs about SponsorSheet, for any number of sponsors, of executions    *)
(* that overlap and of executions that are ended from outside.             *)
(***************************************************************************)
EXTENDS SponsorSheet, SequenceTheorems, FiniteSetTheorems, TLAPS

\* The steps of an execution that are about one row.
RowSteps == {"setFree", "setDiscount", "createFree", "createDiscount", "mail", "date"}

\* An execution that is about a row is about one it has read.
Bounds ==
    \A e \in Execs :
        /\ pc[e] = "append" => todo[e] # <<>>
        /\ pc[e] \in RowSteps \cup {"row"} => i[e] >= 1
        /\ pc[e] \in RowSteps => i[e] <= Len(values[e])

Typed ==
    /\ TypeOK
    /\ todo \in [Execs -> Seq(Companies)]
    /\ values \in [Execs -> Seq(Row)]
    /\ i \in [Execs -> Nat]
    /\ Bounds

\* The part of Typed that is about executions.
ExecTyped ==
    /\ job \in [Execs -> Jobs \cup {"none"}]
    /\ pc \in [Execs -> Steps]
    /\ todo \in [Execs -> Seq(Companies)]
    /\ values \in [Execs -> Seq(Row)]
    /\ i \in [Execs -> Nat]
    /\ Bounds

LEMMA ListsAreSequences == SponsorLists \subseteq Seq(Companies)
  <1> SUFFICES ASSUME NEW list \in SponsorLists PROVE list \in Seq(Companies)
    OBVIOUS
  <1>1. PICK n \in 0 .. NumCompanies : list \in [1 .. n -> Companies]
    BY DEF SponsorLists
  <1>2. n \in Nat
    BY SheetAssumption
  <1> QED
    BY <1>1, <1>2, SeqDef

\* What an execution does about itself keeps to the types.
LEMMA EndTyped == ASSUME ExecTyped, NEW e \in Execs, End(e) PROVE ExecTyped'
  BY EmptySeq DEF ExecTyped, Bounds, End, Goto, Steps, RowSteps, Jobs

LEMMA ContinueTyped ==
    ASSUME ExecTyped, NEW e \in Execs, Continue(e), i[e] >= 1 PROVE ExecTyped'
  BY DEF ExecTyped, Bounds, Continue, Goto, Steps, RowSteps, Jobs

LEMMA GotoTyped ==
    ASSUME ExecTyped, NEW e \in Execs, NEW l \in Steps \ {"append"}, Goto(e, l),
           l \in RowSteps => i[e] \in 1 .. Len(values[e]),
           l = "row" => i[e] >= 1, UNCHANGED <<job, todo, values, i>>
    PROVE  ExecTyped'
  BY DEF ExecTyped, Bounds, Goto

LEMMA ExecTypedNext == Typed /\ [Next]_vars => ExecTyped'
  <1> SUFFICES ASSUME Typed, [Next]_vars PROVE ExecTyped'
    OBVIOUS
  <1>0. ExecTyped /\ rows \in Seq(Row)
    BY DEF Typed, TypeOK, ExecTyped
  <1>a. \A e \in Execs : pc[e] \in RowSteps => i[e] \in 1 .. Len(values[e])
    BY <1>0, LenProperties DEF ExecTyped, Bounds
  <1>1. CASE UNCHANGED vars
    BY <1>0, <1>1 DEF vars, execVars, ExecTyped, Bounds
  <1>2. ASSUME NEW e \in Execs, Begin(e) PROVE ExecTyped'
    <2>1. PICK j \in Jobs : job' = [job EXCEPT ![e] = j]
      BY <1>2 DEF Begin
    <2>2. todo' \in [Execs -> Seq(Companies)] /\ \A f \in Execs : f # e => todo'[f] = todo[f]
      BY <1>0, <1>2, ListsAreSequences DEF Begin, ExecTyped
    <2>3. \E l \in {"find", "read"} : Goto(e, l)
      BY <1>2 DEF Begin
    <2>4. values' = values /\ i' = i
      BY <1>2 DEF Begin
    <2> QED
      BY <1>0, <2>1, <2>2, <2>3, <2>4 DEF ExecTyped, Bounds, Goto, Steps, RowSteps
  <1>3. ASSUME NEW e \in Execs, FindCompany(e) PROVE ExecTyped'
    <2>1. todo[e] # <<>> => Tail(todo[e]) \in Seq(Companies)
      BY <1>0, HeadTailProperties DEF ExecTyped
    <2> QED
      BY <1>0, <1>3, <2>1 DEF FindCompany, ExecTyped, Bounds, Goto, Steps, RowSteps
  <1>4. ASSUME NEW e \in Execs, AppendRow(e) PROVE ExecTyped'
    <2>1. Tail(todo[e]) \in Seq(Companies)
      BY <1>0, <1>4, HeadTailProperties DEF ExecTyped, Bounds, AppendRow
    <2> QED
      BY <1>0, <1>4, <2>1 DEF AppendRow, ExecTyped, Bounds, Goto, Steps, RowSteps
  <1>5. ASSUME NEW e \in Execs, ReadSheet(e) PROVE ExecTyped'
    BY <1>0, <1>5 DEF ReadSheet, ExecTyped, Bounds, Goto, Steps, RowSteps
  <1>6. ASSUME NEW e \in Execs, NoDraft(e) \/ MailFails(e) \/ Kill(e) PROVE ExecTyped'
    BY <1>0, <1>6, EndTyped DEF NoDraft, MailFails, Kill
  <1>7. ASSUME NEW e \in Execs, TakeRow(e) PROVE ExecTyped'
    <2>1. pc[e] = "row" /\ i[e] >= 1 /\ i[e] \in Nat
      BY <1>0, <1>7 DEF TakeRow, ExecTyped, Bounds
    <2>2. CASE End(e) \/ Continue(e)
      BY <1>0, <2>1, <2>2, EndTyped, ContinueTyped
    <2>3. ASSUME NEW l \in {"setFree", "createFree"}, Goto(e, l),
                 i[e] <= Len(values[e]), UNCHANGED <<job, todo, values, i>>
          PROVE  ExecTyped'
      <3>1. i[e] \in 1 .. Len(values[e])
        BY <1>0, <2>1, <2>3, LenProperties DEF ExecTyped
      <3> QED
        BY <1>0, <2>3, <3>1, GotoTyped DEF Steps, RowSteps
    <2> QED
      BY <1>7, <2>2, <2>3 DEF TakeRow
  <1>8. ASSUME NEW e \in Execs,
               SetFreeCode(e) \/ SetDiscountCode(e) \/ SendMail(e)
        PROVE  ExecTyped'
    <2>1. i[e] \in 1 .. Len(values[e])
      BY <1>a, <1>8 DEF SetFreeCode, SetDiscountCode, SendMail, RowSteps
    <2>2. \E l \in {"setDiscount", "createFree", "date"} :
              Goto(e, l) /\ UNCHANGED <<job, todo, values, i>>
      BY <1>8 DEF SetFreeCode, SetDiscountCode, SendMail
    <2> QED
      BY <1>0, <2>1, <2>2, GotoTyped DEF Steps, RowSteps
  <1>9. ASSUME NEW e \in Execs, NEW kind \in {"free", "discount"},
               CreateCode(e, kind) \/ CreateFails(e, kind)
        PROVE  ExecTyped'
    <2>1. i[e] \in 1 .. Len(values[e]) /\ i[e] >= 1
      BY <1>a, <1>9 DEF CreateCode, CodeCreated, CreateFails, CodeStep, RowSteps
    <2>2. \/ End(e) \/ Continue(e)
          \/ \E l \in {"createDiscount", "mail"} :
                 Goto(e, l) /\ UNCHANGED <<job, todo, values, i>>
      BY <1>9 DEF CreateCode, CodeCreated, CreateFails
    <2> QED
      BY <1>0, <2>1, <2>2, EndTyped, ContinueTyped, GotoTyped DEF Steps, RowSteps
  <1>10. ASSUME NEW e \in Execs, SetDate(e) PROVE ExecTyped'
    <2>1. i[e] >= 1
      BY <1>a, <1>10 DEF SetDate, RowSteps
    <2> QED
      BY <1>0, <1>10, <2>1, ContinueTyped DEF SetDate
  <1> QED
    BY <1>1, <1>2, <1>3, <1>4, <1>5, <1>6, <1>7, <1>8, <1>9, <1>10 DEF Next, Step

\* The sheet only grows, at its end; no row changes its company or its kind; no
\* mail is taken back and no code goes away.
Grows ==
    /\ rows' \in Seq(Row) /\ mails' \in Seq(Nat) /\ Len(mails') = Len(rows')
    /\ Len(rows') >= Len(rows)
    /\ \A r \in 1 .. Len(rows) : /\ rows'[r].company = rows[r].company
                                 /\ rows'[r].paid = rows[r].paid
                                 /\ mails'[r] >= mails[r]
    /\ \A r \in 1 .. Len(rows') : r > Len(rows) => ~rows'[r].sent /\ mails'[r] = 0
    /\ codes \subseteq codes' /\ refused \subseteq refused'
    /\ Answered' \subseteq (Companies \cup Paid) \X {"free", "discount"}

\* Columns D, E and F of a row.
LEMMA CellTyped ==
    ASSUME rows \in Seq(Row), NEW r \in 1 .. Len(rows), NEW new \in Row,
           new.company = rows[r].company, new.paid = rows[r].paid,
           rows' = [rows EXCEPT ![r] = new]
    PROVE  /\ rows' \in Seq(Row) /\ Len(rows') = Len(rows)
           /\ \A q \in 1 .. Len(rows) : /\ rows'[q].company = rows[q].company
                                        /\ rows'[q].paid = rows[q].paid
                                        /\ q # r => rows'[q] = rows[q]
           /\ rows'[r] = new
  <1>1. /\ rows' \in Seq(Row) /\ Len(rows') = Len(rows)
        /\ \A q \in 1 .. Len(rows) : rows'[q] = IF q = r THEN new ELSE rows[q]
    BY ExceptSeq
  <1> QED
    BY <1>1

LEMMA Growth == Typed /\ [Next]_vars => Grows
  <1> SUFFICES ASSUME Typed, [Next]_vars PROVE Grows
    OBVIOUS
  <1>0. /\ rows \in Seq(Row) /\ mails \in Seq(Nat) /\ Len(mails) = Len(rows)
        /\ Len(rows) \in Nat
        /\ Answered \subseteq (Companies \cup Paid) \X {"free", "discount"}
    BY LenProperties DEF Typed, TypeOK
  <1>m. \A r \in 1 .. Len(rows) : mails[r] \in Nat /\ rows[r] \in Row
    BY <1>0, ElementOfSeq
  <1>a. \A e \in Execs : pc[e] \in RowSteps =>
            /\ i[e] \in 1 .. Len(rows) /\ i[e] \in 1 .. Len(values[e])
            /\ values[e][i[e]] \in Row
    <2> SUFFICES ASSUME NEW e \in Execs, pc[e] \in RowSteps
                 PROVE  /\ i[e] \in 1 .. Len(rows) /\ i[e] \in 1 .. Len(values[e])
                        /\ values[e][i[e]] \in Row
      OBVIOUS
    <2>1. /\ values[e] \in Seq(Row) /\ i[e] \in Nat /\ i[e] >= 1
          /\ i[e] <= Len(values[e]) /\ Len(values[e]) <= Len(rows)
      BY DEF Typed, TypeOK, Bounds
    <2>2. Len(values[e]) \in Nat
      BY <2>1, LenProperties
    <2> QED
      BY <1>0, <2>1, <2>2, ElementOfSeq
  <1>1. CASE UNCHANGED <<sheetVars, codeVars>>
    BY <1>0, <1>1, <1>m DEF sheetVars, codeVars, Answered, Grows
  <1>2. ASSUME NEW e \in Execs, AppendRow(e) PROVE Grows
    <2>1. Head(todo[e]) \in Companies
      BY <1>2, HeadTailProperties DEF Typed, Bounds, AppendRow
    <2>2. PICK email \in BOOLEAN :
              rows' = Append(rows, [company |-> Head(todo[e]), email |-> email,
                                    paid |-> FALSE, freeCode |-> TRUE,
                                    discountCode |-> FALSE, sent |-> FALSE])
      BY <1>2 DEF AppendRow
    <2> DEFINE new == [company |-> Head(todo[e]), email |-> email, paid |-> FALSE,
                       freeCode |-> TRUE, discountCode |-> FALSE, sent |-> FALSE]
    <2>3. new \in Row /\ ~new.sent
      BY <2>1 DEF Row
    <2>4. rows' = Append(rows, new)
      BY <2>2
    <2> HIDE DEF new
    <2>5. /\ rows' \in Seq(Row) /\ Len(rows') = Len(rows) + 1
          /\ \A r \in 1 .. Len(rows) : rows'[r] = rows[r]
          /\ rows'[Len(rows) + 1] = new
      BY <1>0, <2>3, <2>4, AppendProperties
    <2>6. /\ mails' \in Seq(Nat) /\ Len(mails') = Len(mails) + 1
          /\ \A r \in 1 .. Len(mails) : mails'[r] = mails[r]
          /\ mails'[Len(mails) + 1] = 0
      <3>1. mails' = Append(mails, 0)
        BY <1>2 DEF AppendRow
      <3> QED
        BY <1>0, <3>1, AppendProperties
    <2>7. codes' = codes /\ refused' = refused
      BY <1>2 DEF AppendRow, codeVars
    <2>8. \A r \in 1 .. Len(rows') : r > Len(rows) => r = Len(rows) + 1
      BY <1>0, <2>5
    <2>9. \A r \in 1 .. Len(rows) : /\ rows'[r].company = rows[r].company
                                     /\ rows'[r].paid = rows[r].paid
                                     /\ mails'[r] >= mails[r]
      BY <1>0, <1>m, <2>5, <2>6
    <2>10. \A r \in 1 .. Len(rows') : r > Len(rows) => ~rows'[r].sent /\ mails'[r] = 0
      BY <1>0, <2>3, <2>5, <2>6, <2>8
    <2> QED
      BY <1>0, <2>5, <2>6, <2>7, <2>9, <2>10 DEF Answered, Grows
  <1>3. ASSUME NEW e \in Execs, SetFreeCode(e) \/ SetDiscountCode(e) \/ SetDate(e)
        PROVE  Grows
    <2>1. i[e] \in 1 .. Len(rows) /\ rows[i[e]] \in Row /\ values[e][i[e]] \in Row
      BY <1>a, <1>m, <1>3 DEF SetFreeCode, SetDiscountCode, SetDate, RowSteps
    <2>2. PICK new \in Row : /\ new.company = rows[i[e]].company
                             /\ new.paid = rows[i[e]].paid
                             /\ rows' = [rows EXCEPT ![i[e]] = new]
      <3>1. CASE SetFreeCode(e)
        <4>1. rows' = [rows EXCEPT ![i[e]] =
                 [rows[i[e]] EXCEPT !.freeCode = @ \/ ~values[e][i[e]].freeCode]]
          BY <3>1 DEF SetFreeCode
        <4> QED
          BY <2>1, <4>1 DEF Row
      <3>2. CASE SetDiscountCode(e)
        <4>1. rows' = [rows EXCEPT ![i[e]] =
                 [rows[i[e]] EXCEPT !.discountCode = @ \/ ~values[e][i[e]].discountCode]]
          BY <3>2 DEF SetDiscountCode
        <4> QED
          BY <2>1, <4>1 DEF Row
      <3>3. CASE SetDate(e)
        <4>1. rows' = [rows EXCEPT ![i[e]] = [rows[i[e]] EXCEPT !.sent = TRUE]]
          BY <3>3 DEF SetDate
        <4> QED
          BY <2>1, <4>1 DEF Row
      <3> QED
        BY <1>3, <3>1, <3>2, <3>3
    <2>3. mails' = mails /\ codes' = codes /\ refused' = refused
      BY <1>3 DEF SetFreeCode, SetDiscountCode, SetDate, codeVars
    <2> QED
      BY <1>0, <1>m, <2>1, <2>2, <2>3, CellTyped DEF Answered, Grows
  <1>4. ASSUME NEW e \in Execs, NEW kind \in {"free", "discount"},
               CreateCode(e, kind) \/ CreateFails(e, kind)
        PROVE  Grows
    <2>1. values[e][i[e]] \in Row
      BY <1>a, <1>4 DEF CreateCode, CodeCreated, CreateFails, CodeStep, RowSteps
    <2>2. CodeOf(e, kind) \in (Companies \cup Paid) \X {"free", "discount"}
      BY <2>1 DEF CodeOf, Row
    <2>3. /\ codes' \in {codes, codes \cup {CodeOf(e, kind)}}
          /\ refused' \in {refused, refused \cup {CodeOf(e, kind)}}
          /\ rows' = rows /\ mails' = mails
      BY <1>4 DEF CreateCode, CodeCreated, CreateFails, sheetVars
    <2> QED
      BY <1>0, <1>m, <2>2, <2>3 DEF Answered, Grows
  <1>5. ASSUME NEW e \in Execs, SendMail(e) PROVE Grows
    <2>1. i[e] \in 1 .. Len(mails) /\ mails[i[e]] \in Nat
      BY <1>0, <1>a, <1>m, <1>5 DEF SendMail, RowSteps
    <2>2. /\ mails' = [mails EXCEPT ![i[e]] = mails[i[e]] + 1] /\ rows' = rows
          /\ codes' = codes /\ refused' = refused
      BY <1>5 DEF SendMail, codeVars
    <2>3. /\ mails' \in Seq(Nat) /\ Len(mails') = Len(mails)
          /\ \A r \in 1 .. Len(mails) :
                 mails'[r] = IF r = i[e] THEN mails[i[e]] + 1 ELSE mails[r]
      BY <1>0, <2>1, <2>2, ExceptSeq
    <2> QED
      BY <1>0, <1>m, <2>1, <2>2, <2>3 DEF Answered, Grows
  <1> QED
    BY <1>1, <1>2, <1>3, <1>4, <1>5
    DEF Next, Step, vars, Begin, FindCompany, ReadSheet, NoDraft, TakeRow, MailFails, Kill

LEMMA SameRange == ASSUME NEW m \in Nat, NEW n \in Nat, 1 .. m = 1 .. n PROVE m = n
  <1>1. m <= n
    <2>1. m = 0 \/ m \in 1 .. m
      OBVIOUS
    <2>2. m = 0 \/ m \in 1 .. n
      BY <2>1
    <2> QED
      BY <2>2
  <1>2. n <= m
    <2>1. n = 0 \/ n \in 1 .. n
      OBVIOUS
    <2>2. n = 0 \/ n \in 1 .. m
      BY <2>1
    <2> QED
      BY <2>2
  <1> QED
    BY <1>1, <1>2

LEMMA TypedInit == Init => Typed
  <1> SUFFICES ASSUME Init PROVE Typed
    OBVIOUS
  <1>1. rows \in Seq(Row)
    <2>1. CASE rows = <<>>
      BY <2>1, EmptySeq
    <2>2. ASSUME NEW c \in Paid, NEW email \in BOOLEAN, NEW filled \in BOOLEAN,
                 rows = <<PaidRow(c, email, filled)>>
          PROVE  rows \in Seq(Row)
      <3>1. PaidRow(c, email, filled) \in Row
        BY DEF PaidRow, Row
      <3> QED
        BY <2>2, <3>1
    <2> QED
      BY <2>1, <2>2 DEF Init
  <1>2. Len(rows) \in Nat /\ DOMAIN rows = 1 .. Len(rows)
    BY <1>1, LenProperties
  <1>3. mails \in [1 .. Len(rows) -> Nat]
    BY <1>2 DEF Init
  <1>4. mails \in Seq(Nat)
    BY <1>2, <1>3, SeqDef
  <1>5. Len(mails) = Len(rows)
    <2>1. Len(mails) \in Nat /\ DOMAIN mails = 1 .. Len(mails)
      BY <1>4, LenProperties
    <2>2. 1 .. Len(mails) = 1 .. Len(rows)
      BY <1>3, <2>1
    <2> QED
      BY <1>2, <2>1, <2>2, SameRange
  <1>6. /\ todo \in [Execs -> Seq(Companies)] /\ values \in [Execs -> Seq(Row)]
        /\ i \in [Execs -> Nat] /\ \A e \in Execs : Len(values[e]) <= Len(rows)
    BY <1>2, EmptySeq DEF Init
  <1>7. Bounds
    BY DEF Init, Bounds, RowSteps
  <1>8. Answered = {}
    BY DEF Init, Answered
  <1> QED
    BY <1>1, <1>4, <1>5, <1>6, <1>7, <1>8 DEF Typed, TypeOK, Init, Jobs, Steps

LEMMA TypedNext == Typed /\ [Next]_vars => Typed'
  <1> SUFFICES ASSUME Typed, [Next]_vars PROVE Typed'
    OBVIOUS
  <1>1. ExecTyped' /\ Grows
    BY ExecTypedNext, Growth
  <1>2. ASSUME NEW e \in Execs PROVE Len(values'[e]) <= Len(rows')
    <2>0. /\ Len(rows) \in Nat /\ Len(rows') \in Nat /\ Len(rows') >= Len(rows)
          /\ Len(values[e]) \in Nat /\ Len(values[e]) <= Len(rows)
      BY <1>1, LenProperties DEF Typed, TypeOK, Grows
    <2>1. \/ values'[e] = values[e]
          \/ values'[e] = rows
          \/ values'[e] = <<>>
      BY DEF Next, Step, vars, execVars, Begin, FindCompany, AppendRow, ReadSheet, NoDraft, TakeRow,
             SetFreeCode, SetDiscountCode, CreateCode, CodeCreated, CreateFails, SendMail, MailFails,
             SetDate, Kill, End, Continue, Typed
    <2> QED
      BY <2>0, <2>1, EmptySeq
  <1> QED
    BY <1>1, <1>2 DEF Typed, TypeOK, ExecTyped, Grows

\* Every variable keeps to its type; in particular no execution ever goes beyond
\* the sheet or beyond what it read of it, however many overlap.
THEOREM TypeCorrect == Spec => []TypeOK
  <1>1. Typed => TypeOK
    BY DEF Typed
  <1> QED
    BY <1>1, TypedInit, TypedNext, PTL DEF Spec

\* The scripts write by row number (setValue on row i + 1 of a sheet that was read
\* earlier): whatever overlaps and is interrupted, a number stays with its company,
\* rows only come at the end, no mail is forgotten and no code withdrawn.
THEOREM RowNumbersStay == Spec => [][Grows]_vars
  <1>1. Typed /\ [Next]_vars => [Grows]_vars
    BY Growth
  <1> QED
    BY <1>1, TypedInit, TypedNext, PTL DEF Spec

-----------------------------------------------------------------------------
(* Mails, dates and codes.                                                 *)

\* What an execution read of a row still tells its company and its kind.
Remembered ==
    \A e \in Execs : \A r \in 1 .. Len(values[e]) :
        /\ values[e][r].company = rows[r].company
        /\ values[e][r].paid = rows[r].paid

\* What is done by the time an execution gets to a step: a mail is due to a row
\* that was wanted and whose codes were answered for, and a date to a mailed one.
Prepared(e) ==
    /\ pc[e] \in RowSteps => Wanted(job[e], values[e][i[e]])
    /\ pc[e] = "createDiscount" => /\ job[e] # "processCommunitySponsors"
                                   /\ CodeOf(e, "free") \in Answered
    /\ pc[e] \in {"mail", "date"} =>
          /\ CodeOf(e, "free") \in Answered
          /\ values[e][i[e]].paid => CodeOf(e, "discount") \in Answered
          /\ ~values[e][i[e]].sent
    /\ pc[e] = "date" => mails[i[e]] > 0

Work == Remembered /\ \A e \in Execs : Prepared(e)

\* A step is about the variables of its own execution.
LEMMA OthersKept ==
    ASSUME Typed, NEW e \in Execs, Step(e), NEW f \in Execs, f # e
    PROVE  /\ pc'[f] = pc[f] /\ job'[f] = job[f] /\ todo'[f] = todo[f]
           /\ values'[f] = values[f] /\ i'[f] = i[f]
  BY DEF Typed, TypeOK, Step, Begin, FindCompany, AppendRow, ReadSheet, NoDraft, TakeRow,
         SetFreeCode, SetDiscountCode, CreateCode, CodeCreated, CreateFails, SendMail, MailFails,
         SetDate, Kill, End, Continue, Goto

LEMMA RememberedNext == Typed /\ Remembered /\ [Next]_vars => Remembered'
  <1> SUFFICES ASSUME Typed, Remembered, [Next]_vars, NEW e \in Execs,
                      NEW r \in 1 .. Len(values'[e])
               PROVE  /\ values'[e][r].company = rows'[r].company
                      /\ values'[e][r].paid = rows'[r].paid
    BY DEF Remembered
  <1>0. Grows /\ Len(rows) \in Nat /\ Len(values[e]) \in Nat /\ Len(values[e]) <= Len(rows)
    BY Growth, LenProperties DEF Typed, TypeOK
  <1>1. \/ values'[e] = values[e]
        \/ values'[e] = rows
        \/ values'[e] = <<>>
    BY DEF Next, Step, vars, execVars, Begin, FindCompany, AppendRow, ReadSheet, NoDraft, TakeRow,
           SetFreeCode, SetDiscountCode, CreateCode, CodeCreated, CreateFails, SendMail, MailFails,
           SetDate, Kill, End, Continue, Typed
  <1>2. CASE values'[e] = values[e]
    BY <1>0, <1>2 DEF Remembered, Grows
  <1>3. CASE values'[e] = rows
    BY <1>0, <1>3 DEF Grows
  <1>4. CASE values'[e] = <<>>
    BY <1>4, EmptySeq
  <1> QED
    BY <1>1, <1>2, <1>3, <1>4

\* An execution that only waits loses nothing of what was done for it.
LEMMA PreparedKept ==
    ASSUME Grows, Typed, NEW e \in Execs, Prepared(e), pc'[e] = pc[e], job'[e] = job[e],
           values'[e] = values[e], i'[e] = i[e]
    PROVE  Prepared(e)'
  <1>1. Answered \subseteq Answered'
    BY DEF Grows, Answered
  <1>2. pc[e] = "date" /\ mails[i[e]] > 0 => mails'[i[e]] > 0
    <2> SUFFICES ASSUME pc[e] = "date", mails[i[e]] > 0 PROVE mails'[i[e]] > 0
      OBVIOUS
    <2>1. /\ i[e] \in Nat /\ i[e] >= 1 /\ i[e] <= Len(values[e]) /\ Len(values[e]) \in Nat
          /\ Len(values[e]) <= Len(rows) /\ Len(rows) \in Nat
      BY LenProperties DEF Typed, TypeOK, Bounds, RowSteps
    <2>2. i[e] \in 1 .. Len(rows) /\ i[e] \in 1 .. Len(mails) /\ i[e] \in 1 .. Len(mails')
      BY <2>1, LenProperties DEF Typed, TypeOK, Grows
    <2>3. mails[i[e]] \in Nat /\ mails'[i[e]] \in Nat
      BY <2>2, ElementOfSeq DEF Typed, TypeOK, Grows
    <2> QED
      BY <2>2, <2>3 DEF Grows
  <1> QED
    BY <1>1, <1>2 DEF Prepared, CodeOf

LEMMA PreparedNext ==
    ASSUME Typed, NEW e \in Execs, Prepared(e), Step(e)
    PROVE  Prepared(e)'
  <1> USE DEF Typed, TypeOK, Prepared, RowSteps, Goto, Steps
  <1>1. CASE Begin(e) \/ FindCompany(e) \/ AppendRow(e) \/ ReadSheet(e)
    <2>1. pc'[e] \in {"find", "append", "read", "row"}
      BY <1>1 DEF Begin, FindCompany, AppendRow, ReadSheet
    <2> QED
      BY <2>1
  <1>2. CASE NoDraft(e) \/ MailFails(e) \/ Kill(e) \/ SetDate(e)
    <2>1. pc'[e] \in {"idle", "row"}
      BY <1>2 DEF NoDraft, MailFails, Kill, SetDate, End, Continue
    <2> QED
      BY <2>1
  <1>3. CASE TakeRow(e)
    <2>1. CASE pc'[e] \in {"idle", "row"}
      BY <2>1
    <2>2. CASE /\ Wanted(job[e], values[e][i[e]])
               /\ Goto(e, IF job[e] = "processPaidSponsors" THEN "setFree" ELSE "createFree")
               /\ UNCHANGED <<job, todo, values, i>>
      <3>1. pc'[e] \in {"setFree", "createFree"}
        BY <2>2
      <3> QED
        BY <2>2, <3>1
    <2> QED
      BY <1>3, <2>1, <2>2 DEF TakeRow, End, Continue
  <1>4. CASE SetFreeCode(e) \/ SetDiscountCode(e)
    <2>1. /\ pc[e] \in RowSteps /\ pc'[e] \in {"setDiscount", "createFree"}
          /\ job' = job /\ values' = values /\ i' = i
      BY <1>4 DEF SetFreeCode, SetDiscountCode
    <2> QED
      BY <2>1
  <1>5. ASSUME NEW kind \in {"free", "discount"}, CreateCode(e, kind) PROVE Prepared(e)'
    <2>1. CASE Continue(e)
      BY <2>1 DEF Continue
    <2>2. CASE ~Continue(e)
      <3>1. job' = job /\ values' = values /\ i' = i /\ Answered' = Answered \cup {CodeOf(e, kind)}
        BY <1>5, <2>2 DEF CreateCode, CodeCreated, Answered
      <3>2. Wanted(job[e], values[e][i[e]])
        BY <1>5 DEF CreateCode, CodeStep
      <3>3. CASE kind = "free" /\ job[e] # "processCommunitySponsors"
        <4>1. pc'[e] = "createDiscount"
          BY <1>5, <2>2, <3>3 DEF CreateCode, CodeCreated
        <4> QED
          BY <3>1, <3>2, <3>3, <4>1 DEF CodeOf
      <3>4. CASE kind = "free" /\ job[e] = "processCommunitySponsors"
        <4>1. pc'[e] = "mail" /\ ~values[e][i[e]].paid /\ ~values[e][i[e]].sent
          BY <1>5, <2>2, <3>2, <3>4 DEF CreateCode, CodeCreated, Wanted
        <4> QED
          BY <3>1, <3>2, <3>4, <4>1 DEF CodeOf
      <3>5. CASE kind = "discount"
        <4>1. pc'[e] = "mail" /\ CodeOf(e, "free") \in Answered /\ job[e] = "sendPaidSponsorCodes"
          BY <1>5, <2>2, <3>5 DEF CreateCode, CodeCreated, CodeStep
        <4>2. ~values[e][i[e]].sent
          BY <3>2, <4>1 DEF Wanted
        <4> QED
          BY <3>1, <3>2, <3>5, <4>1, <4>2 DEF CodeOf
      <3> QED
        BY <3>3, <3>4, <3>5
    <2> QED
      BY <2>1, <2>2
  <1>6. ASSUME NEW kind \in {"free", "discount"}, CreateFails(e, kind) PROVE Prepared(e)'
    <2>1. pc'[e] \in {"idle", "row"}
      BY <1>6 DEF CreateFails, End, Continue
    <2> QED
      BY <2>1
  <1>7. CASE SendMail(e)
    <2>1. /\ pc[e] = "mail" /\ pc'[e] = "date" /\ Answered' = Answered
          /\ job' = job /\ values' = values /\ i' = i
      BY <1>7 DEF SendMail, codeVars, Answered
    <2>2. /\ i[e] \in Nat /\ i[e] >= 1 /\ i[e] <= Len(values[e]) /\ Len(values[e]) \in Nat
          /\ Len(values[e]) <= Len(rows) /\ Len(rows) \in Nat
      BY <2>1, LenProperties DEF Bounds
    <2>3. i[e] \in 1 .. Len(mails)
      BY <2>2
    <2>4. mails[i[e]] \in Nat /\ DOMAIN mails = 1 .. Len(mails)
      BY <2>3, ElementOfSeq, LenProperties
    <2>5. mails'[i[e]] = mails[i[e]] + 1
      BY <1>7, <2>3, <2>4 DEF SendMail
    <2> QED
      BY <2>1, <2>4, <2>5 DEF CodeOf
  <1> QED
    BY <1>1, <1>2, <1>3, <1>4, <1>5, <1>6, <1>7 DEF Step

LEMMA WorkNext == Typed /\ Work /\ [Next]_vars => Work'
  <1> SUFFICES ASSUME Typed, Work, [Next]_vars PROVE Work'
    OBVIOUS
  <1>1. Remembered'
    BY RememberedNext DEF Work
  <1>2. ASSUME NEW e \in Execs PROVE Prepared(e)'
    <2>1. Grows /\ Prepared(e)
      BY Growth DEF Work
    <2>2. CASE Step(e)
      BY <2>1, <2>2, PreparedNext
    <2>3. CASE ~Step(e)
      <3>1. /\ pc'[e] = pc[e] /\ job'[e] = job[e]
            /\ values'[e] = values[e] /\ i'[e] = i[e]
        BY <2>3, OthersKept DEF Next, vars, execVars
      <3> QED
        BY <2>1, <3>1, PreparedKept
    <2> QED
      BY <2>2, <2>3
  <1> QED
    BY <1>1, <1>2 DEF Work

LEMMA WorkInit == Init => Work
  <1> SUFFICES ASSUME Init PROVE Work
    OBVIOUS
  <1>1. \A e \in Execs : Len(values[e]) = 0
    BY EmptySeq DEF Init
  <1>2. Remembered
    BY <1>1 DEF Remembered
  <1> QED
    BY <1>2 DEF Init, Work, Prepared, RowSteps

\* Only SetDate dates a row.
LEMMA DatedBy ==
    ASSUME Typed, [Next]_vars, NEW r \in 1 .. Len(rows), rows'[r].sent # rows[r].sent
    PROVE  \E e \in Execs : SetDate(e) /\ i[e] = r
  <1>0. /\ rows \in Seq(Row) /\ DOMAIN rows = 1 .. Len(rows) /\ Len(rows) \in Nat
        /\ rows[r] \in Row
    BY LenProperties, ElementOfSeq DEF Typed, TypeOK
  <1>1. ASSUME NEW e \in Execs, AppendRow(e) PROVE FALSE
    <2>1. PICK new : rows' = Append(rows, new)
      BY <1>1 DEF AppendRow
    <2>2. rows'[r] = rows[r]
      BY <1>0, <2>1
    <2> QED
      BY <2>2
  <1>2. ASSUME NEW e \in Execs, SetFreeCode(e) PROVE FALSE
    BY <1>0, <1>2 DEF SetFreeCode, Row
  <1>3. ASSUME NEW e \in Execs, SetDiscountCode(e) PROVE FALSE
    BY <1>0, <1>3 DEF SetDiscountCode, Row
  <1>4. ASSUME NEW e \in Execs, SetDate(e), i[e] # r PROVE FALSE
    BY <1>0, <1>4 DEF SetDate
  <1>5. ASSUME rows' = rows PROVE FALSE
    BY <1>5
  <1> QED
    BY <1>1, <1>2, <1>3, <1>4, <1>5
    DEF Next, Step, vars, sheetVars, Begin, FindCompany, ReadSheet, NoDraft, TakeRow,
        CreateCode, CodeCreated, CreateFails, SendMail, MailFails, Kill

\* Only SendMail counts a mail, and it counts one.
LEMMA MailedBy ==
    ASSUME Typed, [Next]_vars, NEW r \in 1 .. Len(rows), mails'[r] # mails[r]
    PROVE  \E e \in Execs : SendMail(e) /\ i[e] = r /\ mails'[r] = mails[r] + 1
  <1>0. /\ mails \in Seq(Nat) /\ DOMAIN mails = 1 .. Len(rows) /\ Len(mails) = Len(rows)
    BY LenProperties DEF Typed, TypeOK
  <1>1. ASSUME NEW e \in Execs, AppendRow(e) PROVE FALSE
    <2>1. mails' = Append(mails, 0)
      BY <1>1 DEF AppendRow
    <2>2. mails'[r] = mails[r]
      BY <1>0, <2>1
    <2> QED
      BY <2>2
  <1>2. PICK e \in Execs : SendMail(e)
    BY <1>1
    DEF Next, Step, vars, sheetVars, Begin, FindCompany, ReadSheet, NoDraft, TakeRow,
        SetFreeCode, SetDiscountCode, SetDate, CreateCode, CodeCreated, CreateFails, MailFails, Kill
  <1> QED
    BY <1>0, <1>2 DEF SendMail

\* A row is dated only if its mail went out.
THEOREM DatesAreTrue == Spec => []DatedMeansMailed
  <1>1. Typed /\ Work /\ DatedMeansMailed /\ [Next]_vars => DatedMeansMailed'
    <2> SUFFICES ASSUME Typed, Work, DatedMeansMailed, [Next]_vars,
                        NEW r \in 1 .. Len(rows'), rows'[r].sent
                 PROVE  mails'[r] > 0
      BY DEF DatedMeansMailed
    <2>0. /\ Grows /\ Len(rows) \in Nat /\ Len(rows') \in Nat /\ Typed'
          /\ r \in 1 .. Len(mails')
      BY Growth, TypedNext, LenProperties DEF Typed, TypeOK, Grows
    <2>1. r \in 1 .. Len(rows)
      BY <2>0 DEF Grows
    <2>2. mails[r] \in Nat /\ mails'[r] \in Nat /\ mails'[r] >= mails[r]
      BY <2>0, <2>1, ElementOfSeq DEF Typed, TypeOK, Grows
    <2>3. mails[r] > 0
      <3>1. CASE rows[r].sent
        BY <2>1, <3>1 DEF DatedMeansMailed
      <3>2. CASE ~rows[r].sent
        <4>1. PICK e \in Execs : SetDate(e) /\ i[e] = r
          BY <2>1, <3>2, DatedBy
        <4> QED
          BY <4>1 DEF SetDate, Work, Prepared
      <3> QED
        BY <3>1, <3>2
    <2> QED
      BY <2>2, <2>3
  <1>2. Init => DatedMeansMailed
    <2> SUFFICES ASSUME Init, NEW r \in 1 .. Len(rows) PROVE ~rows[r].sent
      BY DEF DatedMeansMailed
    <2>1. CASE rows = <<>>
      BY <2>1, EmptySeq
    <2>2. ASSUME NEW c \in Paid, NEW email \in BOOLEAN, NEW filled \in BOOLEAN,
                 rows = <<PaidRow(c, email, filled)>>
          PROVE  ~rows[r].sent
      <3>1. r = 1
        BY <2>2
      <3> QED
        BY <2>2, <3>1 DEF PaidRow
    <2> QED
      BY <2>1, <2>2 DEF Init
  <1> QED
    BY <1>1, <1>2, TypedInit, TypedNext, WorkInit, WorkNext, PTL DEF Spec

\* A mailed code exists, or TicketButler refused it with the status that the
\* script takes for "it exists already"; no other failure lets a mail out.
THEOREM MailedCodesWork == Spec => []OnlyRefusedCodesMissing
  <1>1. Typed /\ Work /\ OnlyRefusedCodesMissing /\ [Next]_vars => OnlyRefusedCodesMissing'
    <2> SUFFICES ASSUME Typed, Work, OnlyRefusedCodesMissing, [Next]_vars,
                        NEW r \in 1 .. Len(rows'), mails'[r] > 0
                 PROVE  /\ <<rows'[r].company, "free">> \in Answered'
                        /\ rows'[r].paid => <<rows'[r].company, "discount">> \in Answered'
      BY DEF OnlyRefusedCodesMissing
    <2>0. Grows /\ Len(rows) \in Nat /\ Len(rows') \in Nat
      BY Growth, LenProperties DEF Typed, TypeOK, Grows
    <2>1. r \in 1 .. Len(rows)
      BY <2>0 DEF Grows
    <2>2. /\ <<rows[r].company, "free">> \in Answered
          /\ rows[r].paid => <<rows[r].company, "discount">> \in Answered
      <3>1. CASE mails'[r] = mails[r]
        BY <2>1, <3>1 DEF OnlyRefusedCodesMissing
      <3>2. CASE mails'[r] # mails[r]
        <4>1. PICK e \in Execs : SendMail(e) /\ i[e] = r
          BY <2>1, <3>2, MailedBy
        <4>2. r \in 1 .. Len(values[e])
          <5>1. /\ i[e] \in Nat /\ i[e] >= 1 /\ i[e] <= Len(values[e])
                /\ Len(values[e]) \in Nat
            BY <4>1, LenProperties DEF SendMail, Typed, Bounds, RowSteps
          <5> QED
            BY <4>1, <5>1
        <4> QED
          BY <4>1, <4>2 DEF SendMail, Work, Prepared, Remembered, CodeOf
      <3> QED
        BY <3>1, <3>2
    <2> QED
      BY <2>0, <2>1, <2>2 DEF Grows, Answered
  <1>2. Init => OnlyRefusedCodesMissing
    <2> SUFFICES ASSUME Init, NEW r \in 1 .. Len(rows) PROVE mails[r] = 0
      BY DEF OnlyRefusedCodesMissing
    <2>1. DOMAIN rows = 1 .. Len(rows)
      BY TypedInit, LenProperties DEF Typed, TypeOK
    <2> QED
      BY <2>1 DEF Init
  <1> QED
    BY <1>1, <1>2, TypedInit, TypedNext, WorkInit, WorkNext, PTL DEF Spec

-----------------------------------------------------------------------------
(* How many rows, and how many mails.                                      *)

Active == {e \in Execs : job[e] # "none"}

\* There are at most as many executions under way as have begun while another
\* was, and one.
Overlaps ==
    /\ overlaps \in Nat /\ kills \in Nat
    /\ \A e \in Execs : pc[e] # "idle" => job[e] # "none"
    /\ Cardinality(Active) <= 1 + overlaps

LEMMA FiniteExecs ==
    ASSUME NEW S \in SUBSET Execs
    PROVE  IsFiniteSet(S) /\ Cardinality(S) \in Nat
  BY SheetAssumption, FS_Subset, FS_CardinalityType

LEMMA Fewer ==
    ASSUME NEW S \in SUBSET Execs, NEW T \in SUBSET S
    PROVE  Cardinality(T) <= Cardinality(S)
  BY FiniteExecs, FS_Subset

LEMMA OverlapsNext == Typed /\ Overlaps /\ [Next]_vars => Overlaps'
  <1> SUFFICES ASSUME Typed, Overlaps, [Next]_vars PROVE Overlaps'
    OBVIOUS
  <1>0. Active \in SUBSET Execs /\ Active' \in SUBSET Execs
    BY DEF Active
  <1>c. Cardinality(Active) \in Nat /\ Cardinality(Active') \in Nat
    BY <1>0, FiniteExecs
  <1>1. CASE UNCHANGED vars
    BY <1>1 DEF vars, counts, execVars, Overlaps, Active
  <1>2. ASSUME NEW e \in Execs, Step(e), ~Begin(e) PROVE Overlaps'
    <2>1. overlaps' = overlaps /\ kills' \in {kills, kills + 1}
      BY <1>2 DEF Step, counts, FindCompany, AppendRow, ReadSheet, NoDraft, TakeRow,
                  SetFreeCode, SetDiscountCode, CreateCode, CodeCreated, CreateFails, SendMail,
                  MailFails, SetDate, Kill
    <2>2. \/ job' = job /\ pc[e] # "idle"
          \/ job'[e] = "none" /\ pc'[e] = "idle"
      BY <1>2 DEF Step, FindCompany, AppendRow, ReadSheet, NoDraft, TakeRow,
                  SetFreeCode, SetDiscountCode, CreateCode, CodeCreated, CodeStep, CreateFails, SendMail,
                  MailFails, SetDate, Kill, End, Continue, Goto, Typed, TypeOK
    <2>3. \A f \in Execs : f # e => job'[f] = job[f] /\ pc'[f] = pc[f]
      BY <1>2, OthersKept
    <2>4. Active' \subseteq Active
      BY <2>2, <2>3 DEF Active
    <2>5. Cardinality(Active') <= Cardinality(Active)
      BY <1>0, <2>4, Fewer
    <2>6. \A f \in Execs : pc'[f] # "idle" => job'[f] # "none"
      BY <2>2, <2>3 DEF Overlaps
    <2> QED
      BY <1>c, <2>1, <2>5, <2>6 DEF Overlaps
  <1>3. ASSUME NEW e \in Execs, Begin(e) PROVE Overlaps'
    <2>1. job[e] = "none" /\ job'[e] \in Jobs /\ kills' = kills
      BY <1>3 DEF Begin, Typed, TypeOK
    <2>2. \A f \in Execs : f # e => job'[f] = job[f] /\ pc'[f] = pc[f]
      BY <1>3, OthersKept DEF Step
    <2>3. Active' = Active \cup {e} /\ e \notin Active
      BY <2>1, <2>2 DEF Active, Jobs
    <2>4. Cardinality(Active') = Cardinality(Active) + 1
      BY <1>0, <2>3, FiniteExecs, FS_AddElement
    <2>5. Active = {} => Cardinality(Active) = 0
      BY FS_EmptySet
    <2>6. Active # {} => overlaps' = overlaps + 1
      BY <1>3 DEF Begin, Active
    <2>7. overlaps' \in {overlaps, overlaps + 1}
      BY <1>3 DEF Begin
    <2>8. \A f \in Execs : pc'[f] # "idle" => job'[f] # "none"
      BY <2>1, <2>2 DEF Overlaps, Jobs
    <2>9. Cardinality(Active') <= 1 + overlaps'
      BY <1>c, <2>4, <2>5, <2>6, <2>7 DEF Overlaps
    <2> QED
      BY <2>1, <2>7, <2>8, <2>9 DEF Overlaps
  <1> QED
    BY <1>1, <1>2, <1>3 DEF Next

LEMMA OverlapsInit == Init => Overlaps
  <1> SUFFICES ASSUME Init PROVE Overlaps
    OBVIOUS
  <1>1. Active = {}
    BY DEF Init, Active
  <1>2. Cardinality(Active) = 0
    BY <1>1, FS_EmptySet
  <1> QED
    BY <1>2 DEF Init, Overlaps

\* Executions about to append a row for c, and the rows there are.
Appending(c) == {e \in Execs : pc[e] = "append" /\ Head(todo[e]) = c}
RowsOf(c) == {r \in 1 .. Len(rows) : rows[r].company = c}

\* A row that is about to be appended counts already, for whoever looked for
\* the company did not find it.
RowsCounted ==
    \A c \in Companies :
        Cardinality(RowsOf(c)) + Cardinality(Appending(c)) <= 1 + overlaps

LEMMA FiniteRows ==
    ASSUME NEW list \in Seq(Row), NEW c
    PROVE  LET found == {r \in 1 .. Len(list) : list[r].company = c}
           IN  IsFiniteSet(found) /\ Cardinality(found) \in Nat
  <1> DEFINE found == {r \in 1 .. Len(list) : list[r].company = c}
  <1>1. Len(list) \in Nat
    BY LenProperties
  <1>2. IsFiniteSet(1 .. Len(list))
    BY <1>1, FS_Interval
  <1>3. found \in SUBSET (1 .. Len(list))
    OBVIOUS
  <1> QED
    BY <1>2, <1>3, FS_Subset, FS_CardinalityType

LEMMA RowsCountedNext == Typed /\ Overlaps /\ RowsCounted /\ [Next]_vars => RowsCounted'
  <1> SUFFICES ASSUME Typed, Overlaps, RowsCounted, [Next]_vars, NEW c \in Companies
               PROVE  Cardinality(RowsOf(c)') + Cardinality(Appending(c)') <= 1 + overlaps'
    BY DEF RowsCounted
  <1>0. /\ Typed' /\ Overlaps' /\ rows \in Seq(Row) /\ rows' \in Seq(Row)
        /\ Len(rows) \in Nat /\ overlaps \in Nat /\ overlaps' \in Nat
    BY TypedNext, OverlapsNext, LenProperties DEF Typed, TypeOK, Overlaps
  <1>1. /\ Cardinality(RowsOf(c)) \in Nat /\ Cardinality(RowsOf(c)') \in Nat
        /\ IsFiniteSet(RowsOf(c))
    BY <1>0, FiniteRows DEF RowsOf
  <1>2. /\ Appending(c) \in SUBSET Execs /\ Appending(c)' \in SUBSET Execs
        /\ Active' \in SUBSET Execs /\ Appending(c)' \subseteq Active'
    BY <1>0 DEF Appending, Active, Overlaps
  <1>3. /\ Cardinality(Appending(c)) \in Nat /\ Cardinality(Appending(c)') \in Nat
        /\ Cardinality(Active') \in Nat /\ Cardinality(Appending(c)') <= Cardinality(Active')
    BY <1>2, FiniteExecs, Fewer
  <1>4. overlaps' >= overlaps
    <2>1. overlaps' \in {overlaps, overlaps + 1}
      BY DEF Next, Step, vars, counts, Begin, FindCompany, AppendRow, ReadSheet, NoDraft,
             TakeRow, SetFreeCode, SetDiscountCode, CreateCode, CodeCreated, CreateFails, SendMail,
             MailFails, SetDate, Kill
    <2> QED
      BY <1>0, <2>1
  \* Nobody has found a row because there is none.
  <1>5. CASE RowsOf(c)' = {}
    <2>1. Cardinality(RowsOf(c)') = 0
      BY <1>5, FS_EmptySet
    <2>2. Cardinality(Active') <= 1 + overlaps'
      BY <1>0 DEF Overlaps
    <2> QED
      BY <1>0, <1>3, <2>1, <2>2
  <1>6. ASSUME NEW e \in Execs, AppendRow(e), Head(todo[e]) = c
        PROVE  Cardinality(RowsOf(c)') + Cardinality(Appending(c)') <= 1 + overlaps'
    <2>1. PICK new : rows' = Append(rows, new) /\ new.company = c
      BY <1>6 DEF AppendRow
    <2>2. /\ Len(rows') = Len(rows) + 1 /\ rows'[Len(rows) + 1] = new
          /\ \A r \in 1 .. Len(rows) : rows'[r] = rows[r]
      BY <1>0, <2>1
    <2>3. RowsOf(c)' = RowsOf(c) \cup {Len(rows) + 1} /\ Len(rows) + 1 \notin RowsOf(c)
      BY <1>0, <2>1, <2>2 DEF RowsOf
    <2>4. Cardinality(RowsOf(c)') = Cardinality(RowsOf(c)) + 1
      BY <1>1, <2>3, FS_AddElement
    <2>5. pc'[e] = "find" /\ e \in Appending(c)
      BY <1>6 DEF AppendRow, Appending, Goto, Typed, TypeOK
    <2>6. \A f \in Execs : f # e => pc'[f] = pc[f] /\ todo'[f] = todo[f]
      BY <1>6, OthersKept DEF Step
    <2>7. Appending(c)' = Appending(c) \ {e}
      BY <2>5, <2>6 DEF Appending
    <2>8. Cardinality(Appending(c)') = Cardinality(Appending(c)) - 1
      BY <1>2, <2>5, <2>7, FiniteExecs, FS_RemoveElement
    <2> QED
      BY <1>0, <1>1, <1>3, <1>4, <2>4, <2>8 DEF RowsCounted
  <1>7. ASSUME RowsOf(c)' # {}, \A e \in Execs : ~(AppendRow(e) /\ Head(todo[e]) = c)
        PROVE  Cardinality(RowsOf(c)') + Cardinality(Appending(c)') <= 1 + overlaps'
    <2>1. RowsOf(c)' = RowsOf(c)
      <3>1. ASSUME NEW e \in Execs, AppendRow(e) PROVE RowsOf(c)' = RowsOf(c)
        <4>1. PICK new : rows' = Append(rows, new) /\ new.company = Head(todo[e])
          BY <3>1 DEF AppendRow
        <4>2. /\ Len(rows') = Len(rows) + 1 /\ rows'[Len(rows) + 1] = new
              /\ \A r \in 1 .. Len(rows) : rows'[r] = rows[r]
          BY <1>0, <4>1
        <4> QED
          BY <1>0, <1>7, <3>1, <4>1, <4>2 DEF RowsOf
      <3>2. ASSUME \A e \in Execs : ~AppendRow(e) PROVE RowsOf(c)' = RowsOf(c)
        <4>1. Len(rows') = Len(rows)
          <5>1. \/ rows' = rows
                \/ \E e \in Execs : SetFreeCode(e) \/ SetDiscountCode(e) \/ SetDate(e)
            BY <3>2
            DEF Next, Step, vars, sheetVars, Begin, FindCompany, ReadSheet, NoDraft, TakeRow,
                CreateCode, CodeCreated, CreateFails, SendMail, MailFails, Kill
          <5>2. DOMAIN rows' = DOMAIN rows
            BY <5>1 DEF SetFreeCode, SetDiscountCode, SetDate
          <5> QED
            BY <1>0, <5>2, LenProperties, SameRange
        <4> QED
          BY <4>1, Growth DEF Grows, RowsOf
      <3> QED
        BY <3>1, <3>2
    <2>2. Appending(c)' \subseteq Appending(c)
      <3> SUFFICES ASSUME NEW e \in Appending(c)' PROVE e \in Appending(c)
        OBVIOUS
      <3>0. e \in Execs /\ pc'[e] = "append" /\ Head(todo'[e]) = c
        BY DEF Appending
      <3>1. CASE Step(e)
        <4>1. FindCompany(e) /\ todo[e] = todo'[e]
              /\ \A r \in 1 .. Len(rows) : rows[r].company # Head(todo[e])
          BY <3>0, <3>1
          DEF Step, Begin, FindCompany, AppendRow, ReadSheet, NoDraft, TakeRow,
              SetFreeCode, SetDiscountCode, CreateCode, CodeCreated, CreateFails, SendMail, MailFails,
              SetDate, Kill, End, Continue, Goto, Typed, TypeOK
        <4>2. RowsOf(c) = {}
          BY <3>0, <4>1 DEF RowsOf
        <4> QED
          BY <1>7, <2>1, <4>2
      <3>2. CASE ~Step(e)
        <4>1. pc'[e] = pc[e] /\ todo'[e] = todo[e]
          BY <3>0, <3>2, OthersKept DEF Next, vars, execVars
        <4> QED
          BY <3>0, <4>1 DEF Appending
      <3> QED
        BY <3>1, <3>2
    <2>3. Cardinality(Appending(c)') <= Cardinality(Appending(c))
      BY <1>2, <2>2, Fewer
    <2> QED
      BY <1>0, <1>1, <1>3, <1>4, <2>1, <2>3 DEF RowsCounted
  <1> QED
    BY <1>5, <1>6, <1>7

\* A company name has one row, and one more for each execution that began while
\* another was under way; interruptions add none.
THEOREM RowsPerName == Spec => []OneRowPerName
  <1>1. Typed /\ Overlaps /\ RowsCounted => OneRowPerName
    <2> SUFFICES ASSUME Typed, Overlaps, RowsCounted, NEW c \in Companies
                 PROVE  Cardinality(RowsOf(c)) <= 1 + overlaps
      BY DEF OneRowPerName, RowsOf
    <2>1. Cardinality(RowsOf(c)) \in Nat
      BY FiniteRows DEF Typed, TypeOK, RowsOf
    <2>2. Appending(c) \in SUBSET Execs
      BY DEF Appending
    <2>3. Cardinality(Appending(c)) \in Nat
      BY <2>2, FiniteExecs
    <2> QED
      BY <2>1, <2>3 DEF RowsCounted, Overlaps
  <1>2. Init => RowsCounted
    <2> SUFFICES ASSUME Init, NEW c \in Companies
                 PROVE  Cardinality(RowsOf(c)) + Cardinality(Appending(c)) <= 1 + overlaps
      BY DEF RowsCounted
    <2>1. Appending(c) = {} /\ overlaps = 0
      BY DEF Init, Appending
    <2>2. RowsOf(c) = {}
      <3>1. CASE rows = <<>>
        BY <3>1, EmptySeq DEF RowsOf
      <3>2. ASSUME NEW p \in Paid, NEW email \in BOOLEAN, NEW filled \in BOOLEAN,
                   rows = <<PaidRow(p, email, filled)>>
            PROVE  RowsOf(c) = {}
        <4>1. Len(rows) = 1 /\ rows[1].company = p
          BY <3>2 DEF PaidRow
        <4>2. p # c
          BY SheetAssumption
        <4> QED
          BY <4>1, <4>2 DEF RowsOf
      <3> QED
        BY <3>1, <3>2 DEF Init
    <2> QED
      BY <2>1, <2>2, FS_EmptySet
  <1> QED
    BY <1>1, <1>2, TypedInit, TypedNext, OverlapsInit, OverlapsNext, RowsCountedNext, PTL
    DEF Spec

\* Executions between the mail and the date of row r, and those that have read
\* r without a date and are not yet past its mail.
Dating(r) == {e \in Execs : pc[e] = "date" /\ i[e] = r}
MayMail(r) ==
    {e \in Execs : /\ pc[e] \in RowSteps \cup {"row"}
                   /\ r <= Len(values[e]) /\ ~values[e][r].sent
                   /\ i[e] < r \/ (i[e] = r /\ pc[e] # "date")}

\* As long as a row has no date each of its mails is still to be followed by
\* one, or its execution was ended.  Afterwards nobody who reads the row mails
\* it, and those who have read it are executions that overlapped.
MailsCounted ==
    \A r \in 1 .. Len(rows) :
        /\ ~rows[r].sent => mails[r] <= kills + Cardinality(Dating(r))
        /\ rows[r].sent => mails[r] + Cardinality(MayMail(r)) <= 1 + kills + overlaps

\* A dated row stays dated.
LEMMA StaysDated ==
    ASSUME Typed, [Next]_vars, NEW r \in 1 .. Len(rows), rows[r].sent
    PROVE  rows'[r].sent
  <1>0. rows \in Seq(Row) /\ DOMAIN rows = 1 .. Len(rows) /\ rows[r] \in Row
    BY LenProperties, ElementOfSeq DEF Typed, TypeOK
  <1>1. CASE rows'[r].sent = rows[r].sent
    BY <1>1
  <1>2. CASE rows'[r].sent # rows[r].sent
    <2>1. PICK e \in Execs : SetDate(e) /\ i[e] = r
      BY <1>2, DatedBy
    <2> QED
      BY <1>0, <2>1 DEF SetDate, Row
  <1> QED
    BY <1>1, <1>2

LEMMA CountsMove ==
    ASSUME Overlaps, [Next]_vars
    PROVE  /\ overlaps \in Nat /\ overlaps' \in Nat /\ overlaps' >= overlaps
           /\ kills \in Nat /\ kills' \in Nat /\ kills' >= kills
  <1>1. /\ overlaps' \in {overlaps, overlaps + 1}
        /\ kills' \in {kills, kills + 1}
    BY DEF Next, Step, vars, counts, Begin, FindCompany, AppendRow, ReadSheet, NoDraft,
           TakeRow, SetFreeCode, SetDiscountCode, CreateCode, CodeCreated, CreateFails, SendMail,
           MailFails, SetDate, Kill
  <1> QED
    BY <1>1 DEF Overlaps

\* Once a row is dated nobody starts to be about to mail it.
LEMMA MayMailShrinks ==
    ASSUME Typed, [Next]_vars, NEW r \in 1 .. Len(rows), rows[r].sent
    PROVE  MayMail(r)' \subseteq MayMail(r)
  <1> SUFFICES ASSUME NEW e \in MayMail(r)' PROVE e \in MayMail(r)
    OBVIOUS
  <1>0. /\ e \in Execs /\ pc'[e] \in RowSteps \cup {"row"}
        /\ r <= Len(values'[e]) /\ ~values'[e][r].sent
        /\ i'[e] < r \/ (i'[e] = r /\ pc'[e] # "date")
        /\ i[e] \in Nat /\ Len(rows) \in Nat /\ r \in Nat
    BY LenProperties DEF MayMail, Typed, TypeOK
  <1>1. CASE ~Step(e)
    <2>1. pc'[e] = pc[e] /\ values'[e] = values[e] /\ i'[e] = i[e]
      BY <1>0, <1>1, OthersKept DEF Next, vars, execVars
    <2> QED
      BY <1>0, <2>1 DEF MayMail
  <1>2. CASE Step(e)
    <2>1. ~ReadSheet(e)
      BY <1>0 DEF ReadSheet, Typed
    <2>2. /\ pc[e] \in RowSteps \cup {"row"} /\ values'[e] = values[e]
          /\ \/ i'[e] = i[e] /\ (pc[e] = "date" => pc'[e] = "date")
             \/ i'[e] = i[e] + 1
      BY <1>0, <1>2, <2>1
      DEF Step, Begin, FindCompany, AppendRow, NoDraft, TakeRow,
          SetFreeCode, SetDiscountCode, CreateCode, CodeCreated, CodeStep, CreateFails, SendMail, MailFails,
          SetDate, Kill, End, Continue, Goto, Typed, TypeOK, RowSteps
    <2> QED
      BY <1>0, <2>2 DEF MayMail
  <1> QED
    BY <1>1, <1>2

\* Without a date.
LEMMA UndatedNext ==
    ASSUME Typed, Work, Overlaps, MailsCounted, [Next]_vars, NEW r \in 1 .. Len(rows),
           ~rows'[r].sent
    PROVE  mails'[r] <= kills' + Cardinality(Dating(r)')
  <1>0. /\ mails[r] \in Nat /\ kills \in Nat /\ kills' \in Nat /\ kills' >= kills
        /\ Dating(r) \in SUBSET Execs /\ Dating(r)' \in SUBSET Execs
    <2>1. r \in 1 .. Len(mails) /\ mails \in Seq(Nat)
      BY DEF Typed, TypeOK
    <2> QED
      BY <2>1, ElementOfSeq, CountsMove DEF Dating
  <1>1. /\ Cardinality(Dating(r)) \in Nat /\ Cardinality(Dating(r)') \in Nat
        /\ IsFiniteSet(Dating(r))
    BY <1>0, FiniteExecs
  <1>2. mails[r] <= kills + Cardinality(Dating(r))
    BY StaysDated DEF MailsCounted
  <1>d. rows \in Seq(Row) /\ DOMAIN rows = 1 .. Len(rows) /\ rows[r] \in Row
    BY LenProperties, ElementOfSeq DEF Typed, TypeOK
  <1>e. ASSUME NEW e \in Execs, SetDate(e) PROVE i[e] # r
    BY <1>d, <1>e DEF SetDate, Row
  <1>3. CASE mails'[r] # mails[r]
    <2>1. PICK e \in Execs : SendMail(e) /\ i[e] = r /\ mails'[r] = mails[r] + 1
      BY <1>3, MailedBy
    <2>2. \A f \in Execs : f # e => pc'[f] = pc[f] /\ i'[f] = i[f]
      BY <2>1, OthersKept DEF Step
    <2>3. pc[e] = "mail" /\ pc'[e] = "date" /\ i'[e] = r
      BY <2>1 DEF SendMail, Goto, Typed, TypeOK
    <2>4. Dating(r)' = Dating(r) \cup {e} /\ e \notin Dating(r)
      BY <2>2, <2>3 DEF Dating
    <2>5. Cardinality(Dating(r)') = Cardinality(Dating(r)) + 1
      BY <1>1, <2>4, FS_AddElement
    <2> QED
      BY <1>0, <1>1, <1>2, <2>1, <2>5
  <1>4. ASSUME mails'[r] = mails[r], NEW e \in Execs, Kill(e)
        PROVE  mails'[r] <= kills' + Cardinality(Dating(r)')
    <2>1. \A f \in Execs : f # e => pc'[f] = pc[f] /\ i'[f] = i[f]
      BY <1>4, OthersKept DEF Step
    <2>2. kills' = kills + 1 /\ pc'[e] = "idle"
      BY <1>4 DEF Kill, End, Goto, Typed, TypeOK
    <2>3. Dating(r)' = Dating(r) \ {e}
      BY <2>1, <2>2 DEF Dating
    <2>4. Cardinality(Dating(r)') >= Cardinality(Dating(r)) - 1
      <3>1. Cardinality(Dating(r) \ {e}) =
                IF e \in Dating(r) THEN Cardinality(Dating(r)) - 1 ELSE Cardinality(Dating(r))
        BY <1>1, FS_RemoveElement
      <3> QED
        BY <1>1, <2>3, <3>1
    <2> QED
      BY <1>0, <1>1, <1>2, <1>4, <2>2, <2>4
  <1>5. ASSUME mails'[r] = mails[r], \A e \in Execs : ~Kill(e)
        PROVE  mails'[r] <= kills' + Cardinality(Dating(r)')
    <2>1. Dating(r) \subseteq Dating(r)'
      <3> SUFFICES ASSUME NEW e \in Dating(r) PROVE e \in Dating(r)'
        OBVIOUS
      <3>0. e \in Execs /\ pc[e] = "date" /\ i[e] = r
        BY DEF Dating
      <3>1. CASE Step(e)
        <4>1. FALSE
          BY <1>5, <1>e, <3>0, <3>1, OverlapsNext
          DEF Step, Begin, FindCompany, AppendRow, ReadSheet, NoDraft, TakeRow,
              SetFreeCode, SetDiscountCode, CreateCode, CodeCreated, CodeStep, CreateFails, SendMail,
              MailFails, Overlaps
        <4> QED
          BY <4>1
      <3>2. CASE ~Step(e)
        <4>1. pc'[e] = pc[e] /\ i'[e] = i[e]
          BY <3>0, <3>2, OthersKept DEF Next, vars, execVars
        <4> QED
          BY <3>0, <4>1 DEF Dating
      <3> QED
        BY <3>1, <3>2
    <2>2. Cardinality(Dating(r)) <= Cardinality(Dating(r)')
      BY <1>0, <2>1, Fewer
    <2> QED
      BY <1>0, <1>1, <1>2, <1>5, <2>2
  <1> QED
    BY <1>3, <1>4, <1>5

\* With a date.
LEMMA DatedNext ==
    ASSUME Typed, Work, Overlaps, MailsCounted, [Next]_vars, NEW r \in 1 .. Len(rows),
           rows'[r].sent
    PROVE  mails'[r] + Cardinality(MayMail(r)') <= 1 + kills' + overlaps'
  <1>0. /\ mails[r] \in Nat /\ kills \in Nat /\ kills' \in Nat /\ kills' >= kills
        /\ overlaps \in Nat /\ overlaps' \in Nat /\ overlaps' >= overlaps
        /\ MayMail(r) \in SUBSET Execs /\ MayMail(r)' \in SUBSET Execs
    <2>1. r \in 1 .. Len(mails) /\ mails \in Seq(Nat)
      BY DEF Typed, TypeOK
    <2> QED
      BY <2>1, ElementOfSeq, CountsMove DEF MayMail
  <1>1. /\ Cardinality(MayMail(r)) \in Nat /\ Cardinality(MayMail(r)') \in Nat
        /\ IsFiniteSet(MayMail(r)) /\ IsFiniteSet(MayMail(r)')
    BY <1>0, FiniteExecs
  <1>2. CASE rows[r].sent
    <2>0. mails[r] + Cardinality(MayMail(r)) <= 1 + kills + overlaps
      BY <1>2 DEF MailsCounted
    <2>1. MayMail(r)' \subseteq MayMail(r)
      BY <1>2, MayMailShrinks
    <2>2. CASE mails'[r] = mails[r]
      <3>1. Cardinality(MayMail(r)') <= Cardinality(MayMail(r))
        BY <1>0, <2>1, Fewer
      <3> QED
        BY <1>0, <1>1, <2>0, <2>2, <3>1
    <2>3. CASE mails'[r] # mails[r]
      <3>1. PICK e \in Execs : SendMail(e) /\ i[e] = r /\ mails'[r] = mails[r] + 1
        BY <2>3, MailedBy
      <3>2. pc[e] = "mail" /\ pc'[e] = "date" /\ i'[e] = i[e] /\ i[e] \in Nat
        BY <3>1 DEF SendMail, Goto, Typed, TypeOK
      <3>3. r <= Len(values[e]) /\ ~values[e][r].sent
        BY <3>1, <3>2 DEF Typed, Bounds, RowSteps, Work, Prepared
      <3>4. e \in MayMail(r)
        BY <3>1, <3>2, <3>3 DEF MayMail, RowSteps
      <3>5. e \notin MayMail(r)'
        BY <3>1, <3>2 DEF MayMail
      <3>6. MayMail(r)' \in SUBSET (MayMail(r) \ {e}) /\ MayMail(r) \ {e} \in SUBSET Execs
        BY <1>0, <2>1, <3>5
      <3>7. Cardinality(MayMail(r)') <= Cardinality(MayMail(r) \ {e})
        BY <3>6, Fewer
      <3>8. Cardinality(MayMail(r) \ {e}) = Cardinality(MayMail(r)) - 1
        BY <1>1, <3>4, FS_RemoveElement
      <3> QED
        BY <1>0, <1>1, <2>0, <3>1, <3>7, <3>8
    <2> QED
      BY <2>2, <2>3
  <1>3. CASE ~rows[r].sent
    <2>1. PICK e \in Execs : SetDate(e) /\ i[e] = r
      BY <1>3, DatedBy
    <2>2. mails'[r] = mails[r] /\ kills' = kills /\ overlaps' = overlaps /\ job' = job
      BY <2>1 DEF SetDate, counts, Continue
    <2>3. mails[r] <= kills + Cardinality(Dating(r))
      BY <1>3 DEF MailsCounted
    <2>4. /\ Dating(r) \in SUBSET Execs /\ Active \in SUBSET Execs
          /\ Dating(r) \subseteq Active
      BY DEF Dating, Active, Overlaps
    <2>5. MayMail(r)' \subseteq Active \ Dating(r)
      <3> SUFFICES ASSUME NEW f \in MayMail(r)' PROVE f \in Active \ Dating(r)
        OBVIOUS
      <3>1. /\ f \in Execs /\ pc'[f] # "idle"
            /\ i'[f] < r \/ (i'[f] = r /\ pc'[f] # "date")
        BY DEF MayMail, RowSteps
      <3>2. i'[e] = r + 1
        BY <2>1 DEF SetDate, Continue, Typed
      <3>3. f # e
        BY <3>1, <3>2
      <3>4. pc'[f] = pc[f] /\ i'[f] = i[f]
        BY <2>1, <3>1, <3>3, OthersKept DEF Step
      <3> QED
        BY <3>1, <3>4 DEF Active, Dating, Overlaps
    <2>6. Cardinality(MayMail(r)') <= Cardinality(Active \ Dating(r))
      <3>1. Active \ Dating(r) \in SUBSET Execs /\ MayMail(r)' \in SUBSET (Active \ Dating(r))
        BY <2>4, <2>5
      <3> QED
        BY <3>1, Fewer
    <2>7. Cardinality(Active \ Dating(r)) = Cardinality(Active) - Cardinality(Dating(r))
      <3>1. IsFiniteSet(Active) /\ IsFiniteSet(Dating(r)) /\ Active \cap Dating(r) = Dating(r)
        BY <2>4, FiniteExecs
      <3> QED
        BY <3>1, FS_Difference
    <2>8. /\ Cardinality(Active) \in Nat /\ Cardinality(Dating(r)) \in Nat
          /\ Cardinality(Active) <= 1 + overlaps
      BY <2>4, FiniteExecs DEF Overlaps
    <2>9. /\ Active \ Dating(r) \in SUBSET Execs
          /\ Cardinality(Active \ Dating(r)) \in Nat
      BY <2>4, FiniteExecs
    <2> QED
      BY <1>0, <1>1, <2>2, <2>3, <2>6, <2>7, <2>8, <2>9
  <1> QED
    BY <1>2, <1>3

LEMMA MailsCountedNext ==
    Typed /\ Work /\ Overlaps /\ MailsCounted /\ [Next]_vars => MailsCounted'
  <1> SUFFICES ASSUME Typed, Work, Overlaps, MailsCounted, [Next]_vars,
                      NEW r \in 1 .. Len(rows')
               PROVE  /\ ~rows'[r].sent => mails'[r] <= kills' + Cardinality(Dating(r)')
                      /\ rows'[r].sent =>
                            mails'[r] + Cardinality(MayMail(r)') <= 1 + kills' + overlaps'
    BY DEF MailsCounted
  <1>1. CASE r \in 1 .. Len(rows)
    BY <1>1, UndatedNext, DatedNext
  <1>2. CASE r \notin 1 .. Len(rows)
    <2>1. Grows /\ Len(rows) \in Nat /\ Len(rows') \in Nat
      BY Growth, LenProperties DEF Typed, TypeOK, Grows
    <2>2. ~rows'[r].sent /\ mails'[r] = 0
      BY <1>2, <2>1 DEF Grows
    <2>3. Dating(r)' \in SUBSET Execs /\ kills' \in Nat
      BY CountsMove DEF Dating
    <2>4. Cardinality(Dating(r)') \in Nat
      BY <2>3, FiniteExecs
    <2> QED
      BY <2>2, <2>3, <2>4
  <1> QED
    BY <1>1, <1>2

\* A row gets one mail, and one more for each execution that began while another
\* was under way and for each that was ended from outside.
THEOREM MailsPerRow == Spec => []NoExtraMails
  <1>1. Typed /\ Overlaps /\ MailsCounted => NoExtraMails
    <2> SUFFICES ASSUME Typed, Overlaps, MailsCounted, NEW r \in 1 .. Len(rows)
                 PROVE  mails[r] <= 1 + kills + overlaps
      BY DEF NoExtraMails
    <2>0. mails[r] \in Nat /\ kills \in Nat /\ overlaps \in Nat
      <3>1. r \in 1 .. Len(mails) /\ mails \in Seq(Nat)
        BY DEF Typed, TypeOK
      <3> QED
        BY <3>1, ElementOfSeq DEF Overlaps
    <2>1. /\ MayMail(r) \in SUBSET Execs /\ Active \in SUBSET Execs
          /\ Dating(r) \in SUBSET Active
      BY DEF MayMail, Dating, Active, Overlaps
    <2>2. /\ Cardinality(MayMail(r)) \in Nat /\ Cardinality(Active) \in Nat
          /\ Cardinality(Dating(r)) \in Nat /\ Cardinality(Dating(r)) <= Cardinality(Active)
      BY <2>1, FiniteExecs, Fewer
    <2>3. CASE rows[r].sent
      BY <2>0, <2>2, <2>3 DEF MailsCounted
    <2>4. CASE ~rows[r].sent
      BY <2>0, <2>2, <2>4 DEF MailsCounted, Overlaps
    <2> QED
      BY <2>3, <2>4
  <1>2. Init => MailsCounted
    <2> SUFFICES ASSUME Init, NEW r \in 1 .. Len(rows)
                 PROVE  /\ mails[r] = 0 /\ ~rows[r].sent /\ kills = 0
                        /\ Cardinality(Dating(r)) = 0
      BY DEF MailsCounted
    <2>1. DOMAIN rows = 1 .. Len(rows)
      BY TypedInit, LenProperties DEF Typed, TypeOK
    <2>2. mails[r] = 0 /\ kills = 0 /\ Dating(r) = {}
      BY <2>1 DEF Init, Dating
    <2>3. CASE rows = <<>>
      BY <2>3, EmptySeq
    <2>4. ASSUME NEW c \in Paid, NEW email \in BOOLEAN, NEW filled \in BOOLEAN,
                 rows = <<PaidRow(c, email, filled)>>
          PROVE  ~rows[r].sent
      <3>1. r = 1
        BY <2>4
      <3> QED
        BY <2>4, <3>1 DEF PaidRow
    <2> QED
      BY <2>2, <2>3, <2>4, FS_EmptySet DEF Init
  <1> QED
    BY <1>1, <1>2, TypedInit, TypedNext, WorkInit, WorkNext, OverlapsInit, OverlapsNext,
       MailsCountedNext, PTL
    DEF Spec
=============================================================================
