---------------------------- MODULE SponsorSheet ----------------------------
(***************************************************************************)
(* appsscript/Sponsors.gs: the scripts that keep the SPONSORS sheet, make  *)
(* discount codes at TicketButler and mail them to sponsors.  An execution *)
(* (a trigger or a menu entry) runs one of three functions; each call to   *)
(* the sheet, to TicketButler or to Gmail is a step of its own, no lock is *)
(* taken, and Apps Script may end an execution between any two steps.      *)
(*                                                                         *)
(* rows[1] is the sheet's row at index 3, the first below the headings.    *)
(* A code is digest(company), so it is identified with the company.  A     *)
(* company is a value of company_name: the proxy tells sponsors apart by   *)
(* the trimmed lower-case name, the script by the name as it arrives, so   *)
(* another spelling is another company here.                               *)
(***************************************************************************)
EXTENDS Naturals, Sequences, FiniteSets

CONSTANTS
    NumCompanies, \* names of community sponsors there may be
    Paid,         \* companies of the paid sponsors in the sheet
    Execs,        \* executions that may be under way at the same time
    MaxRuns,      \* bound on the executions started
    MaxKills      \* bound on the executions ended from outside

Companies == 1 .. NumCompanies

ASSUME SheetAssumption ==
    /\ NumCompanies \in Nat
    /\ Paid \cap Companies = {}
    /\ IsFiniteSet(Execs)
    /\ MaxRuns \in Nat /\ MaxKills \in Nat

\* GET /v1/sponsors: the sponsors that have a ticket by then, sorted.
SponsorLists ==
    {list \in UNION {[1 .. n -> Companies] : n \in 0 .. NumCompanies} :
        \A a, b \in DOMAIN list : a < b => list[a] < list[b]}

Jobs == {"processCommunitySponsors", "processPaidSponsors", "sendPaidSponsorCodes"}

\* A row of the sheet: columns A, B, C, D, E and F as far as scripts ask.
Row == [company : Companies \cup Paid, email : BOOLEAN, paid : BOOLEAN,
        freeCode : BOOLEAN, discountCode : BOOLEAN, sent : BOOLEAN]

VARIABLES
    rows,    \* the SPONSORS sheet
    codes,   \* discount codes that exist at TicketButler
    refused, \* history: codes it answered 400 to without having or making them
    job,     \* job[e]: the function execution e runs, or "none"
    pc,      \* pc[e]: the step e takes next
    todo,    \* todo[e]: sponsors still to be looked up
    values,  \* values[e]: the sheet as e read it
    i,       \* i[e]: the row e is at
    runs,    \* executions started
    mails,   \* history: mails[r]: mails sent for row r
    kills,   \* history: executions ended from outside
    overlaps \* history: executions begun while another was under way

sheetVars == <<rows, mails>>
execVars  == <<job, pc, todo, values, i>>
counts    == <<runs, kills, overlaps>>
codeVars  == <<codes, refused>>
vars      == <<sheetVars, codeVars, execVars, counts>>

\* Codes that ticketButlerDiscount returned for, or that were made unseen.
Answered == codes \cup refused

Steps == {"idle", "find", "append", "read", "row", "setFree", "setDiscount",
          "createFree", "createDiscount", "mail", "date"}

\* Every variable keeps to its type; the sheet only grows below what an
\* execution has read of it.
TypeOK ==
    /\ rows \in Seq(Row)
    /\ mails \in Seq(Nat) /\ Len(mails) = Len(rows)
    /\ Answered \subseteq (Companies \cup Paid) \X {"free", "discount"}
    /\ job \in [Execs -> Jobs \cup {"none"}]
    /\ pc \in [Execs -> Steps]
    /\ \A e \in Execs : /\ todo[e] \in Seq(Companies)
                        /\ values[e] \in Seq(Row)
                        /\ Len(values[e]) <= Len(rows)
                        /\ i[e] \in Nat

\* The sheet is empty, or has a paid sponsor whom the organisers entered with
\* or without an address and codes.
PaidRow(c, email, filled) ==
    [company |-> c, email |-> email, paid |-> TRUE, freeCode |-> filled,
     discountCode |-> filled, sent |-> FALSE]

Init ==
    /\ \/ rows = <<>>
       \/ \E c \in Paid, email, filled \in BOOLEAN : rows = <<PaidRow(c, email, filled)>>
    /\ mails = [r \in DOMAIN rows |-> 0]
    /\ codes = {}
    /\ refused = {}
    /\ job = [e \in Execs |-> "none"]
    /\ pc = [e \in Execs |-> "idle"]
    /\ todo = [e \in Execs |-> <<>>]
    /\ values = [e \in Execs |-> <<>>]
    /\ i = [e \in Execs |-> 0]
    /\ runs = 0
    /\ kills = 0
    /\ overlaps = 0

-----------------------------------------------------------------------------
Goto(e, l) == pc' = [pc EXCEPT ![e] = l]

End(e) ==
    /\ job' = [job EXCEPT ![e] = "none"]
    /\ Goto(e, "idle")
    /\ todo' = [todo EXCEPT ![e] = <<>>]
    /\ values' = [values EXCEPT ![e] = <<>>]
    /\ i' = [i EXCEPT ![e] = 0]

\* On to the next row: continue, or the end of the loop body.
Continue(e) ==
    /\ i' = [i EXCEPT ![e] = i[e] + 1]
    /\ Goto(e, "row")
    /\ UNCHANGED <<job, todo, values>>

Begin(e) ==
    /\ job[e] = "none"
    /\ runs < MaxRuns
    /\ runs' = runs + 1
    /\ overlaps' = IF \E f \in Execs : job[f] # "none" THEN overlaps + 1 ELSE overlaps
    /\ \E j \in Jobs :
          /\ job' = [job EXCEPT ![e] = j]
          /\ IF j = "processCommunitySponsors"
             THEN /\ \E list \in SponsorLists : todo' = [todo EXCEPT ![e] = list]
                  /\ Goto(e, "find")
             ELSE /\ todo' = todo
                  /\ Goto(e, "read")
    /\ UNCHANGED <<sheetVars, codeVars, values, i, kills>>

\* Mutant: only the first row is looked at.
FindCompany_FirstRow(e) ==
    /\ pc[e] = "find"
    /\ IF todo[e] = <<>> THEN Goto(e, "read") /\ UNCHANGED todo
       ELSE IF rows # <<>> /\ rows[1].company = Head(todo[e])
            THEN todo' = [todo EXCEPT ![e] = Tail(todo[e])] /\ UNCHANGED pc
            ELSE Goto(e, "append") /\ UNCHANGED todo
    /\ UNCHANGED <<sheetVars, codeVars, job, values, i, counts>>

\* updateSponsorSheetCommunity: getValues and the search for the name ...
FindCompany(e) ==
    /\ pc[e] = "find"
    /\ \/ /\ todo[e] = <<>>
          /\ Goto(e, "read")
          /\ UNCHANGED todo
       \/ /\ todo[e] # <<>>
          /\ \E r \in 1 .. Len(rows) : rows[r].company = Head(todo[e])
          /\ todo' = [todo EXCEPT ![e] = Tail(todo[e])]
          /\ UNCHANGED pc
       \/ /\ todo[e] # <<>>
          /\ \A r \in 1 .. Len(rows) : rows[r].company # Head(todo[e])
          /\ Goto(e, "append")
          /\ UNCHANGED todo
    /\ UNCHANGED <<sheetVars, codeVars, job, values, i, counts>>

\* Mutant: the code's column is left out.
AppendRow_NoCode(e) ==
    /\ pc[e] = "append"
    /\ rows' = Append(rows, [company |-> Head(todo[e]), email |-> TRUE, paid |-> FALSE,
                             discountCode |-> FALSE, sent |-> FALSE])
    /\ mails' = Append(mails, 0)
    /\ todo' = [todo EXCEPT ![e] = Tail(todo[e])]
    /\ Goto(e, "find")
    /\ UNCHANGED <<codeVars, job, values, i, counts>>

\* ... and appendRow, with the code but, on some tickets, without an address.
AppendRow(e) ==
    /\ pc[e] = "append"
    /\ \E email \in BOOLEAN :
           rows' = Append(rows, [company |-> Head(todo[e]), email |-> email,
                                 paid |-> FALSE, freeCode |-> TRUE,
                                 discountCode |-> FALSE, sent |-> FALSE])
    /\ mails' = Append(mails, 0)
    /\ todo' = [todo EXCEPT ![e] = Tail(todo[e])]
    /\ Goto(e, "find")
    /\ UNCHANGED <<codeVars, job, values, i, counts>>

\* The second function of the execution reads the whole sheet once; the loop
\* over community sponsors starts one row further down than the others.
ReadSheet(e) ==
    /\ pc[e] = "read"
    /\ values' = [values EXCEPT ![e] = rows]
    /\ i' = [i EXCEPT ![e] = IF job[e] = "processCommunitySponsors" THEN 2 ELSE 1]
    /\ Goto(e, "row")
    /\ UNCHANGED <<sheetVars, codeVars, job, todo, counts>>

\* The Gmail draft of the community mail is missing.
NoDraft(e) ==
    /\ pc[e] = "read"
    /\ job[e] = "processCommunitySponsors"
    /\ End(e)
    /\ UNCHANGED <<sheetVars, codeVars, counts>>

\* The rows a function acts on, by what it read of them.
Wanted(j, row) ==
    \/ j = "processCommunitySponsors" /\ ~row.paid /\ row.email /\ ~row.sent
    \/ j = "processPaidSponsors" /\ row.paid
    \/ j = "sendPaidSponsorCodes" /\ row.paid /\ row.email /\ ~row.sent
                                  /\ row.freeCode /\ row.discountCode

\* One turn of the loop; a paid sponsor whose draft is missing is passed over.
TakeRow(e) ==
    /\ pc[e] = "row"
    /\ \/ i[e] > Len(values[e]) /\ End(e)
       \/ /\ i[e] <= Len(values[e])
          /\ ~Wanted(job[e], values[e][i[e]]) \/ job[e] = "sendPaidSponsorCodes"
          /\ Continue(e)
       \/ /\ i[e] <= Len(values[e])
          /\ Wanted(job[e], values[e][i[e]])
          /\ Goto(e, IF job[e] = "processPaidSponsors" THEN "setFree" ELSE "createFree")
          /\ UNCHANGED <<job, todo, values, i>>
    /\ UNCHANGED <<sheetVars, codeVars, counts>>

\* processPaidSponsors fills in the codes that were missing when it read.
SetFreeCode(e) ==
    /\ pc[e] = "setFree"
    /\ rows' = [rows EXCEPT ![i[e]].freeCode = @ \/ ~values[e][i[e]].freeCode]
    /\ Goto(e, "setDiscount")
    /\ UNCHANGED <<mails, codeVars, job, todo, values, i, counts>>

SetDiscountCode(e) ==
    /\ pc[e] = "setDiscount"
    /\ rows' = [rows EXCEPT ![i[e]].discountCode = @ \/ ~values[e][i[e]].discountCode]
    /\ Goto(e, "createFree")
    /\ UNCHANGED <<mails, codeVars, job, todo, values, i, counts>>

CodeStep(e, kind) == pc[e] = IF kind = "free" THEN "createFree" ELSE "createDiscount"
CodeOf(e, kind) == <<values[e][i[e]].company, kind>>

\* What follows a code: the other one, the next row, or the mail.
CodeCreated(e, kind) ==
    \/ /\ kind = "free" /\ job[e] # "processCommunitySponsors"
       /\ Goto(e, "createDiscount")
       /\ UNCHANGED <<job, todo, values, i>>
    \/ /\ kind = "discount" /\ job[e] = "processPaidSponsors"
       /\ Continue(e)
    \/ /\ IF kind = "free" THEN job[e] = "processCommunitySponsors"
                           ELSE job[e] = "sendPaidSponsorCodes"
       /\ Goto(e, "mail")
       /\ UNCHANGED <<job, todo, values, i>>

\* ticketButlerDiscount returns: 200 for a new code; 400 for one that exists;
\* or 400 for some other reason, which the script does not tell apart.
CreateCode(e, kind) ==
    /\ CodeStep(e, kind)
    /\ \/ codes' = codes \cup {CodeOf(e, kind)} /\ UNCHANGED refused
       \/ /\ CodeOf(e, kind) \notin codes
          /\ refused' = refused \cup {CodeOf(e, kind)}
          /\ UNCHANGED codes
    /\ CodeCreated(e, kind)
    /\ UNCHANGED <<sheetVars, counts>>

\* Mutant: the exception does not keep the mail from being sent.
CreateFails_Ignored(e, kind) ==
    /\ CodeStep(e, kind)
    /\ codes' \in {codes, codes \cup {CodeOf(e, kind)}}
    /\ Goto(e, "mail")
    /\ UNCHANGED <<refused, job, todo, values, i, sheetVars, counts>>

\* Any other status, or no answer at all: the code may have been made.  Paid
\* sponsors are passed over; nobody catches it for community sponsors.
CreateFails(e, kind) ==
    /\ CodeStep(e, kind)
    /\ codes' \in {codes, codes \cup {CodeOf(e, kind)}}
    /\ IF job[e] = "processCommunitySponsors" THEN End(e) ELSE Continue(e)
    /\ UNCHANGED <<refused, sheetVars, counts>>

SendMail(e) ==
    /\ pc[e] = "mail"
    /\ mails' = [mails EXCEPT ![i[e]] = @ + 1]
    /\ Goto(e, "date")
    /\ UNCHANGED <<rows, codeVars, job, todo, values, i, counts>>

\* Mutant: the row is dated all the same.
MailFails_Dated(e) ==
    /\ pc[e] = "mail"
    /\ Goto(e, "date")
    /\ UNCHANGED <<sheetVars, codeVars, job, todo, values, i, counts>>

\* GmailApp.sendEmail throws (quota, a bad address): the execution is over.
MailFails(e) ==
    /\ pc[e] = "mail"
    /\ End(e)
    /\ UNCHANGED <<sheetVars, codeVars, counts>>

\* Mutant: getRange counts from one, the loop from zero.
SetDate_OffByOne(e) ==
    /\ pc[e] = "date"
    /\ rows' = IF i[e] > 1 THEN [rows EXCEPT ![i[e] - 1].sent = TRUE] ELSE rows
    /\ Continue(e)
    /\ UNCHANGED <<mails, codeVars, counts>>

SetDate(e) ==
    /\ pc[e] = "date"
    /\ rows' = [rows EXCEPT ![i[e]].sent = TRUE]
    /\ Continue(e)
    /\ UNCHANGED <<mails, codeVars, counts>>

\* Apps Script ends the execution: its time is up, or an organiser stops it.
Kill(e) ==
    /\ job[e] # "none"
    /\ kills < MaxKills
    /\ kills' = kills + 1
    /\ End(e)
    /\ UNCHANGED <<sheetVars, codeVars, runs, overlaps>>

Step(e) ==
    \/ Begin(e) \/ FindCompany(e) \/ AppendRow(e)
    \/ ReadSheet(e) \/ NoDraft(e) \/ TakeRow(e)
    \/ SetFreeCode(e) \/ SetDiscountCode(e)
    \/ \E kind \in {"free", "discount"} : CreateCode(e, kind) \/ CreateFails(e, kind)
    \/ SendMail(e) \/ MailFails(e) \/ SetDate(e) \/ Kill(e)

Next == \E e \in Execs : Step(e)

Spec == Init /\ [][Next]_vars

-----------------------------------------------------------------------------
(* Properties.                                                             *)

\* A row is dated only if its mail went out (Sponsors.gs:67-72, 216-221),
\* whatever overlaps and whatever is cut short.
DatedMeansMailed == \A r \in 1 .. Len(rows) : rows[r].sent => mails[r] > 0

\* Nobody is mailed a code that TicketButler has not answered for (Sponsors.gs:61-67,
\* 193-216): a code that was mailed and does not exist is one that TicketButler
\* said 400 to (TicketButler.gs:51), although the mail is sent from a copy of the
\* sheet and others write to it, and whatever calls failed on the way.
OnlyRefusedCodesMissing ==
    \A r \in 1 .. Len(rows) : mails[r] > 0 =>
        /\ <<rows[r].company, "free">> \in Answered
        /\ rows[r].paid => <<rows[r].company, "discount">> \in Answered

\* A row gets its mail once, and once more only for an execution that began
\* while another was under way or for one that was ended from outside, between
\* the mail and the date (Sponsors.gs:67-72).
NoExtraMails == \A r \in 1 .. Len(rows) : mails[r] <= 1 + kills + overlaps

\* A company name gets one row (Sponsors.gs:26-36), and another only for an
\* execution that began while another was under way; an interruption between
\* any two steps adds none.
OneRowPerName ==
    \A c \in Companies :
        Cardinality({r \in 1 .. Len(rows) : rows[r].company = c}) <= 1 + overlaps
=============================================================================
