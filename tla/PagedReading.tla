---------------------------- MODULE PagedReading ----------------------------
(***************************************************************************)
(* Reading a list of Dolibarr page by page while others change it: the     *)
(* search for a third party by its tax id (client.py), the invoices of the *)
(* financial insights (insights/) with what the insights make of them, and *)
(* the one page of a supplier's invoices in which an invoice is looked for *)
(* before it is created or after its creation timed out (invoices/). A     *)
(* page is a request of its own, and nothing holds the list still between  *)
(* two of them.                                                            *)
(*                                                                         *)
(* The insights read with the tool of lists of the instance. The one that  *)
(* is registered for all instances refuses the argument they pass (see     *)
(* QueryReading); the pages are modelled with a tool of an instance that   *)
(* takes it, as the tests of the insights have it. "base" is the number of *)
(* its first page: the insights begin with 1, Dolibarr counts from 0.      *)
(***************************************************************************)
EXTENDS Integers, Sequences, FiniteSets, SequencesExt

CONSTANTS
    PageSize,   \* rows of a page
    MaxPages,   \* pages the search by tax id looks at
    RankLimit,  \* third parties a ranking shows
    MaxRows,    \* bound: rows of a list at first
    MaxEdits    \* bound: changes to the list while it is read

ASSUME PagedAssumption ==
    /\ PageSize \in Nat \ {0} /\ MaxPages \in Nat \ {0} /\ RankLimit \in Nat \ {0}
    /\ MaxRows \in Nat /\ MaxEdits \in Nat

VARIABLES
    wrapped,  \* whether Dolibarr puts lists into an object with "data"
    rows,     \* the list in Dolibarr
    reader    \* the reading in progress

pagedVars == <<wrapped, rows, reader>>

\* "was": the list when the reading began; "got": what it has read; "total": how many there are, as
\* the first answer said; "edits": what happened to the list meanwhile. The search of an invoice and
\* the insights ask for page 1 first, the search of a third party for page 0.
Unread == [kind |-> "none", base |-> 0, page |-> 0, was |-> <<>>, got |-> <<>>, total |-> 0, edits |-> <<>>]

Ends == {"found", "not_found", "read", "matched", "failed"}

PagedInit ==
    /\ wrapped \in BOOLEAN
    /\ rows   = <<>>
    /\ reader = Unread

-----------------------------------------------------------------------------
(* Rows. A row of third parties has or has not the tax id that is looked   *)
(* for. A row of invoices has a third party, its total, what is paid and,  *)
(* in some answers, what remains.                                          *)

Parties  == {[wanted |-> w] : w \in BOOLEAN}
Invoices == {[party |-> 1, ttc |-> 2, paid |-> 0, remain |-> {}], [party |-> 1, ttc |-> 2, paid |-> 3, remain |-> {}],
             [party |-> 2, ttc |-> 3, paid |-> 0, remain |-> {}], [party |-> 2, ttc |-> 3, paid |-> 0, remain |-> {0}]}

\* An invoice of a supplier beside the one in hand: its supplier's number is the same, another or not
\* recorded, Dolibarr's own reference may be the same; date and total are compared if they are there.
Verdicts == {"match", "mismatch", "not_available"}
Booked   == [number : {"same"}, ref : {FALSE}, date : Verdicts, total : Verdicts]
            \cup [number : {"none"}, ref : {TRUE}, date : Verdicts, total : Verdicts]
            \cup [number : {"other"}, ref : BOOLEAN, date : {"match"}, total : {"match"}]

Rows(kind) == CASE kind = "find" -> Parties [] kind = "match" -> Booked [] OTHER -> Invoices

\* Bound: one invoice more than a page has for a search.
MostRows(kind) == IF kind = "match" THEN PageSize + 1 ELSE MaxRows

\* The rows in order, each with a number of its own.
Numbered(list) == [i \in 1..Len(list) |-> [id |-> i, row |-> list[i]]]

\* Page p of the list, whose pages count from base.
PageAt(p, base) ==
    LET first == (p - base) * PageSize IN
    SubSeq(rows, first + 1, IF first + PageSize < Len(rows) THEN first + PageSize ELSE Len(rows))

-----------------------------------------------------------------------------

Begin(kind) ==
    /\ reader = Unread
    /\ \E n \in 0..MostRows(kind), base \in {0, 1} : \E list \in [1..n -> Rows(kind)] :
          /\ rows'   = Numbered(list)
          /\ reader' = [Unread EXCEPT !.kind = kind, !.base = IF kind = "find" THEN 0 ELSE base, !.was = Numbered(list),
                                      !.page = IF kind = "find" THEN 0 ELSE 1]
    /\ UNCHANGED wrapped

Reading(kind) == reader.kind = kind
Is(kind, r)  == [r EXCEPT !.kind = kind]

\* list_thirdparties: a list that is not wrapped reads as empty.
ThirdpartiesOn == IF wrapped THEN PageAt(reader.page, 0) ELSE <<>>

\* Mutated: the search counts pages from 1, as the other reads do.
ThirdpartiesFromOne == IF wrapped THEN PageAt(reader.page + 1, 0) ELSE <<>>

\* One page of find_thirdparty_by_tax_id.
FindByTaxId(page) ==
    IF \E i \in 1..Len(page) : page[i].row.wanted THEN Is("found", reader)
    ELSE IF Len(page) < PageSize \/ reader.page + 1 = MaxPages THEN Is("not_found", reader)
    ELSE [reader EXCEPT !.page = @ + 1]

Find ==
    /\ Reading("find")
    /\ reader' \in {FindByTaxId(ThirdpartiesOn), Is("failed", reader)}
    /\ UNCHANGED <<wrapped, rows>>

\* The first request of an insight, which also learns how many invoices there are.
FirstAnswer ==
    LET page == PageAt(1, reader.base) IN
    [reader EXCEPT !.got = page, !.total = Len(rows), !.page = 2,
                   !.kind = IF Len(rows) > Len(page) THEN "more" ELSE "read"]

\* Mutated: the second request is for the page the first one had.
NextAnswerAgain ==
    LET page == PageAt(reader.page - 1, reader.base)
        all  == reader.got \o page IN
    [reader EXCEPT !.got = all, !.page = @ + 1,
                   !.kind = IF Len(page) < PageSize \/ Len(all) >= reader.total THEN "read" ELSE "more"]

\* The others, until it has as many, or a page is empty or short.
NextAnswer ==
    LET page == PageAt(reader.page, reader.base)
        all  == reader.got \o page IN
    [reader EXCEPT !.got = all, !.page = @ + 1,
                   !.kind = IF Len(page) < PageSize \/ Len(all) >= reader.total THEN "read" ELSE "more"]

ReadInvoices ==
    /\ \/ Reading("insight") /\ reader' \in {FirstAnswer, Is("failed", reader)}
       \/ Reading("more")    /\ reader' \in {NextAnswer, Is("failed", reader)}
    /\ UNCHANGED <<wrapped, rows>>

\* list_supplier_invoices, for the invoices of one supplier. The 500 rows asked for are cut to a page
\* of 100; a list that is not wrapped reads as empty.
SearchInvoice ==
    /\ Reading("match")
    /\ reader' \in {[Is("matched", reader) EXCEPT !.got = IF wrapped THEN PageAt(1, reader.base) ELSE <<>>],
                    Is("failed", reader)}
    /\ UNCHANGED <<wrapped, rows>>

\* Others in Dolibarr: third parties are listed in the order of their ids, invoices by date.
Edits(what) ==
    /\ reader.kind \in {"find", "insight", "more"}
    /\ Len(reader.edits) < MaxEdits
    /\ reader' = [reader EXCEPT !.edits = Append(@, what)]
    /\ UNCHANGED wrapped

Insert ==
    /\ Edits("insert")
    /\ \E i \in (IF Reading("find") THEN {Len(rows) + 1} ELSE 1..(Len(rows) + 1)), row \in Rows(reader.kind) :
          rows' = InsertAt(rows, i, [id |-> MaxRows + Len(reader'.edits), row |-> row])

Delete ==
    /\ Edits("delete")
    /\ \E i \in 1..Len(rows) : rows' = RemoveAt(rows, i)

\* Whoever asked has the answer.
Close ==
    /\ reader.kind \in Ends
    /\ rows' = <<>> /\ reader' = Unread
    /\ UNCHANGED wrapped

PagedNext == Begin("find") \/ Begin("insight") \/ Begin("match") \/ Find \/ ReadInvoices \/ SearchInvoice \/ Insert \/ Delete \/ Close

-----------------------------------------------------------------------------
(* What the insights make of the invoices they have read.                  *)

Total(amounts) ==
    LET upTo[n \in 0..Len(amounts)] == IF n = 0 THEN 0 ELSE upTo[n - 1] + amounts[n]
    IN  upTo[Len(amounts)]

\* What remains to be paid, if the answer does not say it.
Remaining(r) ==
    IF r.row.remain # {} THEN CHOOSE x \in r.row.remain : TRUE
    ELSE IF r.row.ttc > 0 THEN r.row.ttc - r.row.paid ELSE 0

\* customer_invoice_summary, and that of one third party: an invoice paid twice counts as less than nothing.
SummaryOutstanding(invoices) == Total([i \in 1..Len(invoices) |-> Remaining(invoices[i])])
SummaryByThirdparty(invoices, p) ==
    Total([i \in 1..Len(invoices) |-> IF invoices[i].row.party = p THEN Remaining(invoices[i]) ELSE 0])

\* Mutated: the ranking takes them all.
Taken(r) == TRUE

\* Invoices with something left to pay.
Pending(r) == Remaining(r) > 0

\* customer_outstanding_summary
OutstandingSummary(invoices) ==
    Total([i \in 1..Len(invoices) |-> IF Remaining(invoices[i]) > 0 THEN Remaining(invoices[i]) ELSE 0])

\* customer_outstanding_by_thirdparty: the third parties who owe most, and the sum of what they owe. Of
\* those who owe as much any may come first.
Debtors(invoices) == {invoices[i].row.party : i \in {j \in 1..Len(invoices) : Pending(invoices[j])}}

Owes(invoices, p) ==
    Total([i \in 1..Len(invoices) |->
              IF Pending(invoices[i]) /\ invoices[i].row.party = p THEN Remaining(invoices[i]) ELSE 0])

Ranked(invoices) == IF Cardinality(Debtors(invoices)) < RankLimit THEN Cardinality(Debtors(invoices)) ELSE RankLimit

OutstandingByThirdparty(invoices) ==
    {order \in [1..Ranked(invoices) -> Debtors(invoices)] :
        /\ \A i, j \in 1..Ranked(invoices) : order[i] = order[j] => i = j
        /\ \A i \in 1..Ranked(invoices), p \in Debtors(invoices) :
              Owes(invoices, p) > Owes(invoices, order[i]) => \E j \in 1..(i - 1) : order[j] = p}

TotalOutstanding(invoices, order) == Total([i \in 1..Len(order) |-> Owes(invoices, order[i])])

-----------------------------------------------------------------------------
(* Whether the invoice in hand is among those of a page.                   *)

\* Mutated: Dolibarr's own reference counts as much as the supplier's number.
CandidatesPooled(invoices) == {r \in ToSet(invoices) : r.row.number = "same" \/ r.row.ref}

\* By the number of the supplier; if none has it, by Dolibarr's reference, of those without a number.
Candidates(invoices) ==
    LET primary == {r \in ToSet(invoices) : r.row.number = "same"}
    IN  IF primary # {} THEN primary ELSE {r \in ToSet(invoices) : r.row.number = "none" /\ r.row.ref}

\* reconcile_with_dolibarr: which invoice may be adopted after a timeout.
Agrees(r) == r.row.date = "match" /\ r.row.total = "match"

Reconciled(invoices) ==
    LET valid  == {r \in Candidates(invoices) : "mismatch" \notin {r.row.date, r.row.total}}
        strong == {r \in valid : Agrees(r)}
    IN  CASE valid = {}                   -> <<"no_match", 0>>
          [] \E r \in strong : strong = {r} -> <<"unique_match", (CHOOSE r \in strong : TRUE).id>>
          [] OTHER                        -> <<"ambiguous_match", 0>>

\* check_duplicate_in_dolibarr: whether one must not be created, and the first that stands against it.
DuplicateCheck(invoices) ==
    IF Candidates(invoices) = {} THEN <<"no_match", 0>>
    ELSE LET first == CHOOSE i \in 1..Len(invoices) :
                          /\ invoices[i] \in Candidates(invoices)
                          /\ \A j \in 1..(i - 1) : invoices[j] \notin Candidates(invoices)
         IN  <<"match", invoices[first].id>>

\* The search of ConfirmSupplierInvoiceHandler, by either number.
DuplicateExists(invoices) == \E i \in 1..Len(invoices) : invoices[i].row.number = "same" \/ invoices[i].row.ref

-----------------------------------------------------------------------------
(* Properties. *)

Edited(what) == \E i \in 1..Len(reader.edits) : reader.edits[i] = what
Listed(list) == {list[i].id : i \in 1..Len(list)}

\* The pages of a reading make one list (find_thirdparty_by_tax_id and the loops of the insights). A
\* third party who is there all the time is found, unless it stands beyond the last page that is looked
\* at, or a deletion moved it to a page already read. Invoices that nobody touches are read once each,
\* from the second page on if the tool counts from 0; without an insertion none is read twice.
ReadingIsWhole ==
    /\ Reading("not_found") /\ wrapped /\ ~Edited("delete") =>
          \A i \in 1..Len(reader.was) : reader.was[i].row.wanted => i > PageSize * MaxPages
    /\ Reading("read") =>
          /\ reader.edits = <<>> =>
                reader.got = SubSeq(reader.was, (1 - reader.base) * PageSize + 1, Len(reader.was))
          /\ ~Edited("insert") => Cardinality(Listed(reader.got)) = Len(reader.got)

\* The insights agree about what is owed, whatever was read: the ranking, when it shows everyone, adds up
\* to the outstanding summary, and to no more when it is cut off; the summary of invoices, which counts
\* what was paid twice against the rest, says no more than that, and the one of a third party no more
\* than the ranking says of it (summaries of insights/).
InsightsAgree ==
    Reading("read") =>
        LET got  == reader.got
            owed == OutstandingSummary(got) IN
        /\ \A order \in OutstandingByThirdparty(got) :
              /\ TotalOutstanding(got, order) <= owed
              /\ Cardinality(Debtors(got)) <= RankLimit => TotalOutstanding(got, order) = owed
        /\ SummaryOutstanding(got) <= owed
        /\ \A p \in Debtors(got) : SummaryByThirdparty(got, p) <= Owes(got, p)

\* The three searches for an invoice agree on the page they read: what the reconciliation may adopt is
\* the only one to agree with the invoice in hand, the check of duplicates refuses it, by that invoice if
\* there is no other candidate, and so does the confirmation, which refuses more only for a reference of
\* Dolibarr's. And an invoice that is there with the number of the supplier is missed only outside that
\* page, which is the second where pages count from 0 (reconcile_with_dolibarr,
\* check_duplicate_in_dolibarr, ConfirmSupplierInvoiceHandler).
SearchesAgree ==
    Reading("matched") =>
        LET got  == ToSet(reader.got)
            same == {r \in got : r.row.number = "same"} IN
        /\ \A r \in got : Reconciled(reader.got) = <<"unique_match", r.id>> =>
              /\ r \in same \/ (same = {} /\ r.row.ref)
              /\ {q \in got : Agrees(q) /\ q.row.number = r.row.number} = {r}
              /\ Candidates(reader.got) = {r} => DuplicateCheck(reader.got) = <<"match", r.id>>
        /\ Reconciled(reader.got)[1] # "no_match" => DuplicateCheck(reader.got)[1] = "match"
        /\ DuplicateCheck(reader.got)[1] = "match" => DuplicateExists(reader.got)
        /\ DuplicateExists(reader.got) /\ DuplicateCheck(reader.got)[1] = "no_match" =>
              \E r \in got : r.row.ref /\ r.row.number = "other"
        /\ wrapped /\ ~DuplicateExists(reader.got) =>
              \A i \in 1..Len(reader.was) : reader.was[i].row.number = "same" =>
                  i <= (1 - reader.base) * PageSize \/ i > (2 - reader.base) * PageSize
=============================================================================
