-------------------------- MODULE DocumentHandlers --------------------------
(***************************************************************************)
(* The command handlers that make documents of several requests: orders,   *)
(* invoices, proposals, payments, stock movements, projects and BC3 files. *)
(* None is registered; they are run here as the registry would run them    *)
(* (with the hash of a document, as CommandExecutor.confirm calls every    *)
(* handler) or as their signature has it (without).                        *)
(*                                                                         *)
(* A handler is the sequence of its steps. A step is one request or one    *)
(* computation that can go wrong; every handler answers with a failure     *)
(* when one does, and undoes nothing. Requests of several runs interleave. *)
(***************************************************************************)
EXTENDS Naturals, Sequences, FiniteSets

CONSTANTS
    Runs,   \* executions of handlers
    Names,  \* names of parties that commands ask for
    Lines   \* lines of a document

ASSUME LinesAssumption == Lines \in Nat \ {0}

VARIABLES
    wrapped,  \* whether the server puts lists into an object with "data"
    parties,  \* third parties in Dolibarr
    docs,     \* documents in Dolibarr
    job       \* job[r]: what run r knows and where it is

vars == <<wrapped, parties, docs, job>>

-----------------------------------------------------------------------------
(* The handlers. "hash": whether execute takes the hash. *)

Taking(steps)    == [hash |-> TRUE, steps |-> steps]
NotTaking(steps) == [hash |-> FALSE, steps |-> steps]

\* With "dates", a date is asked for its timestamp, which it has not: what follows is not reached.
CreateOrder          == NotTaking(<<"find", "customer", "party", "dates", "create", "lines", "validate">>)
CreateSupplierOrder  == NotTaking(<<"find", "supplier", "party", "dates", "create", "lines", "validate">>)
CreateProposal       == NotTaking(<<"find", "customer", "party", "dates", "create", "lines", "validate">>)
\* Mutated: the invoice is validated before it has its lines.
CreateInvoiceHasty   == Taking(<<"find", "customer", "party", "create", "validate", "lines">>)

CreateInvoice        == Taking(<<"find", "customer", "party", "create", "lines", "validate">>)
CreateInvoiceFromProposal == Taking(<<"givenDates", "needs", "create", "copy", "readBack">>)
CreateSupplierInvoice == Taking(<<"find", "supplier", "party", "record", "dates", "create", "lines">>)
CreatePayment        == NotTaking(<<"find", "customer", "needs", "dates", "create", "lines">>)
CreateCollection     == NotTaking(<<"find", "supplier", "needs", "dates", "create", "lines">>)
CreateStockMovement  == NotTaking(<<"needs", "dates", "needs", "create">>)
CreateProject        == NotTaking(<<"find", "customer", "party", "dates", "create">>)
CreateProjectAlone   == NotTaking(<<"dates", "create">>)  \* a project of no client
AddProjectTask       == NotTaking(<<"needs", "givenDates", "task">>)
ImportBC3            == NotTaking(<<"notImplemented">>)
ExportBC3            == NotTaking(<<"needs">>)

Handlers == {CreateOrder, CreateSupplierOrder, CreateProposal, CreateInvoice, CreateInvoiceFromProposal,
             CreateSupplierInvoice, CreatePayment, CreateCollection, CreateStockMovement, CreateProject,
             CreateProjectAlone, AddProjectTask, ImportBC3, ExportBC3}

-----------------------------------------------------------------------------

\* "left": lines not sent yet; "unread": the list of lines to copy read as empty; "saw": parties of the
\* name there were when it searched by name; "unsure": the answer to a validation was lost; "end": what
\* it answered.
Fresh == [steps |-> <<>>, at |-> 1, name |-> {}, party |-> 0, made |-> FALSE, doc |-> 0, left |-> Lines,
          unread |-> FALSE, saw |-> {}, unsure |-> FALSE, end |-> "none"]

Named(n) == {p \in parties : p.name = n}

\* A party is known before. "taxed": its tax id is what commands ask for, and on a page that is read;
\* "supplier": it is marked as one; "titled": its title holds what commands ask for, as LIKE compares.
\* One that is none of these no command finds.
Init ==
    /\ wrapped \in BOOLEAN
    /\ \E p \in [id : {1}, name : Names, taxed : BOOLEAN, supplier : BOOLEAN, titled : BOOLEAN, seen : {{}}] :
          parties = {p}
    /\ docs = {}
    /\ job  = [r \in Runs |-> Fresh]

At(r, s) == job[r].end = "running" /\ job[r].steps[job[r].at] = s

\* The next step, or the answer of success after the last.
Moved(j) == IF j.at = Len(j.steps) THEN [j EXCEPT !.end = "success"] ELSE [j EXCEPT !.at = @ + 1]

Sets(r, j) == job' = [job EXCEPT ![r] = j]
Fails(r)   == Sets(r, [job[r] EXCEPT !.end = "failed"])

\* DolibarrException: a conflict is raised again, anything else is an answer of failure.
Refused(r) == \E e \in {"failed", "conflict"} : Sets(r, [job[r] EXCEPT !.end = e])

\* CommandExecutor.confirm passes four arguments, which some handlers do not take.
Call(r) ==
    /\ job[r].end = "none"
    /\ \E h \in Handlers, n \in Names, four \in BOOLEAN :
          Sets(r, [Fresh EXCEPT !.steps = h.steps, !.name = {n},
                                !.end = IF four /\ ~h.hash THEN "failed" ELSE "running"])
    /\ UNCHANGED <<wrapped, parties, docs>>

\* A request that changes nothing, or could not be sent, fails.
ReadFails(r) ==
    /\ \E s \in {"find", "supplier", "needs", "copy", "readBack"} : At(r, s)
    /\ Refused(r)
    /\ UNCHANGED <<wrapped, parties, docs>>

\* The parties whose tax id is what was asked for; a list that is not wrapped reads as empty.
ByTaxId(n) == IF wrapped THEN {p \in Named(n) : p.taxed} ELSE {}

\* What the search by name can list: the filter asks for suppliers.
Listed(p) == wrapped /\ p.supplier /\ p.titled
ByName(n) == {p \in Named(n) : Listed(p)}

\* find_thirdparty_by_tax_id
Find(r) ==
    /\ At(r, "find")
    /\ \E n \in job[r].name :
          IF ByTaxId(n) = {} THEN Sets(r, Moved(job[r]))
          ELSE \E p \in ByTaxId(n) : Sets(r, [Moved(job[r]) EXCEPT !.party = p.id])
    /\ UNCHANGED <<wrapped, parties, docs>>

\* search_thirdparties, if the tax id led nowhere. It has no argument filter_customer, which the
\* handlers for customers pass.
SearchCustomer(r) ==
    /\ At(r, "customer")
    /\ IF job[r].party # 0 THEN Sets(r, Moved(job[r])) ELSE Fails(r)
    /\ UNCHANGED <<wrapped, parties, docs>>

SearchSupplier(r) ==
    /\ At(r, "supplier")
    /\ \E n \in job[r].name :
          LET j == [Moved(job[r]) EXCEPT !.saw = {p.id : p \in Named(n)}] IN
          IF job[r].party # 0 THEN Sets(r, Moved(job[r]))
          ELSE IF ByName(n) = {} THEN Sets(r, j)
          ELSE \E p \in ByName(n) : Sets(r, [j EXCEPT !.party = p.id])
    /\ UNCHANGED <<wrapped, parties, docs>>

\* Mutated: what the search by name found is not asked again.
Missing(j) == j.party = 0 \/ j.saw # {}

\* Whether the party is still to be created.
Unknown(j) == j.party = 0

\* Whether a handler's parties are suppliers.
Supplies(j) == \E i \in 1..Len(j.steps) : j.steps[i] = "supplier"

\* create_thirdparty, with the title that was asked for and no tax id. The answer may be lost, or without
\* an id.
Party(r) ==
    /\ At(r, "party")
    /\ IF Unknown(job[r])
       THEN \/ Refused(r) /\ UNCHANGED parties
            \/ \E n \in job[r].name, known \in BOOLEAN :
                  /\ parties' = parties \cup {[id |-> Cardinality(parties) + 1, name |-> n, taxed |-> FALSE,
                                               supplier |-> Supplies(job[r]), titled |-> TRUE,
                                               seen |-> job[r].saw]}
                  /\ IF known THEN Sets(r, [Moved(job[r]) EXCEPT !.party = Cardinality(parties) + 1, !.made = TRUE])
                              ELSE Fails(r)
       ELSE Sets(r, Moved(job[r])) /\ UNCHANGED parties
    /\ UNCHANGED <<wrapped, docs>>

\* A supplier that was created is recorded with a method the manager does not have.
Record(r) ==
    /\ At(r, "record")
    /\ IF job[r].made THEN Fails(r) ELSE Sets(r, Moved(job[r]))
    /\ UNCHANGED <<wrapped, parties, docs>>

Dates(r) ==
    /\ At(r, "dates") /\ Fails(r)
    /\ UNCHANGED <<wrapped, parties, docs>>

\* The command gives no date, or the same happens.
GivenDates(r) ==
    /\ At(r, "givenDates")
    /\ Sets(r, Moved(job[r])) \/ Fails(r)
    /\ UNCHANGED <<wrapped, parties, docs>>

\* What must be there: a party, pending invoices and an allocation; a warehouse, products and their
\* stock; a validated proposal. A project needs not: the answer 404 is an object, hence not empty.
Needs(r) ==
    /\ At(r, "needs")
    /\ Sets(r, Moved(job[r])) \/ Fails(r)
    /\ UNCHANGED <<wrapped, parties, docs>>

NotImplemented(r) ==
    /\ At(r, "notImplemented") /\ Fails(r)
    /\ UNCHANGED <<wrapped, parties, docs>>

NewDoc(r, lines) == [id |-> Cardinality(docs) + 1, by |-> r, party |-> job[r].party, lines |-> lines, valid |-> FALSE]

\* create_invoice and the like. The answer has the id, or is the id, and then the document is read.
Create(r) ==
    /\ At(r, "create")
    /\ \/ Refused(r) /\ UNCHANGED docs
       \/ /\ docs' = docs \cup {NewDoc(r, 0)}
          /\ \/ Sets(r, [Moved(job[r]) EXCEPT !.doc = Cardinality(docs) + 1])
             \/ Fails(r)
    /\ UNCHANGED <<wrapped, parties>>

\* add_project_task, whose answer has to be an object.
Task(r) ==
    /\ At(r, "task")
    /\ \/ Refused(r) /\ UNCHANGED docs
       \/ /\ docs' = docs \cup {NewDoc(r, Lines)}
          /\ \/ Sets(r, [Moved(job[r]) EXCEPT !.doc = Cardinality(docs) + 1])
             \/ Fails(r)
    /\ UNCHANGED <<wrapped, parties>>

Changed(r, d) == docs' = {IF e.id = job[r].doc THEN d ELSE e : e \in docs}
Doc(r) == CHOOSE d \in docs : d.id = job[r].doc

\* A run that sent a line.
Sent(r) == IF job[r].left = 1 THEN [Moved(job[r]) EXCEPT !.left = 0] ELSE [job[r] EXCEPT !.left = @ - 1]

\* Mutated: a line that fails is passed over.
PassedOver(r) == Sent(r)

\* A run whose line failed.
Stopped(r) == [job[r] EXCEPT !.end = "failed"]

\* add_invoice_line and the like: the line is there, is there without an answer, or is not.
SendsLine(r) ==
    \/ Changed(r, [Doc(r) EXCEPT !.lines = @ + 1]) /\ Sets(r, Sent(r))
    \/ Changed(r, [Doc(r) EXCEPT !.lines = @ + 1]) /\ Fails(r)
    \/ Sets(r, Stopped(r)) /\ UNCHANGED docs

\* One line after the other, each with the look-up of its product.
AddLine(r) ==
    /\ At(r, "lines") /\ SendsLine(r)
    /\ UNCHANGED <<wrapped, parties>>

\* The list of the proposal's lines reads as empty, because it is not wrapped or was answered with 404.
ReadsNoLines(r) ==
    /\ job[r].left = Lines
    /\ Sets(r, [Moved(job[r]) EXCEPT !.unread = TRUE])
    /\ UNCHANGED docs

\* The lines of the proposal, in a list, then one of them after the other.
Copy(r) ==
    /\ At(r, "copy")
    /\ ReadsNoLines(r) \/ (wrapped /\ SendsLine(r))
    /\ UNCHANGED <<wrapped, parties>>

\* The invoice is read again; an answer 404 has no id.
ReadBack(r) ==
    /\ At(r, "readBack")
    /\ Sets(r, Moved(job[r])) \/ Fails(r)
    /\ UNCHANGED <<wrapped, parties, docs>>

\* validate_invoice and the like
Validate(r) ==
    /\ At(r, "validate")
    /\ \/ Changed(r, [Doc(r) EXCEPT !.valid = TRUE])
          /\ (Sets(r, Moved(job[r])) \/ Sets(r, [job[r] EXCEPT !.end = "failed", !.unsure = TRUE]))
       \/ Refused(r) /\ UNCHANGED docs
    /\ UNCHANGED <<wrapped, parties>>

Next == \E r \in Runs :
    \/ Call(r) \/ ReadFails(r) \/ Find(r) \/ SearchCustomer(r) \/ SearchSupplier(r) \/ Party(r) \/ Record(r)
    \/ Dates(r) \/ GivenDates(r) \/ Needs(r) \/ NotImplemented(r) \/ Create(r) \/ Task(r)
    \/ AddLine(r) \/ Copy(r) \/ ReadBack(r) \/ Validate(r)

Spec == Init /\ [][Next]_vars

-----------------------------------------------------------------------------
(* Properties. *)

\* Whoever answers success and names a document made all of it: every line, validated where the handler
\* validates, for the party that was asked for. The exception is an invoice of a proposal whose list of
\* lines read as empty: it is answered as a success and has no line at all.
SuccessIsWhole ==
    \A r \in Runs : job[r].end = "success" /\ job[r].doc # 0 =>
        \E d \in docs :
            /\ d.id = job[r].doc /\ d.by = r
            /\ \/ d.lines = Lines
               \/ d.lines = 0 /\ job[r].unread /\ job[r].steps = CreateInvoiceFromProposal.steps
            /\ d.valid = \E i \in 1..Len(job[r].steps) : job[r].steps[i] = "validate"
            /\ d.party # 0 => \E p \in parties : p.id = d.party /\ {p.name} = job[r].name

\* What a failed command leaves behind is a draft, unless the answer to its validation was lost
\* (the handlers validate last and undo nothing).
FailureLeavesDraft ==
    \A d \in docs : d.valid => job[d.by].end = "success" \/ job[d.by].unsure

\* A second party of a name is created by a run whose search by name came before the first party, or could
\* not list it: it is no supplier, has another title, or the list could not be read (find, search and
\* create of the handlers).
TwinsAreRaced ==
    \A p, q \in parties : p.name = q.name /\ p.id < q.id /\ Listed(p) => p.id \notin q.seen
=============================================================================
