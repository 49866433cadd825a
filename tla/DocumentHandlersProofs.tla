----------------------- MODULE DocumentHandlersProofs -----------------------
(***************************************************************************)
(* Proofs about DocumentHandlers, for any number of runs and lines.        *)
(***************************************************************************)
EXTENDS DocumentHandlers, FiniteSetTheorems, TLAPS

-----------------------------------------------------------------------------
(* What the sequences of steps have in common. *)

Has(s, x) == \E i \in 1..Len(s) : s[i] = x

Party3 == {"find", "supplier", "party"}

(* The party is known before the document is made, the document before its     *)
(* lines, and a validation is the end.                                         *)
Sound(s) ==
    /\ Len(s) \in Nat \ {0}
    /\ \A i \in 1..Len(s), k \in 1..Len(s) :
          /\ s[i] \in {"create", "task"} /\ s[k] \in {"create", "task"} => i = k
          /\ s[i] \in Party3 /\ s[k] \in {"create", "task"} => i < k
          /\ s[i] \in {"lines", "copy"} /\ s[k] \in {"lines", "copy"} => i = k
          /\ s[i] \in {"lines", "copy"} => s[k] # "task"
    /\ \A i \in 1..Len(s) :
          /\ s[i] \in {"lines", "copy", "validate"} => \E k \in 1..Len(s) : k < i /\ s[k] = "create"
          /\ s[i] = "validate" => i = Len(s)

(* The handlers that get as far as a document make the whole of it.            *)
Whole(s) ==
    /\ Has(s, "create") /\ ~Has(s, "dates") => Has(s, "lines") \/ Has(s, "copy")
    /\ Has(s, "copy") => s = CreateInvoiceFromProposal.steps

Known == {h.steps : h \in Handlers}

LEMMA HandlersAreSound ==
    /\ \A s \in Known : Sound(s) /\ Whole(s)
    /\ Has(CreateInvoiceFromProposal.steps, "copy")
<1>1. Sound(CreateOrder.steps) /\ Whole(CreateOrder.steps)
  <2>1. PICK s : s = CreateOrder.steps
    OBVIOUS
  <2>2. /\ Len(s) = 7
        /\ s[1] = "find" /\ s[2] = "customer" /\ s[3] = "party" /\ s[4] = "dates" /\ s[5] = "create" /\ s[6] = "lines" /\ s[7] = "validate"
    BY <2>1 DEF CreateOrder, Taking, NotTaking
  <2>3. Sound(s)
    BY <2>2 DEF Sound, Party3
  <2>4. Whole(s)
    BY <2>1, <2>2 DEF Whole, Has
  <2>5. QED
    BY <2>1, <2>3, <2>4
<1>2. Sound(CreateSupplierOrder.steps) /\ Whole(CreateSupplierOrder.steps)
  <2>1. PICK s : s = CreateSupplierOrder.steps
    OBVIOUS
  <2>2. /\ Len(s) = 7
        /\ s[1] = "find" /\ s[2] = "supplier" /\ s[3] = "party" /\ s[4] = "dates" /\ s[5] = "create" /\ s[6] = "lines" /\ s[7] = "validate"
    BY <2>1 DEF CreateSupplierOrder, Taking, NotTaking
  <2>3. Sound(s)
    BY <2>2 DEF Sound, Party3
  <2>4. Whole(s)
    BY <2>1, <2>2 DEF Whole, Has
  <2>5. QED
    BY <2>1, <2>3, <2>4
<1>3. Sound(CreateProposal.steps) /\ Whole(CreateProposal.steps)
  <2>1. PICK s : s = CreateProposal.steps
    OBVIOUS
  <2>2. /\ Len(s) = 7
        /\ s[1] = "find" /\ s[2] = "customer" /\ s[3] = "party" /\ s[4] = "dates" /\ s[5] = "create" /\ s[6] = "lines" /\ s[7] = "validate"
    BY <2>1 DEF CreateProposal, Taking, NotTaking
  <2>3. Sound(s)
    BY <2>2 DEF Sound, Party3
  <2>4. Whole(s)
    BY <2>1, <2>2 DEF Whole, Has
  <2>5. QED
    BY <2>1, <2>3, <2>4
<1>4. Sound(CreateInvoice.steps) /\ Whole(CreateInvoice.steps)
  <2>1. PICK s : s = CreateInvoice.steps
    OBVIOUS
  <2>2. /\ Len(s) = 6
        /\ s[1] = "find" /\ s[2] = "customer" /\ s[3] = "party" /\ s[4] = "create" /\ s[5] = "lines" /\ s[6] = "validate"
    BY <2>1 DEF CreateInvoice, Taking, NotTaking
  <2>3. Sound(s)
    BY <2>2 DEF Sound, Party3
  <2>4. Whole(s)
    BY <2>1, <2>2 DEF Whole, Has
  <2>5. QED
    BY <2>1, <2>3, <2>4
<1>5. Sound(CreateInvoiceFromProposal.steps) /\ Whole(CreateInvoiceFromProposal.steps) /\ Has(CreateInvoiceFromProposal.steps, "copy")
  <2>1. PICK s : s = CreateInvoiceFromProposal.steps
    OBVIOUS
  <2>2. /\ Len(s) = 5
        /\ s[1] = "givenDates" /\ s[2] = "needs" /\ s[3] = "create" /\ s[4] = "copy" /\ s[5] = "readBack"
    BY <2>1 DEF CreateInvoiceFromProposal, Taking, NotTaking
  <2>3. Sound(s)
    BY <2>2 DEF Sound, Party3
  <2>4. Whole(s) /\ Has(s, "copy")
    BY <2>1, <2>2 DEF Whole, Has
  <2>5. QED
    BY <2>1, <2>3, <2>4
<1>6. Sound(CreateSupplierInvoice.steps) /\ Whole(CreateSupplierInvoice.steps)
  <2>1. PICK s : s = CreateSupplierInvoice.steps
    OBVIOUS
  <2>2. /\ Len(s) = 7
        /\ s[1] = "find" /\ s[2] = "supplier" /\ s[3] = "party" /\ s[4] = "record" /\ s[5] = "dates" /\ s[6] = "create" /\ s[7] = "lines"
    BY <2>1 DEF CreateSupplierInvoice, Taking, NotTaking
  <2>3. Sound(s)
    BY <2>2 DEF Sound, Party3
  <2>4. Whole(s)
    BY <2>1, <2>2 DEF Whole, Has
  <2>5. QED
    BY <2>1, <2>3, <2>4
<1>7. Sound(CreatePayment.steps) /\ Whole(CreatePayment.steps)
  <2>1. PICK s : s = CreatePayment.steps
    OBVIOUS
  <2>2. /\ Len(s) = 6
        /\ s[1] = "find" /\ s[2] = "customer" /\ s[3] = "needs" /\ s[4] = "dates" /\ s[5] = "create" /\ s[6] = "lines"
    BY <2>1 DEF CreatePayment, Taking, NotTaking
  <2>3. Sound(s)
    BY <2>2 DEF Sound, Party3
  <2>4. Whole(s)
    BY <2>1, <2>2 DEF Whole, Has
  <2>5. QED
    BY <2>1, <2>3, <2>4
<1>8. Sound(CreateCollection.steps) /\ Whole(CreateCollection.steps)
  <2>1. PICK s : s = CreateCollection.steps
    OBVIOUS
  <2>2. /\ Len(s) = 6
        /\ s[1] = "find" /\ s[2] = "supplier" /\ s[3] = "needs" /\ s[4] = "dates" /\ s[5] = "create" /\ s[6] = "lines"
    BY <2>1 DEF CreateCollection, Taking, NotTaking
  <2>3. Sound(s)
    BY <2>2 DEF Sound, Party3
  <2>4. Whole(s)
    BY <2>1, <2>2 DEF Whole, Has
  <2>5. QED
    BY <2>1, <2>3, <2>4
<1>9. Sound(CreateStockMovement.steps) /\ Whole(CreateStockMovement.steps)
  <2>1. PICK s : s = CreateStockMovement.steps
    OBVIOUS
  <2>2. /\ Len(s) = 4
        /\ s[1] = "needs" /\ s[2] = "dates" /\ s[3] = "needs" /\ s[4] = "create"
    BY <2>1 DEF CreateStockMovement, Taking, NotTaking
  <2>3. Sound(s)
    BY <2>2 DEF Sound, Party3
  <2>4. Whole(s)
    BY <2>1, <2>2 DEF Whole, Has
  <2>5. QED
    BY <2>1, <2>3, <2>4
<1>10. Sound(CreateProject.steps) /\ Whole(CreateProject.steps)
  <2>1. PICK s : s = CreateProject.steps
    OBVIOUS
  <2>2. /\ Len(s) = 5
        /\ s[1] = "find" /\ s[2] = "customer" /\ s[3] = "party" /\ s[4] = "dates" /\ s[5] = "create"
    BY <2>1 DEF CreateProject, Taking, NotTaking
  <2>3. Sound(s)
    BY <2>2 DEF Sound, Party3
  <2>4. Whole(s)
    BY <2>1, <2>2 DEF Whole, Has
  <2>5. QED
    BY <2>1, <2>3, <2>4
<1>11. Sound(CreateProjectAlone.steps) /\ Whole(CreateProjectAlone.steps)
  <2>1. PICK s : s = CreateProjectAlone.steps
    OBVIOUS
  <2>2. /\ Len(s) = 2
        /\ s[1] = "dates" /\ s[2] = "create"
    BY <2>1 DEF CreateProjectAlone, Taking, NotTaking
  <2>3. Sound(s)
    BY <2>2 DEF Sound, Party3
  <2>4. Whole(s)
    BY <2>1, <2>2 DEF Whole, Has
  <2>5. QED
    BY <2>1, <2>3, <2>4
<1>12. Sound(AddProjectTask.steps) /\ Whole(AddProjectTask.steps)
  <2>1. PICK s : s = AddProjectTask.steps
    OBVIOUS
  <2>2. /\ Len(s) = 3
        /\ s[1] = "needs" /\ s[2] = "givenDates" /\ s[3] = "task"
    BY <2>1 DEF AddProjectTask, Taking, NotTaking
  <2>3. Sound(s)
    BY <2>2 DEF Sound, Party3
  <2>4. Whole(s)
    BY <2>1, <2>2 DEF Whole, Has
  <2>5. QED
    BY <2>1, <2>3, <2>4
<1>13. Sound(ImportBC3.steps) /\ Whole(ImportBC3.steps)
  <2>1. PICK s : s = ImportBC3.steps
    OBVIOUS
  <2>2. /\ Len(s) = 1
        /\ s[1] = "notImplemented"
    BY <2>1 DEF ImportBC3, Taking, NotTaking
  <2>3. Sound(s)
    BY <2>2 DEF Sound, Party3
  <2>4. Whole(s)
    BY <2>1, <2>2 DEF Whole, Has
  <2>5. QED
    BY <2>1, <2>3, <2>4
<1>14. Sound(ExportBC3.steps) /\ Whole(ExportBC3.steps)
  <2>1. PICK s : s = ExportBC3.steps
    OBVIOUS
  <2>2. /\ Len(s) = 1
        /\ s[1] = "needs"
    BY <2>1 DEF ExportBC3, Taking, NotTaking
  <2>3. Sound(s)
    BY <2>2 DEF Sound, Party3
  <2>4. Whole(s)
    BY <2>1, <2>2 DEF Whole, Has
  <2>5. QED
    BY <2>1, <2>3, <2>4
<1>15. QED
  BY <1>1, <1>2, <1>3, <1>4, <1>5, <1>6, <1>7, <1>8, <1>9, <1>10, <1>11, <1>12, <1>13, <1>14 DEF Known, Handlers

-----------------------------------------------------------------------------
(* Types. Documents have the numbers from 1, each its own. *)

Ends == {"none", "running", "success", "failed", "conflict"}

Jobs == [steps : Known \cup {<<>>}, at : Nat, name : SUBSET Names, party : Nat, made : BOOLEAN, doc : Nat,
         left : Nat, unread : BOOLEAN, saw : SUBSET Nat, unsure : BOOLEAN, end : Ends]

Docs == [id : Nat, by : Runs, party : Nat, lines : Nat, valid : BOOLEAN]

Numbered(D) ==
    /\ IsFiniteSet(D) /\ D \subseteq Docs
    /\ \A d \in D : d.id \in 1..Cardinality(D)
    /\ \A d, e \in D : d.id = e.id => d = e

JobsTyped ==
    /\ job \in [Runs -> Jobs]
    /\ \A r \in Runs : job[r].end = "running" =>
          job[r].steps \in Known /\ job[r].at \in 1..Len(job[r].steps)

\* A number of a party that the search by name does not list.
Hidden(i) == \E p \in parties : p.id = i /\ ~Listed(p)

\* Parties have the numbers from 1, each its own. Whoever created one had only seen hidden namesakes.
PartiesTyped ==
    /\ IsFiniteSet(parties)
    /\ \A p \in parties : p.id \in 1..Cardinality(parties) /\ \A i \in p.seen : Hidden(i)
    /\ \A p, q \in parties : p.id = q.id => p = q

Typed == JobsTyped /\ PartiesTyped /\ Numbered(docs)

(* The numbers of parties are positive, and what was hidden stays so. *)
LEMMA PartyIds == PartiesTyped => \A p \in parties : p.id \in Nat \ {0}
  BY FS_CardinalityType DEF PartiesTyped

LEMMA SameParties == PartiesTyped /\ UNCHANGED <<wrapped, parties>> => PartiesTyped'
  BY DEF PartiesTyped, Hidden, Listed

(* A party that is added has the next number. *)
LEMMA PartiesAdd ==
    ASSUME PartiesTyped, NEW p, p.id = Cardinality(parties) + 1, \A i \in p.seen : Hidden(i),
           parties' = parties \cup {p}, wrapped' = wrapped
    PROVE  PartiesTyped'
<1>1. Cardinality(parties) \in Nat /\ \A q \in parties : q.id \in 1..Cardinality(parties)
  BY FS_CardinalityType DEF PartiesTyped
<1>2. \A q \in parties : q.id # p.id
  BY <1>1
<1>3. p \notin parties
  BY <1>2
<1>4. IsFiniteSet(parties') /\ Cardinality(parties') = Cardinality(parties) + 1
  BY <1>3, FS_AddElement DEF PartiesTyped
<1>5. \A i : Hidden(i) => Hidden(i)'
  BY DEF Hidden, Listed
<1>6. \A q \in parties' : q.id \in 1..Cardinality(parties') /\ \A i \in q.seen : Hidden(i)'
  BY <1>1, <1>4, <1>5 DEF PartiesTyped
<1>7. \A q, t \in parties' : q.id = t.id => q = t
  BY <1>2 DEF PartiesTyped
<1>8. QED
  BY <1>4, <1>6, <1>7 DEF PartiesTyped

(* A document that is added has the next number. *)
LEMMA NumberedAdd ==
    ASSUME NEW D, Numbered(D), NEW d \in Docs, d.id = Cardinality(D) + 1
    PROVE  Numbered(D \cup {d})
<1>1. Cardinality(D) \in Nat
  BY FS_CardinalityType DEF Numbered
<1>2. d \notin D
  BY <1>1 DEF Numbered
<1>3. IsFiniteSet(D \cup {d}) /\ Cardinality(D \cup {d}) = Cardinality(D) + 1
  BY <1>2, FS_AddElement DEF Numbered
<1>4. \A e \in D : e.id \in 1..Cardinality(D)
  BY DEF Numbered
<1>5. \A e \in D : e.id # d.id /\ e.id \in 1..(Cardinality(D) + 1)
  BY <1>1, <1>4
<1>6. \A e \in D \cup {d} : e.id \in 1..(Cardinality(D) + 1)
  BY <1>1, <1>5
<1>7. QED
  BY <1>3, <1>5, <1>6 DEF Numbered

(* A document that is changed keeps its number. *)
LEMMA NumberedChange ==
    ASSUME NEW D, Numbered(D), NEW e \in D, NEW d \in Docs, d.id = e.id
    PROVE  /\ {IF x.id = e.id THEN d ELSE x : x \in D} = (D \ {e}) \cup {d}
           /\ Numbered((D \ {e}) \cup {d})
<1>1. \A x \in D : x.id = e.id <=> x = e
  BY DEF Numbered
<1>2. {IF x.id = e.id THEN d ELSE x : x \in D} = (D \ {e}) \cup {d}
  BY <1>1
<1>3. d \notin D \ {e}
  BY <1>1
<1>4. IsFiniteSet(D) /\ Cardinality(D) \in Nat /\ \A x \in D : x.id \in 1..Cardinality(D)
  BY FS_CardinalityType DEF Numbered
<1>5. IsFiniteSet(D \ {e}) /\ Cardinality(D \ {e}) = Cardinality(D) - 1
  BY <1>4, FS_RemoveElement
<1>6. IsFiniteSet((D \ {e}) \cup {d}) /\ Cardinality((D \ {e}) \cup {d}) = Cardinality(D)
  <2>1. /\ IsFiniteSet((D \ {e}) \cup {d})
        /\ Cardinality((D \ {e}) \cup {d}) = Cardinality(D \ {e}) + 1
    BY <1>3, <1>5, FS_AddElement
  <2>2. QED
    BY <1>4, <1>5, <2>1
<1>7. \A x \in (D \ {e}) \cup {d} : x \in Docs /\ x.id \in 1..Cardinality(D)
  BY <1>4 DEF Numbered
<1>8. \A x, y \in (D \ {e}) \cup {d} : x.id = y.id => x = y
  BY <1>1 DEF Numbered
<1>9. QED
  BY <1>2, <1>6, <1>7, <1>8 DEF Numbered

-----------------------------------------------------------------------------
(***************************************************************************)
(* What a run has made. A step is passed once the run is beyond it; as     *)
(* long as the run has not failed, its document is what the steps passed   *)
(* so far have made of it.                                                 *)
(***************************************************************************)

Passed(j, x) == \E i \in 1..Len(j.steps) : j.steps[i] = x /\ (j.end = "success" \/ i < j.at)

Fine(j) == j.end \in {"running", "success"}

LinesTold(j) ==
    /\ j.left \in 0..Lines
    /\ Passed(j, "lines") => j.left = 0
    /\ Passed(j, "copy") => j.unread \/ j.left = 0
    /\ j.unread => Passed(j, "copy") /\ j.left = Lines
    /\ ~Passed(j, "lines") /\ ~Passed(j, "copy") => j.left # 0
    /\ ~Passed(j, "create") /\ ~Passed(j, "task") => j.left = Lines

PartyTold(j) ==
    /\ j.party # 0 => \E p \in parties : p.id = j.party /\ {p.name} = j.name
    /\ j.party = 0 => \A i \in j.saw : Hidden(i)
    /\ \E n \in Names : j.name = {n}

Made(r, d) ==
    LET j == job[r] IN
    /\ d.id = j.doc /\ d.by = r /\ d.party = j.party
    /\ d.lines = IF Passed(j, "task") THEN Lines ELSE Lines - j.left
    /\ d.valid <=> Passed(j, "validate")

Own(r) ==
    LET j == job[r] IN
    Fine(j) =>
        /\ j.steps \in Known
        /\ ~j.unsure /\ ~Passed(j, "dates") /\ ~Passed(j, "notImplemented")
        /\ j.doc # 0 <=> Passed(j, "create") \/ Passed(j, "task")
        /\ j.doc # 0 => \E d \in docs : Made(r, d)
        /\ LinesTold(j) /\ PartyTold(j)

(* A valid document belongs to a run that succeeded or lost an answer; a run   *)
(* is unsure only when it has ended.                                           *)
Drafts ==
    /\ FailureLeavesDraft
    /\ \A r \in Runs : job[r].unsure => job[r].end = "failed"

HandlersInv == Typed /\ Drafts /\ \A r \in Runs : Own(r)

(* The step a run is at is passed by moving on. *)
LEMMA MovedPasses ==
    ASSUME NEW j \in Jobs, j.steps \in Known, j.end = "running", j.at \in 1..Len(j.steps),
           NEW k, k.steps = j.steps, k.at = Moved(j).at, k.end = Moved(j).end
    PROVE  /\ \A x : Passed(k, x) <=> Passed(j, x) \/ j.steps[j.at] = x
           /\ k.end \in {"running", "success"}
           /\ k.at \in 1..Len(j.steps)
           /\ k.end = "success" <=> j.at = Len(j.steps)
<1>1. Len(j.steps) \in Nat /\ j.at \in Nat
  BY HandlersAreSound DEF Sound
<1>2. CASE j.at = Len(j.steps)
  <2>1. k.at = j.at /\ k.end = "success"
    BY <1>2 DEF Moved, Jobs
  <2>2. QED
    BY <1>1, <1>2, <2>1 DEF Passed
<1>3. CASE j.at # Len(j.steps)
  <2>1. k.at = j.at + 1 /\ k.end = "running"
    BY <1>3 DEF Moved, Jobs
  <2>2. QED
    BY <1>1, <1>3, <2>1 DEF Passed
<1>4. QED
  BY <1>2, <1>3

(* What the others made stands. *)
LEMMA OthersOwn ==
    ASSUME NEW s \in Runs, Own(s), job'[s] = job[s], wrapped' = wrapped, parties \subseteq parties',
           \A d \in docs : d.by = s => d \in docs'
    PROVE  Own(s)'
<1>1. \A i : Hidden(i) => Hidden(i)'
  BY DEF Hidden, Listed
<1>2. QED
  BY <1>1 DEF Own, Fine, Made, Passed, LinesTold, PartyTold

(* A step of run r that leaves what the others made. *)
LEMMA StepKeeps ==
    ASSUME HandlersInv, NEW r \in Runs, NEW k \in Jobs, job[r].end \in {"none", "running"},
           job' = [job EXCEPT ![r] = k],
           k.end = "running" => k.steps \in Known /\ k.at \in 1..Len(k.steps),
           k.unsure => k.end = "failed",
           wrapped' = wrapped, parties \subseteq parties', PartiesTyped', Numbered(docs'),
           \A d \in docs : d.by # r => d \in docs',
           \A d \in docs' : d.valid => d \in docs \/ (d.by = r /\ (k.end = "success" \/ k.unsure)),
           Own(r)'
    PROVE  HandlersInv'
<1>1. job \in [Runs -> Jobs] /\ job'[r] = k /\ \A s \in Runs : s # r => job'[s] = job[s]
  BY DEF HandlersInv, Typed, JobsTyped
<1>2. JobsTyped'
  BY <1>1 DEF HandlersInv, Typed, JobsTyped
<1>3. ASSUME NEW s \in Runs PROVE Own(s)'
  BY <1>1, OthersOwn DEF HandlersInv
<1>4. \A s \in Runs : job'[s].unsure => job'[s].end = "failed"
  BY <1>1 DEF HandlersInv, Drafts
<1>5. ASSUME NEW d \in docs', d.valid PROVE job'[d.by].end = "success" \/ job'[d.by].unsure
  <2>1. d.by \in Runs
    BY <1>5 DEF Numbered, Docs
  <2>2. CASE d \in docs
    <3>1. job[d.by].end = "success" \/ job[d.by].unsure
      BY <1>5, <2>2 DEF HandlersInv, Drafts, FailureLeavesDraft
    <3>2. d.by # r
      BY <3>1 DEF HandlersInv, Drafts
    <3>3. QED
      BY <1>1, <2>1, <3>1, <3>2
  <2>3. QED
    BY <1>1, <1>5, <2>2
<1>6. QED
  BY <1>2, <1>3, <1>4, <1>5 DEF HandlersInv, Typed, Drafts, FailureLeavesDraft

(* A run that ends with a failure. *)
LEMMA FailureKeeps ==
    ASSUME HandlersInv, NEW r \in Runs, NEW k \in Jobs, job[r].end \in {"none", "running"},
           job' = [job EXCEPT ![r] = k], k.end \in {"failed", "conflict"}, k.unsure => k.end = "failed",
           wrapped' = wrapped, parties \subseteq parties', PartiesTyped', Numbered(docs'),
           \A d \in docs : d.by # r => d \in docs',
           \A d \in docs' : d.valid => d \in docs \/ (d.by = r /\ k.unsure)
    PROVE  HandlersInv'
<1>1. job'[r] = k
  BY DEF HandlersInv, Typed, JobsTyped
<1>2. Own(r)'
  BY <1>1 DEF Own, Fine
<1>3. QED
  BY <1>2, StepKeeps

LEMMA RunningJob ==
    ASSUME HandlersInv, NEW r \in Runs, NEW x, At(r, x)
    PROVE  /\ job[r] \in Jobs /\ job[r].end = "running" /\ job[r].steps \in Known
           /\ job[r].at \in 1..Len(job[r].steps) /\ job[r].steps[job[r].at] = x
           /\ Sound(job[r].steps) /\ Whole(job[r].steps) /\ Own(r) /\ Fine(job[r]) /\ ~job[r].unsure
  BY HandlersAreSound DEF HandlersInv, Typed, JobsTyped, At, Own, Fine

(* A run that moves on, or fails, without a document. *)
LEMMA FailsAlone ==
    ASSUME HandlersInv, NEW r \in Runs, NEW x, At(r, x), Fails(r) \/ Refused(r),
           wrapped' = wrapped, parties \subseteq parties', PartiesTyped', UNCHANGED docs
    PROVE  HandlersInv'
<1>1. /\ job[r] \in Jobs /\ job[r].end = "running" /\ ~job[r].unsure
  BY RunningJob
<1>2. PICK e \in {"failed", "conflict"} : job' = [job EXCEPT ![r] = [job[r] EXCEPT !.end = e]]
  BY DEF Fails, Refused, Sets
<1>3. [job[r] EXCEPT !.end = e] \in Jobs
  BY <1>1 DEF Jobs, Ends
<1>4. PICK k \in Jobs : job' = [job EXCEPT ![r] = k] /\ k.end = e /\ k.unsure = job[r].unsure
  BY <1>1, <1>2, <1>3 DEF Jobs
<1>5. Numbered(docs') /\ docs' = docs
  BY DEF HandlersInv, Typed
<1>6. k.end \in {"failed", "conflict"} /\ job[r].end \in {"none", "running"}
  BY <1>1, <1>4
<1>7. ~k.unsure
  BY <1>1, <1>4
<1>8. /\ \A d \in docs : d.by # r => d \in docs'
      /\ \A d \in docs' : d.valid => d \in docs \/ (d.by = r /\ k.unsure)
  BY <1>5
<1>9. QED
  BY <1>4, <1>5, <1>6, <1>7, <1>8, FailureKeeps

LEMMA MovesAlone ==
    ASSUME HandlersInv, NEW r \in Runs, NEW x, At(r, x), NEW k \in Jobs,
           job' = [job EXCEPT ![r] = k],
           k.steps = job[r].steps, k.at = Moved(job[r]).at, k.end = Moved(job[r]).end,
           k.doc = job[r].doc, k.left = job[r].left, k.name = job[r].name, k.unsure = job[r].unsure,
           x \notin {"dates", "notImplemented", "create", "task", "lines", "validate"},
           x = "copy" => k.unread = TRUE /\ job[r].left = Lines,
           x # "copy" => k.unread = job[r].unread,
           k.party # job[r].party => x \in Party3,
           PartyTold(k)',
           wrapped' = wrapped, parties \subseteq parties', PartiesTyped', UNCHANGED docs
    PROVE  HandlersInv'
<1>. DEFINE j == job[r]
<1>1. /\ j \in Jobs /\ j.end = "running" /\ j.steps \in Known /\ j.at \in 1..Len(j.steps)
      /\ j.steps[j.at] = x /\ Sound(j.steps) /\ Own(r) /\ Fine(j) /\ ~j.unsure
  BY RunningJob
<1>2. /\ \A y : Passed(k, y) <=> Passed(j, y) \/ j.steps[j.at] = y
      /\ k.end \in {"running", "success"} /\ k.at \in 1..Len(j.steps)
  BY <1>1, MovedPasses
<1>3. \A y \in {"dates", "notImplemented", "create", "task", "lines", "validate"} : Passed(k, y) <=> Passed(j, y)
  BY <1>1, <1>2
<1>4. job'[r] = k /\ Numbered(docs')
  BY DEF HandlersInv, Typed, JobsTyped
<1>5. j.party # k.party => j.doc = 0
  <2>1. x \in Party3 => ~Passed(j, "create") /\ ~Passed(j, "task")
    BY <1>1 DEF Passed, Sound
  <2>2. QED
    BY <1>1, <2>1 DEF Own
<1>6. LinesTold(k)'
  <2>1. LinesTold(j)
    BY <1>1 DEF Own
  <2>2. Passed(k, "copy") <=> Passed(j, "copy") \/ x = "copy"
    BY <1>1, <1>2
  <2>3. \A y : Passed(k, y)' <=> Passed(k, y)
    OBVIOUS
  <2>4. QED
    BY <1>2, <1>3, <2>1, <2>2, <2>3 DEF LinesTold, Has
<1>7. j.doc # 0 => (\E d \in docs : Made(r, d))'
  <2>. SUFFICES ASSUME j.doc # 0 PROVE \E d \in docs' : Made(r, d)'
    OBVIOUS
  <2>1. PICK d \in docs : Made(r, d)
    BY <1>1 DEF Own
  <2>2. Made(r, d)'
    <3>1. \A y : Passed(k, y)' <=> Passed(k, y)
      OBVIOUS
    <3>2. /\ k.doc = j.doc /\ k.party = j.party /\ k.left = j.left
          /\ Passed(k, "task") <=> Passed(j, "task")
          /\ Passed(k, "validate") <=> Passed(j, "validate")
      BY <1>3, <1>5, <2>1
    <3>3. QED
      BY <1>4, <2>1, <3>1, <3>2 DEF Made
  <2>3. QED
    BY <2>2
<1>8. Own(r)'
  <2>1. /\ ~j.unsure /\ ~Passed(j, "dates") /\ ~Passed(j, "notImplemented")
        /\ j.doc # 0 <=> Passed(j, "create") \/ Passed(j, "task")
    BY <1>1 DEF Own
  <2>2. \A y : Passed(k, y)' <=> Passed(k, y)
    OBVIOUS
  <2>3. QED
    BY <1>1, <1>3, <1>4, <1>6, <1>7, <2>1, <2>2 DEF Own
<1>9. /\ job[r].end \in {"none", "running"} /\ docs' = docs
      /\ k.end = "running" => k.steps \in Known /\ k.at \in 1..Len(k.steps)
  BY <1>1, <1>2
<1>10. ~k.unsure
  BY <1>1
<1>11. /\ \A d \in docs : d.by # r => d \in docs'
       /\ \A d \in docs' : d.valid => d \in docs \/ (d.by = r /\ (k.end = "success" \/ k.unsure))
  BY <1>9
<1>12. QED
  BY <1>4, <1>8, <1>9, <1>10, <1>11, StepKeeps

-----------------------------------------------------------------------------
(* The steps, one lemma for each kind. *)

LEMMA CallKeeps == ASSUME HandlersInv, NEW r \in Runs, Call(r) PROVE HandlersInv'
<1>1. PICK h \in Handlers, n \in Names, four \in BOOLEAN :
          job' = [job EXCEPT ![r] = [Fresh EXCEPT !.steps = h.steps, !.name = {n},
                                        !.end = IF four /\ ~h.hash THEN "failed" ELSE "running"]]
  BY DEF Call, Sets
<1>. DEFINE v == [Fresh EXCEPT !.steps = h.steps, !.name = {n},
                               !.end = IF four /\ ~h.hash THEN "failed" ELSE "running"]
<1>2. h.steps \in Known /\ Sound(h.steps)
  BY HandlersAreSound DEF Known
<1>3. v \in Jobs
  BY <1>2, LinesAssumption DEF Fresh, Jobs, Ends
<1>4. /\ v.steps = h.steps /\ v.at = 1 /\ v.doc = 0 /\ v.party = 0 /\ v.left = Lines /\ v.saw = {} /\ ~v.unsure /\ ~v.unread
      /\ v.end \in {"failed", "running"} /\ v.name = {n}
  BY DEF Fresh
<1>5. PICK k \in Jobs : k = v
  BY <1>3
<1>. HIDE DEF v
<1>6. job' = [job EXCEPT ![r] = k]
  BY <1>1, <1>5 DEF v
<1>7. job[r].end = "none" /\ wrapped' = wrapped /\ parties' = parties /\ docs' = docs
  BY DEF Call
<1>8. PartiesTyped' /\ Numbered(docs') /\ job'[r] = k
  BY <1>6, <1>7, SameParties DEF HandlersInv, Typed, JobsTyped
<1>9. \A y : ~Passed(k, y) \/ k.end = "failed"
  BY <1>4, <1>5 DEF Passed
<1>10. \A y : Passed(k, y)' <=> Passed(k, y)
  OBVIOUS
<1>11. Own(r)'
  <2>. SUFFICES ASSUME k.end = "running" PROVE Own(r)'
    BY <1>4, <1>5, <1>8 DEF Own, Fine
  <2>1. LinesTold(k)' /\ PartyTold(k)'
    BY <1>4, <1>5, <1>9, <1>10, LinesAssumption DEF LinesTold, PartyTold
  <2>2. QED
    BY <1>2, <1>4, <1>5, <1>8, <1>9, <1>10, <2>1 DEF Own
<1>12. k.end = "running" => k.steps \in Known /\ k.at \in 1..Len(k.steps)
  BY <1>2, <1>4, <1>5 DEF Sound
<1>13. ~k.unsure
  BY <1>4, <1>5
<1>14. /\ \A d \in docs : d.by # r => d \in docs'
       /\ \A d \in docs' : d.valid => d \in docs \/ (d.by = r /\ (k.end = "success" \/ k.unsure))
  BY <1>7
<1>15. QED
  BY <1>6, <1>7, <1>8, <1>11, <1>12, <1>13, <1>14, StepKeeps

(* Steps that change nothing but the run. *)
LEMMA MovedIsJob ==
    ASSUME NEW j \in Jobs
    PROVE  /\ Moved(j) \in Jobs
           /\ Moved(j).steps = j.steps /\ Moved(j).name = j.name /\ Moved(j).party = j.party
           /\ Moved(j).doc = j.doc /\ Moved(j).left = j.left /\ Moved(j).saw = j.saw
           /\ Moved(j).unsure = j.unsure /\ Moved(j).unread = j.unread
<1>1. CASE j.at = Len(j.steps)
  <2>1. Moved(j) = [j EXCEPT !.end = "success"]
    BY <1>1 DEF Moved
  <2>2. QED
    BY <2>1 DEF Jobs, Ends
<1>2. CASE j.at # Len(j.steps)
  <2>1. Moved(j) = [j EXCEPT !.at = j.at + 1]
    BY <1>2 DEF Moved, Jobs
  <2>2. j.at + 1 \in Nat
    BY DEF Jobs
  <2>3. QED
    BY <2>1, <2>2 DEF Jobs
<1>3. QED
  BY <1>1, <1>2

LEMMA PlainKeeps ==
    ASSUME HandlersInv, NEW r \in Runs, NEW x, At(r, x), Sets(r, Moved(job[r])),
           x \notin {"dates", "notImplemented", "create", "task", "lines", "validate"},
           x # "copy", UNCHANGED <<wrapped, parties, docs>>
    PROVE  HandlersInv'
<1>. DEFINE j == job[r]
<1>1. /\ j \in Jobs /\ j.end = "running" /\ Own(r) /\ Fine(j)
  BY RunningJob
<1>2. Moved(j) \in Jobs
  BY <1>1, MovedIsJob
<1>3. PICK k \in Jobs : k = Moved(j)
  BY <1>2
<1>4. job' = [job EXCEPT ![r] = k]
  BY <1>3 DEF Sets
<1>5. /\ k.steps = j.steps /\ k.doc = j.doc /\ k.left = j.left /\ k.name = j.name
      /\ k.unsure = j.unsure /\ k.party = j.party /\ k.saw = j.saw /\ k.unread = j.unread
  BY <1>1, <1>3, MovedIsJob
<1>6. PartyTold(k)' /\ PartiesTyped'
  BY <1>1, <1>5, SameParties DEF Own, PartyTold, HandlersInv, Typed, Hidden, Listed
<1>7. wrapped' = wrapped /\ parties \subseteq parties' /\ UNCHANGED docs
  OBVIOUS
<1>8. QED
  BY <1>3, <1>4, <1>5, <1>6, <1>7, MovesAlone

(* A run that finds or creates its party: what its record then says. *)
Partied(j, k) ==
    /\ k.steps = j.steps /\ k.at = Moved(j).at /\ k.end = Moved(j).end /\ k.doc = j.doc
    /\ k.left = j.left /\ k.name = j.name /\ k.unsure = j.unsure /\ k.unread = j.unread

Turned(j, k, p, s) == k \in Jobs /\ Partied(j, k) /\ k.party = p /\ k.saw = s

LEMMA PartyIsJob ==
    ASSUME NEW j \in Jobs, NEW p \in Nat, NEW s \in SUBSET Nat
    PROVE  /\ Turned(j, [Moved(j) EXCEPT !.party = p], p, j.saw)
           /\ Turned(j, [Moved(j) EXCEPT !.saw = s, !.party = p], p, s)
           /\ Turned(j, [Moved(j) EXCEPT !.party = p, !.made = TRUE], p, j.saw)
           /\ Turned(j, [Moved(j) EXCEPT !.saw = s], j.party, s)
<1>1. /\ Moved(j) \in Jobs /\ Moved(j).steps = j.steps /\ Moved(j).doc = j.doc /\ Moved(j).left = j.left
      /\ Moved(j).name = j.name /\ Moved(j).unsure = j.unsure /\ Moved(j).saw = j.saw /\ Moved(j).party = j.party
      /\ Moved(j).unread = j.unread
  BY MovedIsJob
<1>2. QED
  BY <1>1 DEF Turned, Partied, Jobs

LEMMA PartyKeeps ==
    ASSUME HandlersInv, NEW r \in Runs, NEW x \in Party3, At(r, x),
           NEW k \in Jobs, job' = [job EXCEPT ![r] = k], Partied(job[r], k),
           k.party # 0 => \E q \in parties' : q.id = k.party /\ {q.name} = job[r].name,
           k.party = 0 => \A i \in k.saw : Hidden(i)',
           wrapped' = wrapped, parties \subseteq parties', PartiesTyped', UNCHANGED docs
    PROVE  HandlersInv'
<1>1. Own(r) /\ Fine(job[r])
  BY RunningJob
<1>2. \E n \in Names : job[r].name = {n}
  BY <1>1 DEF Own, PartyTold
<1>3. PartyTold(k)'
  BY <1>2 DEF PartyTold, Partied
<1>4. x \notin {"dates", "notImplemented", "create", "task", "lines", "validate"} /\ x # "copy"
  BY DEF Party3
<1>5. QED
  BY <1>3, <1>4, MovesAlone DEF Partied

LEMMA FindKeeps == ASSUME HandlersInv, NEW r \in Runs, Find(r) PROVE HandlersInv'
<1>. DEFINE j == job[r]
<1>1. /\ j \in Jobs /\ Own(r) /\ Fine(j) /\ At(r, "find") /\ PartyTold(j)
  BY RunningJob DEF Find, Own
<1>2. PICK n \in j.name : IF ByTaxId(n) = {} THEN Sets(r, Moved(j))
                          ELSE \E p \in ByTaxId(n) : Sets(r, [Moved(j) EXCEPT !.party = p.id])
  BY DEF Find
<1>3. j.name = {n}
  BY <1>1, <1>2 DEF PartyTold
<1>4. PartiesTyped /\ PartiesTyped' /\ UNCHANGED <<wrapped, parties, docs>> /\ "find" \in Party3
  BY SameParties DEF Find, HandlersInv, Typed, Party3
<1>5. CASE Sets(r, Moved(j))
  BY <1>1, <1>4, <1>5, PlainKeeps
<1>6. ASSUME NEW p \in ByTaxId(n), Sets(r, [Moved(j) EXCEPT !.party = p.id]) PROVE HandlersInv'
  <2>1. p \in parties /\ p.name = n /\ p.id \in Nat \ {0}
    BY <1>4, PartyIds DEF ByTaxId, Named
  <2>2. Turned(j, [Moved(j) EXCEPT !.party = p.id], p.id, j.saw)
    BY <1>1, <2>1, PartyIsJob
  <2>3. PICK k \in Jobs : job' = [job EXCEPT ![r] = k] /\ Turned(j, k, p.id, j.saw)
    BY <1>6, <2>2 DEF Sets, Turned
  <2>4. \E q \in parties' : q.id = k.party /\ {q.name} = job[r].name
    BY <1>3, <1>4, <2>1, <2>3 DEF Turned
  <2>5. Partied(j, k) /\ ~(k.party = 0) /\ wrapped' = wrapped /\ parties \subseteq parties' /\ UNCHANGED docs
    BY <1>4, <2>1, <2>3 DEF Turned
  <2>6. QED
    BY <1>1, <1>4, <2>3, <2>4, <2>5, PartyKeeps
<1>7. QED
  BY <1>2, <1>5, <1>6

LEMMA SearchSupplierKeeps == ASSUME HandlersInv, NEW r \in Runs, SearchSupplier(r) PROVE HandlersInv'
<1>. DEFINE j == job[r]
            S(n) == {p.id : p \in Named(n)}
<1>1. /\ j \in Jobs /\ Own(r) /\ Fine(j) /\ At(r, "supplier") /\ PartyTold(j)
  BY RunningJob DEF SearchSupplier, Own
<1>2. PICK n \in j.name :
          LET w == [Moved(j) EXCEPT !.saw = {p.id : p \in Named(n)}] IN
          IF j.party # 0 THEN Sets(r, Moved(j))
          ELSE IF ByName(n) = {} THEN Sets(r, w)
          ELSE \E p \in ByName(n) : Sets(r, [w EXCEPT !.party = p.id])
  BY DEF SearchSupplier
<1>3. j.name = {n}
  BY <1>1, <1>2 DEF PartyTold
<1>4. PartiesTyped /\ PartiesTyped' /\ UNCHANGED <<wrapped, parties, docs>> /\ "supplier" \in Party3
  BY SameParties DEF SearchSupplier, HandlersInv, Typed, Party3
<1>5. S(n) \in SUBSET Nat
  BY <1>4, PartyIds DEF Named
<1>6. CASE Sets(r, Moved(j))
  BY <1>1, <1>4, <1>6, PlainKeeps
<1>7. CASE j.party = 0 /\ ByName(n) = {} /\ Sets(r, [Moved(j) EXCEPT !.saw = S(n)])
  <2>1. Turned(j, [Moved(j) EXCEPT !.saw = S(n)], 0, S(n))
    BY <1>1, <1>5, <1>7, PartyIsJob
  <2>2. PICK k \in Jobs : job' = [job EXCEPT ![r] = k] /\ Turned(j, k, 0, S(n))
    BY <1>7, <2>1 DEF Sets, Turned
  <2>3. \A i \in S(n) : Hidden(i)'
    BY <1>4, <1>7 DEF ByName, Named, Hidden, Listed
  <2>4. /\ Partied(j, k) /\ ~(k.party # 0) /\ (\A i \in k.saw : Hidden(i)') /\ wrapped' = wrapped
        /\ parties \subseteq parties' /\ UNCHANGED docs
    BY <1>4, <2>2, <2>3 DEF Turned
  <2>5. QED
    BY <1>1, <1>4, <2>2, <2>4, PartyKeeps
<1>8. ASSUME NEW p \in ByName(n), Sets(r, [[Moved(j) EXCEPT !.saw = S(n)] EXCEPT !.party = p.id])
      PROVE  HandlersInv'
  <2>1. p \in parties /\ p.name = n /\ p.id \in Nat \ {0}
    BY <1>4, PartyIds DEF ByName, Named
  <2>2. [[Moved(j) EXCEPT !.saw = S(n)] EXCEPT !.party = p.id] = [Moved(j) EXCEPT !.saw = S(n), !.party = p.id]
    OBVIOUS
  <2>3. Turned(j, [[Moved(j) EXCEPT !.saw = S(n)] EXCEPT !.party = p.id], p.id, S(n))
    BY <1>1, <1>5, <2>1, <2>2, PartyIsJob
  <2>4. PICK k \in Jobs : job' = [job EXCEPT ![r] = k] /\ Turned(j, k, p.id, S(n))
    BY <1>8, <2>3 DEF Sets, Turned
  <2>5. \E q \in parties' : q.id = k.party /\ {q.name} = job[r].name
    BY <1>3, <1>4, <2>1, <2>4 DEF Turned
  <2>6. Partied(j, k) /\ ~(k.party = 0) /\ wrapped' = wrapped /\ parties \subseteq parties' /\ UNCHANGED docs
    BY <1>4, <2>1, <2>4 DEF Turned
  <2>7. QED
    BY <1>1, <1>4, <2>4, <2>5, <2>6, PartyKeeps
<1>9. QED
  BY <1>2, <1>6, <1>7, <1>8

LEMMA PartyCreatedKeeps == ASSUME HandlersInv, NEW r \in Runs, Party(r) PROVE HandlersInv'
<1>. DEFINE j == job[r]
<1>1. /\ j \in Jobs /\ Own(r) /\ Fine(j) /\ At(r, "party") /\ PartyTold(j)
  BY RunningJob DEF Party, Own
<1>2. PartiesTyped /\ UNCHANGED <<wrapped, docs>> /\ "party" \in Party3
  BY DEF Party, HandlersInv, Typed, Party3
<1>3. CASE j.party # 0
  <2>1. Sets(r, Moved(j)) /\ UNCHANGED parties
    BY <1>3 DEF Party, Unknown
  <2>2. QED
    BY <1>1, <1>2, <2>1, PlainKeeps
<1>4. CASE j.party = 0 /\ Refused(r) /\ UNCHANGED parties
  <2>1. PartiesTyped' /\ parties \subseteq parties'
    BY <1>2, <1>4, SameParties
  <2>2. QED
    BY <1>1, <1>2, <1>4, <2>1, FailsAlone
<1>. DEFINE c == Cardinality(parties) + 1
            new(n) == [id |-> c, name |-> n, taxed |-> FALSE, supplier |-> Supplies(j), titled |-> TRUE,
                       seen |-> j.saw]
<1>5. ASSUME j.party = 0, NEW n \in j.name, parties' = parties \cup {new(n)},
             \/ Sets(r, [Moved(j) EXCEPT !.party = c, !.made = TRUE])
             \/ Fails(r)
      PROVE  HandlersInv'
  <2>1. c \in Nat \ {0}
    BY <1>2, FS_CardinalityType DEF PartiesTyped
  <2>2. \A i \in j.saw : Hidden(i)
    BY <1>1, <1>5 DEF PartyTold
  <2>3. new(n).id = c /\ new(n).seen = j.saw /\ new(n).name = n
    OBVIOUS
  <2>. HIDE DEF new
  <2>4. PartiesTyped' /\ parties \subseteq parties' /\ new(n) \in parties'
    BY <1>2, <1>5, <2>2, <2>3, PartiesAdd
  <2>5. CASE Fails(r)
    BY <1>1, <1>2, <2>4, <2>5, FailsAlone
  <2>6. CASE Sets(r, [Moved(j) EXCEPT !.party = c, !.made = TRUE])
    <3>1. Turned(j, [Moved(j) EXCEPT !.party = c, !.made = TRUE], c, j.saw)
      <4>1. j.saw \in SUBSET Nat
        BY <1>1 DEF Jobs
      <4>2. QED
        BY <1>1, <2>1, <4>1, PartyIsJob
    <3>2. PICK k \in Jobs : job' = [job EXCEPT ![r] = k] /\ Turned(j, k, c, j.saw)
      BY <2>6, <3>1 DEF Sets, Turned
    <3>3. \E q \in parties' : q.id = k.party /\ {q.name} = job[r].name
      <4>1. j.name = {n}
        BY <1>1, <1>5 DEF PartyTold
      <4>2. QED
        BY <4>1, <2>3, <2>4, <3>2 DEF Turned
    <3>4. Partied(j, k) /\ ~(k.party = 0) /\ wrapped' = wrapped /\ UNCHANGED docs
      BY <1>2, <2>1, <3>2 DEF Turned
    <3>5. QED
      BY <1>1, <1>2, <2>4, <3>2, <3>3, <3>4, PartyKeeps
  <2>7. QED
    BY <1>5, <2>5, <2>6
<1>6. CASE j.party = 0
  <2>1. \/ Refused(r) /\ UNCHANGED parties
        \/ \E n \in j.name : /\ parties' = parties \cup {new(n)}
                             /\ \/ Sets(r, [Moved(j) EXCEPT !.party = c, !.made = TRUE])
                                \/ Fails(r)
    BY <1>6 DEF Party, Unknown
  <2>2. QED
    BY <1>4, <1>5, <1>6, <2>1
<1>7. QED
  BY <1>3, <1>6

(* The steps that only look. *)
Looks(r) == \/ ReadFails(r) \/ SearchCustomer(r) \/ Record(r) \/ Dates(r) \/ GivenDates(r) \/ Needs(r)
            \/ NotImplemented(r) \/ ReadBack(r)

LEMMA LooksKeep == ASSUME HandlersInv, NEW r \in Runs, Looks(r) PROVE HandlersInv'
<1>1. /\ UNCHANGED <<wrapped, parties, docs>>
      /\ \E x : /\ At(r, x)
                /\ \/ Fails(r) \/ Refused(r)
                   \/ /\ Sets(r, Moved(job[r])) /\ x # "copy"
                      /\ x \notin {"dates", "notImplemented", "create", "task", "lines", "validate"}
  BY DEF Looks, ReadFails, SearchCustomer, Record, Dates, GivenDates, Needs, NotImplemented, ReadBack
<1>2. PartiesTyped' /\ wrapped' = wrapped /\ parties \subseteq parties' /\ UNCHANGED docs
  BY <1>1, SameParties DEF HandlersInv, Typed
<1>3. QED
  BY <1>1, <1>2, FailsAlone, PlainKeeps

(* A run that copies no lines, for their list reads as empty. *)
CopiesNone(r) == At(r, "copy") /\ ReadsNoLines(r) /\ UNCHANGED <<wrapped, parties>>

LEMMA UnreadJob ==
    ASSUME NEW j \in Jobs
    PROVE  \E k \in Jobs : /\ k = [Moved(j) EXCEPT !.unread = TRUE] /\ k.unread = TRUE
                           /\ k.steps = j.steps /\ k.at = Moved(j).at /\ k.end = Moved(j).end /\ k.doc = j.doc
                           /\ k.left = j.left /\ k.name = j.name /\ k.unsure = j.unsure /\ k.party = j.party
                           /\ k.saw = j.saw
<1>1. /\ Moved(j) \in Jobs /\ Moved(j).steps = j.steps /\ Moved(j).name = j.name /\ Moved(j).party = j.party
      /\ Moved(j).doc = j.doc /\ Moved(j).left = j.left /\ Moved(j).saw = j.saw /\ Moved(j).unsure = j.unsure
  BY MovedIsJob
<1>2. [Moved(j) EXCEPT !.unread = TRUE] \in Jobs
  BY <1>1 DEF Jobs
<1>3. QED
  BY <1>1, <1>2 DEF Jobs

LEMMA CopiesNoneKeeps == ASSUME HandlersInv, NEW r \in Runs, CopiesNone(r) PROVE HandlersInv'
<1>. DEFINE j == job[r]
<1>1. /\ j \in Jobs /\ j.end = "running" /\ Own(r) /\ Fine(j) /\ At(r, "copy") /\ j.left = Lines
      /\ UNCHANGED <<wrapped, parties, docs>>
  BY RunningJob DEF CopiesNone, ReadsNoLines
<1>2. PICK k \in Jobs : /\ k = [Moved(j) EXCEPT !.unread = TRUE] /\ k.unread = TRUE
                        /\ k.steps = j.steps /\ k.at = Moved(j).at /\ k.end = Moved(j).end /\ k.doc = j.doc
                        /\ k.left = j.left /\ k.name = j.name /\ k.unsure = j.unsure /\ k.party = j.party
                        /\ k.saw = j.saw
  BY <1>1, UnreadJob
<1>3. job' = [job EXCEPT ![r] = k]
  BY <1>2 DEF CopiesNone, ReadsNoLines, Sets
<1>4. PartyTold(k)' /\ PartiesTyped'
  BY <1>1, <1>2, SameParties DEF Own, PartyTold, HandlersInv, Typed, Hidden, Listed
<1>5. "copy" # "copy" => k.unread = j.unread
  BY <1>2
<1>6. k.party # j.party => "copy" \in Party3
  BY <1>2
<1>7. "copy" \notin {"dates", "notImplemented", "create", "task", "lines", "validate"}
  OBVIOUS
<1>8. wrapped' = wrapped /\ parties \subseteq parties' /\ UNCHANGED docs
  BY <1>1
<1>9. "copy" = "copy" => k.unread = TRUE /\ j.left = Lines
  BY <1>1, <1>2
<1>10. /\ k.steps = j.steps /\ k.at = Moved(j).at /\ k.end = Moved(j).end
       /\ k.doc = j.doc /\ k.left = j.left /\ k.name = j.name /\ k.unsure = j.unsure
  BY <1>2
<1>11. At(r, "copy")
  BY <1>1
<1>12. QED
  BY <1>3, <1>4, <1>5, <1>6, <1>7, <1>8, <1>9, <1>10, <1>11, MovesAlone

LEMMA SureJob ==
    ASSUME HandlersInv, NEW r \in Runs, NEW x, At(r, x)
    PROVE  /\ job[r].unsure = FALSE
           /\ \A e : [job[r] EXCEPT !.end = e] = [job[r] EXCEPT !.end = e, !.unsure = FALSE]
<1>1. job[r] \in Jobs /\ ~job[r].unsure
  BY RunningJob
<1>2. job[r].unsure = FALSE
  BY <1>1 DEF Jobs
<1>3. QED
  BY <1>1, <1>2 DEF Jobs

(* A step that fails, whatever it left in its document. *)
LEMMA FailsInDoc ==
    ASSUME HandlersInv, NEW r \in Runs, NEW x, At(r, x),
           NEW u \in BOOLEAN, NEW e \in {"failed", "conflict"}, u => e = "failed",
           job' = [job EXCEPT ![r] = [job[r] EXCEPT !.end = e, !.unsure = u]],
           UNCHANGED <<wrapped, parties>>, Numbered(docs'),
           \A d \in docs : d.by # r => d \in docs',
           \A d \in docs' : d.valid => d \in docs \/ (d.by = r /\ u)
    PROVE  HandlersInv'
<1>1. /\ job[r] \in Jobs /\ job[r].end = "running"
  BY RunningJob
<1>2. [job[r] EXCEPT !.end = e, !.unsure = u] \in Jobs
  BY <1>1 DEF Jobs, Ends
<1>3. PICK k \in Jobs : job' = [job EXCEPT ![r] = k] /\ k.end = e /\ k.unsure = u
  BY <1>1, <1>2 DEF Jobs
<1>4. PartiesTyped' /\ parties \subseteq parties' /\ wrapped' = wrapped
  BY SameParties DEF HandlersInv, Typed
<1>5. k.end \in {"failed", "conflict"} /\ job[r].end \in {"none", "running"}
  BY <1>1, <1>3
<1>6. k.unsure => k.end = "failed"
  BY <1>3
<1>7. \A d \in docs' : d.valid => d \in docs \/ (d.by = r /\ k.unsure)
  BY <1>3
<1>8. QED
  BY <1>3, <1>4, <1>5, <1>6, <1>7, FailureKeeps

(* Run r goes on as k, with a document d of its own. *)
Further(r, k, d) ==
    /\ k.steps = job[r].steps /\ ~k.unsure
    /\ k.end \in {"running", "success"} /\ k.at \in 1..Len(k.steps)
    /\ k.party = job[r].party /\ k.name = job[r].name /\ k.saw = job[r].saw
    /\ ~Passed(k, "dates") /\ ~Passed(k, "notImplemented")
    /\ k.doc # 0 /\ (Passed(k, "create") \/ Passed(k, "task")) /\ LinesTold(k)
    /\ d.id = k.doc /\ d.by = r /\ d.party = k.party
    /\ d.lines = IF Passed(k, "task") THEN Lines ELSE Lines - k.left
    /\ d.valid <=> Passed(k, "validate")
    /\ Passed(k, "validate") => k.end = "success"

LEMMA GoesOnInDoc ==
    ASSUME HandlersInv, NEW r \in Runs, NEW x, At(r, x), NEW k \in Jobs, NEW d \in Docs,
           job' = [job EXCEPT ![r] = k], Further(r, k, d),
           UNCHANGED <<wrapped, parties>>, Numbered(docs'), d \in docs',
           \A e \in docs : e.by # r => e \in docs',
           \A e \in docs' : e \in docs \/ e = d
    PROVE  HandlersInv'
<1>. USE DEF Further
<1>1. /\ job[r] \in Jobs /\ job[r].end = "running" /\ job[r].steps \in Known /\ Own(r) /\ Fine(job[r])
  BY RunningJob
<1>2. job'[r] = k
  BY DEF HandlersInv, Typed, JobsTyped
<1>3. \A y : Passed(k, y)' <=> Passed(k, y)
  OBVIOUS
<1>4. Made(r, d)'
  BY <1>2, <1>3 DEF Made
<1>5. LinesTold(k)'
  BY <1>3 DEF LinesTold
<1>6. PartyTold(k)'
  BY <1>1 DEF Own, PartyTold, Hidden, Listed
<1>7. Own(r)'
  BY <1>1, <1>2, <1>3, <1>4, <1>5, <1>6 DEF Own
<1>8. PartiesTyped' /\ parties \subseteq parties' /\ wrapped' = wrapped
  BY SameParties DEF HandlersInv, Typed
<1>9. \A e \in docs' : e.valid => e \in docs \/ (e.by = r /\ (k.end = "success" \/ k.unsure))
  OBVIOUS
<1>10. job[r].end \in {"none", "running"} /\ ~k.unsure /\ (k.end = "running" => k.steps \in Known /\ k.at \in 1..Len(k.steps))
  BY <1>1
<1>11. QED
  BY <1>7, <1>8, <1>9, <1>10, StepKeeps

(* A document is made with its lines, as a task is, or without. *)
LEMMA CreatesKeep ==
    ASSUME HandlersInv, NEW r \in Runs, Create(r) \/ Task(r) PROVE HandlersInv'
<1>. DEFINE j == job[r]
            c == Cardinality(docs) + 1
            n == IF Task(r) THEN Lines ELSE 0
            d == NewDoc(r, n)
<1>1. PICK x \in {"create", "task"} : /\ At(r, x) /\ (x = "task" <=> Task(r))
                                      /\ \/ Refused(r) /\ UNCHANGED docs
                                         \/ /\ docs' = docs \cup {d}
                                            /\ \/ Sets(r, [Moved(j) EXCEPT !.doc = c])
                                               \/ Fails(r)
                                      /\ UNCHANGED <<wrapped, parties>>
  <2>1. Task(r) => ~Create(r)
    BY DEF Task, Create, At
  <2>2. QED
    BY <2>1 DEF Create, Task
<1>2. /\ j \in Jobs /\ j.end = "running" /\ j.steps \in Known /\ j.at \in 1..Len(j.steps)
      /\ j.steps[j.at] = x /\ Sound(j.steps) /\ Own(r) /\ Fine(j)
  BY <1>1, RunningJob
<1>3. PartiesTyped' /\ wrapped' = wrapped /\ parties \subseteq parties' /\ Numbered(docs)
  BY <1>1, SameParties DEF HandlersInv, Typed
<1>4. CASE Refused(r) /\ UNCHANGED docs
  BY <1>1, <1>3, <1>4, FailsAlone
<1>5. c \in Nat \ {0}
  BY <1>3, FS_CardinalityType DEF Numbered
<1>6. d \in Docs /\ d.id = c /\ d.by = r /\ d.party = j.party /\ d.lines = n /\ d.valid = FALSE
  BY <1>2, <1>5, LinesAssumption DEF NewDoc, Docs, Jobs
<1>. HIDE DEF d
<1>7. CASE docs' = docs \cup {d} /\ Fails(r)
  <2>1. Numbered(docs')
    BY <1>3, <1>6, <1>7, NumberedAdd
  <2>2. PICK e \in {"failed", "conflict"} : job' = [job EXCEPT ![r] = [j EXCEPT !.end = e]] /\ e = "failed"
    BY <1>7 DEF Fails, Sets
  <2>3. [j EXCEPT !.end = e] = [j EXCEPT !.end = e, !.unsure = FALSE]
    BY <1>1, SureJob
  <2>4. \A f \in docs : f.by # r => f \in docs'
    BY <1>7
  <2>5. \A f \in docs' : f.valid => f \in docs \/ (f.by = r /\ FALSE)
    BY <1>6, <1>7
  <2>6. QED
    BY <1>1, <2>1, <2>2, <2>3, <2>4, <2>5, FailsInDoc
<1>8. CASE docs' = docs \cup {d} /\ Sets(r, [Moved(j) EXCEPT !.doc = c])
  <2>1. Numbered(docs')
    BY <1>3, <1>6, <1>8, NumberedAdd
  <2>2. /\ Moved(j) \in Jobs /\ Moved(j).steps = j.steps /\ Moved(j).name = j.name /\ Moved(j).party = j.party
        /\ Moved(j).left = j.left /\ Moved(j).saw = j.saw /\ Moved(j).unsure = j.unsure
        /\ Moved(j).unread = j.unread
    BY <1>2, MovedIsJob
  <2>3. [Moved(j) EXCEPT !.doc = c] \in Jobs
    BY <2>2, <1>5 DEF Jobs
  <2>4. PICK k \in Jobs : /\ job' = [job EXCEPT ![r] = k] /\ k.steps = j.steps /\ k.name = j.name
                          /\ k.party = j.party /\ k.left = j.left /\ k.saw = j.saw /\ k.unsure = j.unsure
                          /\ k.at = Moved(j).at /\ k.end = Moved(j).end /\ k.doc = c /\ k.unread = j.unread
    BY <1>8, <2>2, <2>3 DEF Sets, Jobs
  <2>5. /\ \A y : Passed(k, y) <=> Passed(j, y) \/ x = y
        /\ k.end \in {"running", "success"} /\ k.at \in 1..Len(k.steps)
    BY <1>2, <2>4, MovedPasses
  <2>6. /\ ~Passed(j, "create") /\ ~Passed(j, "task") /\ ~Passed(j, "validate")
        /\ ~Passed(j, "lines") /\ ~Passed(j, "copy")
    BY <1>2 DEF Passed, Sound
  <2>7. j.left = Lines /\ LinesTold(j) /\ ~Passed(j, "dates") /\ ~Passed(j, "notImplemented")
    BY <1>2, <2>6 DEF Own, LinesTold
  <2>8. k.unsure = FALSE
    BY <2>4, SureJob, <1>1
  <2>9. LinesTold(k)
    BY <2>4, <2>5, <2>6, <2>7, LinesAssumption DEF LinesTold
  <2>10. /\ ~Passed(k, "dates") /\ ~Passed(k, "notImplemented") /\ ~Passed(k, "validate")
         /\ Passed(k, "create") \/ Passed(k, "task")
         /\ d.lines = IF Passed(k, "task") THEN Lines ELSE Lines - k.left
    BY <1>1, <1>6, <2>4, <2>5, <2>6, <2>7, LinesAssumption
  <2>11. k.doc # 0 /\ d.id = k.doc /\ d.party = k.party /\ (d.valid <=> Passed(k, "validate")) /\ d \in docs'
    BY <1>5, <1>6, <1>8, <2>4, <2>10
  <2>12. \A e \in docs : e.by # r => e \in docs'
    BY <1>8
  <2>13. \A e \in docs' : e \in docs \/ e = d
    BY <1>8
  <2>14. Further(r, k, d)
    BY <1>6, <2>4, <2>5, <2>8, <2>9, <2>10, <2>11 DEF Further
  <2>15. At(r, x) /\ UNCHANGED <<wrapped, parties>> /\ d \in Docs /\ d \in docs'
    BY <1>1, <1>6, <2>11
  <2>16. QED
    BY <2>1, <2>4, <2>12, <2>13, <2>14, <2>15, GoesOnInDoc
<1>9. QED
  BY <1>1, <1>4, <1>7, <1>8

(* The document of a run that sends lines or validates. *)
LEMMA DocIsMade ==
    ASSUME HandlersInv, NEW r \in Runs, NEW x \in {"lines", "copy", "validate"}, At(r, x)
    PROVE  /\ Doc(r) \in docs /\ Doc(r) \in Docs /\ Made(r, Doc(r)) /\ job[r].doc # 0
           /\ Passed(job[r], "create") /\ ~Passed(job[r], "validate")
           /\ \A d \in Docs : d.id = job[r].doc /\ Changed(r, d) =>
                 docs' = (docs \ {Doc(r)}) \cup {d} /\ Numbered(docs')
<1>. DEFINE j == job[r]
<1>1. /\ j \in Jobs /\ j.end = "running" /\ j.at \in 1..Len(j.steps) /\ j.steps[j.at] = x
      /\ Sound(j.steps) /\ Own(r) /\ Fine(j)
  BY RunningJob
<1>2. Passed(j, "create") /\ ~Passed(j, "validate")
  BY <1>1 DEF Passed, Sound
<1>3. j.doc # 0 /\ \E d \in docs : Made(r, d)
  BY <1>1, <1>2 DEF Own
<1>4. Doc(r) \in docs /\ Doc(r).id = j.doc
  BY <1>3 DEF Doc, Made
<1>5. Numbered(docs)
  BY DEF HandlersInv, Typed
<1>6. Made(r, Doc(r)) /\ Doc(r) \in Docs
  BY <1>3, <1>4, <1>5 DEF Numbered, Made
<1>7. ASSUME NEW d \in Docs, d.id = j.doc, Changed(r, d)
      PROVE  docs' = (docs \ {Doc(r)}) \cup {d} /\ Numbered(docs')
  <2>1. PICK e \in docs : e = Doc(r)
    BY <1>4
  <2>2. docs' = {IF f.id = e.id THEN d ELSE f : f \in docs}
    BY <1>4, <1>7, <2>1 DEF Changed
  <2>3. /\ {IF f.id = e.id THEN d ELSE f : f \in docs} = (docs \ {e}) \cup {d}
        /\ Numbered((docs \ {e}) \cup {d})
    BY <1>4, <1>5, <1>7, <2>1, NumberedChange
  <2>4. docs' = (docs \ {e}) \cup {d}
    BY <2>2, <2>3
  <2>5. QED
    BY <2>1, <2>3, <2>4
<1>8. QED
  BY <1>2, <1>3, <1>4, <1>6, <1>7

(* A line is sent, the last or another. *)
Sends(r) == SendsLine(r) /\ UNCHANGED <<wrapped, parties>>

LEMMA SendsKeep ==
    ASSUME HandlersInv, NEW r \in Runs, NEW x \in {"lines", "copy"}, At(r, x), Sends(r)
    PROVE  HandlersInv'
<1>. DEFINE j == job[r]
            d == [Doc(r) EXCEPT !.lines = Doc(r).lines + 1]
<1>1. /\ j \in Jobs /\ j.end = "running" /\ j.steps \in Known /\ j.at \in 1..Len(j.steps)
      /\ j.steps[j.at] = x /\ Sound(j.steps) /\ Own(r) /\ Fine(j) /\ j.unsure = FALSE
  BY RunningJob, SureJob
<1>2. /\ Doc(r) \in docs /\ Doc(r) \in Docs /\ Made(r, Doc(r)) /\ j.doc # 0
      /\ Passed(j, "create") /\ ~Passed(j, "validate")
      /\ \A e \in Docs : e.id = j.doc /\ Changed(r, e) => docs' = (docs \ {Doc(r)}) \cup {e} /\ Numbered(docs')
  BY DocIsMade
<1>3. /\ d \in Docs /\ d.id = j.doc /\ d.by = r /\ d.party = j.party /\ d.lines = Doc(r).lines + 1
      /\ d.valid = Doc(r).valid
  BY <1>2 DEF Docs, Made
<1>4. Sends(r) => /\ \/ Changed(r, d) /\ Sets(r, Sent(r))
                     \/ Changed(r, d) /\ Fails(r)
                     \/ Fails(r) /\ UNCHANGED docs
                  /\ UNCHANGED <<wrapped, parties>>
  BY DEF Sends, SendsLine, Stopped, Fails
<1>. HIDE DEF d
<1>5. ~(d.valid = TRUE)
  BY <1>2, <1>3 DEF Made
<1>6. CASE Fails(r) /\ UNCHANGED docs
  <2>1. PartiesTyped' /\ parties \subseteq parties' /\ wrapped' = wrapped
    BY <1>4, SameParties DEF HandlersInv, Typed
  <2>2. QED
    BY <1>6, <2>1, FailsAlone
<1>7. CASE Changed(r, d) /\ Fails(r)
  <2>1. docs' = (docs \ {Doc(r)}) \cup {d} /\ Numbered(docs')
    BY <1>2, <1>3, <1>7
  <2>2. PICK e \in {"failed", "conflict"} :
            job' = [job EXCEPT ![r] = [j EXCEPT !.end = e, !.unsure = FALSE]] /\ e = "failed"
    BY <1>7, SureJob DEF Fails, Sets
  <2>3. Doc(r).by = r
    BY <1>2 DEF Made
  <2>4. \A f \in docs : f.by # r => f \in docs'
    BY <2>1, <2>3
  <2>5. \A f \in docs' : f.valid => f \in docs \/ (f.by = r /\ FALSE)
    BY <2>1, <1>5
  <2>6. UNCHANGED <<wrapped, parties>>
    BY <1>4
  <2>7. QED
    BY <2>1, <2>2, <2>4, <2>5, <2>6, FailsInDoc
<1>8. CASE Changed(r, d) /\ Sets(r, Sent(r))
  <2>1. docs' = (docs \ {Doc(r)}) \cup {d} /\ Numbered(docs') /\ Doc(r).by = r
    BY <1>2, <1>3, <1>8 DEF Made
  <2>2. ~Passed(j, "lines") /\ ~Passed(j, "copy") /\ ~Passed(j, "task")
    BY <1>1 DEF Passed, Sound
  <2>3. /\ LinesTold(j) /\ j.left \in 1..Lines /\ ~Passed(j, "dates") /\ ~Passed(j, "notImplemented")
        /\ j.unread = FALSE
    <3>1. LinesTold(j) /\ ~Passed(j, "dates") /\ ~Passed(j, "notImplemented")
      BY <1>1 DEF Own
    <3>2. j.left \in 1..Lines
      BY <3>1, <2>2, LinesAssumption DEF LinesTold
    <3>3. j.unread = FALSE
      BY <1>1, <2>2, <3>1 DEF LinesTold, Jobs
    <3>4. QED
      BY <3>1, <3>2, <3>3
  <2>4. d.lines = Lines - (j.left - 1)
    BY <1>2, <1>3, <2>2, <2>3, LinesAssumption DEF Made
  <2>5. CASE j.left = 1
    <3>1. /\ Moved(j) \in Jobs /\ Moved(j).steps = j.steps /\ Moved(j).name = j.name /\ Moved(j).party = j.party
          /\ Moved(j).doc = j.doc /\ Moved(j).saw = j.saw /\ Moved(j).unsure = j.unsure
          /\ Moved(j).unread = j.unread
      BY <1>1, MovedIsJob
    <3>2. [Moved(j) EXCEPT !.left = 0] \in Jobs
      BY <3>1 DEF Jobs
    <3>3. PICK k \in Jobs : /\ job' = [job EXCEPT ![r] = k] /\ k.steps = j.steps /\ k.name = j.name
                            /\ k.party = j.party /\ k.left = 0 /\ k.saw = j.saw /\ k.unsure = FALSE
                            /\ k.at = Moved(j).at /\ k.end = Moved(j).end /\ k.doc = j.doc
                            /\ k.unread = j.unread
      BY <1>1, <1>8, <2>5, <3>1, <3>2 DEF Sets, Sent, Jobs
    <3>4. /\ \A y : Passed(k, y) <=> Passed(j, y) \/ x = y
          /\ k.end \in {"running", "success"} /\ k.at \in 1..Len(k.steps)
      BY <1>1, <3>3, MovedPasses
    <3>5. LinesTold(k)
      BY <1>1, <1>2, <2>2, <2>3, <3>3, <3>4, LinesAssumption DEF LinesTold
    <3>6. /\ ~Passed(k, "dates") /\ ~Passed(k, "notImplemented") /\ ~Passed(k, "validate") /\ ~Passed(k, "task")
          /\ Passed(k, "create")
      BY <1>2, <2>2, <2>3, <3>4
    <3>7. d.lines = Lines - k.left
      BY <2>4, <2>5, <3>3, LinesAssumption
    <3>8. Further(r, k, d)
      BY <1>2, <1>3, <1>5, <3>3, <3>4, <3>5, <3>6, <3>7 DEF Further
    <3>9. QED
      BY <1>3, <1>4, <2>1, <3>3, <3>8, GoesOnInDoc
  <2>6. CASE j.left # 1
    <3>1. [j EXCEPT !.left = j.left - 1] \in Jobs
      BY <1>1, <2>3 DEF Jobs
    <3>2. PICK k \in Jobs : /\ job' = [job EXCEPT ![r] = k] /\ k.steps = j.steps /\ k.name = j.name
                            /\ k.party = j.party /\ k.left = j.left - 1 /\ k.saw = j.saw /\ k.unsure = FALSE
                            /\ k.at = j.at /\ k.end = j.end /\ k.doc = j.doc /\ k.unread = j.unread
      BY <1>1, <1>8, <2>6, <3>1 DEF Sets, Sent, Jobs
    <3>3. \A y : Passed(k, y) <=> Passed(j, y)
      BY <3>2 DEF Passed
    <3>4. LinesTold(k)
      BY <1>1, <1>2, <2>2, <2>3, <2>6, <3>2, <3>3, LinesAssumption DEF LinesTold
    <3>5. Further(r, k, d)
      BY <1>1, <1>2, <1>3, <1>5, <2>2, <2>3, <2>4, <3>2, <3>3, <3>4 DEF Further
    <3>6. QED
      BY <1>3, <1>4, <2>1, <3>2, <3>5, GoesOnInDoc
  <2>7. QED
    BY <2>5, <2>6
<1>9. QED
  BY <1>4, <1>6, <1>7, <1>8

LEMMA ValidateKeeps == ASSUME HandlersInv, NEW r \in Runs, Validate(r) PROVE HandlersInv'
<1>. DEFINE j == job[r]
            d == [Doc(r) EXCEPT !.valid = TRUE]
<1>0. At(r, "validate") /\ UNCHANGED <<wrapped, parties>>
  BY DEF Validate
<1>1. /\ j \in Jobs /\ j.end = "running" /\ j.steps \in Known /\ j.at \in 1..Len(j.steps)
      /\ j.steps[j.at] = "validate" /\ Sound(j.steps) /\ Own(r) /\ Fine(j) /\ j.unsure = FALSE
  BY <1>0, RunningJob, SureJob
<1>2. /\ Doc(r) \in docs /\ Doc(r) \in Docs /\ Made(r, Doc(r)) /\ j.doc # 0
      /\ Passed(j, "create") /\ ~Passed(j, "validate")
      /\ \A e \in Docs : e.id = j.doc /\ Changed(r, e) => docs' = (docs \ {Doc(r)}) \cup {e} /\ Numbered(docs')
  BY <1>0, DocIsMade
<1>3. /\ d \in Docs /\ d.id = j.doc /\ d.by = r /\ d.party = j.party /\ d.lines = Doc(r).lines /\ d.valid = TRUE
  BY <1>2 DEF Docs, Made
<1>4. \/ /\ Changed(r, d)
         /\ \/ Sets(r, Moved(j))
            \/ Sets(r, [j EXCEPT !.end = "failed", !.unsure = TRUE])
      \/ Refused(r) /\ UNCHANGED docs
  BY DEF Validate
<1>. HIDE DEF d
<1>5. CASE Refused(r) /\ UNCHANGED docs
  <2>1. PartiesTyped' /\ parties \subseteq parties' /\ wrapped' = wrapped
    BY <1>0, SameParties DEF HandlersInv, Typed
  <2>2. QED
    BY <1>0, <1>5, <2>1, FailsAlone
<1>6. ASSUME Changed(r, d) PROVE /\ docs' = (docs \ {Doc(r)}) \cup {d} /\ Numbered(docs') /\ d \in docs'
                                 /\ \A e \in docs : e.by # r => e \in docs'
                                 /\ \A e \in docs' : e \in docs \/ e = d
  <2>1. docs' = (docs \ {Doc(r)}) \cup {d} /\ Numbered(docs') /\ Doc(r).by = r
    BY <1>2, <1>3, <1>6 DEF Made
  <2>2. QED
    BY <2>1
<1>7. CASE Changed(r, d) /\ Sets(r, [j EXCEPT !.end = "failed", !.unsure = TRUE])
  <2>1. PICK e \in {"failed", "conflict"} :
            job' = [job EXCEPT ![r] = [j EXCEPT !.end = e, !.unsure = TRUE]] /\ e = "failed"
    BY <1>7 DEF Sets
  <2>2. \A f \in docs' : f.valid => f \in docs \/ (f.by = r /\ TRUE)
    BY <1>3, <1>6, <1>7
  <2>3. QED
    BY <1>0, <1>6, <1>7, <2>1, <2>2, FailsInDoc
<1>8. CASE Changed(r, d) /\ Sets(r, Moved(j))
  <2>1. /\ Moved(j) \in Jobs /\ Moved(j).steps = j.steps /\ Moved(j).name = j.name /\ Moved(j).party = j.party
        /\ Moved(j).doc = j.doc /\ Moved(j).saw = j.saw /\ Moved(j).unsure = j.unsure /\ Moved(j).left = j.left
        /\ Moved(j).unread = j.unread
    BY <1>1, MovedIsJob
  <2>2. PICK k \in Jobs : /\ job' = [job EXCEPT ![r] = k] /\ k.steps = j.steps /\ k.name = j.name
                          /\ k.party = j.party /\ k.left = j.left /\ k.saw = j.saw /\ k.unsure = FALSE
                          /\ k.at = Moved(j).at /\ k.end = Moved(j).end /\ k.doc = j.doc
                          /\ k.unread = j.unread
    BY <1>1, <1>8, <2>1 DEF Sets
  <2>3. /\ \A y : Passed(k, y) <=> Passed(j, y) \/ "validate" = y
        /\ k.end \in {"running", "success"} /\ k.at \in 1..Len(k.steps)
        /\ k.end = "success" <=> j.at = Len(j.steps)
    BY <1>1, <2>2, MovedPasses
  <2>4. k.end = "success" /\ Passed(k, "validate") /\ Passed(k, "create")
    BY <1>1, <1>2, <2>3 DEF Sound
  <2>5. LinesTold(j) /\ ~Passed(j, "dates") /\ ~Passed(j, "notImplemented")
    BY <1>1 DEF Own
  <2>6. LinesTold(k)
    BY <2>2, <2>3, <2>5 DEF LinesTold
  <2>7. d.lines = IF Passed(k, "task") THEN Lines ELSE Lines - k.left
    BY <1>2, <1>3, <2>2, <2>3 DEF Made
  <2>8. ~Passed(k, "dates") /\ ~Passed(k, "notImplemented")
    BY <2>3, <2>5
  <2>9. Further(r, k, d)
    BY <1>2, <1>3, <2>2, <2>3, <2>4, <2>6, <2>7, <2>8 DEF Further
  <2>10. QED
    BY <1>0, <1>3, <1>6, <1>8, <2>2, <2>9, GoesOnInDoc
<1>9. QED
  BY <1>4, <1>5, <1>7, <1>8

-----------------------------------------------------------------------------
(* The invariant, and the theorems. *)

LEMMA HandlersInductive == ASSUME HandlersInv, [Next]_vars PROVE HandlersInv'
<1>1. ASSUME NEW r \in Runs, \/ Call(r) \/ Find(r) \/ SearchSupplier(r) \/ Party(r)
                             \/ Create(r) \/ Task(r) \/ Validate(r)
      PROVE  HandlersInv'
  BY <1>1, CallKeeps, FindKeeps, SearchSupplierKeeps, PartyCreatedKeeps, CreatesKeep, ValidateKeeps
<1>2. ASSUME NEW r \in Runs, AddLine(r) \/ Copy(r) PROVE HandlersInv'
  <2>1. CopiesNone(r) \/ \E x \in {"lines", "copy"} : At(r, x) /\ Sends(r)
    BY <1>2 DEF AddLine, Copy, Sends, CopiesNone
  <2>2. QED
    BY <2>1, SendsKeep, CopiesNoneKeeps
<1>3. ASSUME NEW r \in Runs, Looks(r) PROVE HandlersInv'
  BY <1>3, LooksKeep
<1>4. CASE UNCHANGED vars
  BY <1>4 DEF vars, HandlersInv, Typed, JobsTyped, PartiesTyped, Drafts, FailureLeavesDraft, Own, Fine, Made,
              Passed, LinesTold, PartyTold, Hidden, Listed
<1>5. QED
  BY <1>1, <1>2, <1>3, <1>4 DEF Next, Looks

LEMMA InitHandlers == Init => HandlersInv
<1>. SUFFICES ASSUME Init PROVE HandlersInv
  OBVIOUS
<1>1. Fresh \in Jobs /\ Fresh.end = "none" /\ ~Fresh.unsure
  BY LinesAssumption DEF Fresh, Jobs, Ends
<1>2. job \in [Runs -> Jobs] /\ \A r \in Runs : job[r].end = "none" /\ ~job[r].unsure
  BY <1>1 DEF Init
<1>3. JobsTyped /\ \A r \in Runs : Own(r)
  BY <1>2 DEF JobsTyped, Own, Fine
<1>4. docs = {} /\ Numbered(docs)
  BY FS_EmptySet DEF Init, Numbered
<1>5. PartiesTyped
  <2>1. PICK p : parties = {p} /\ p.id = 1 /\ p.seen = {}
    BY DEF Init
  <2>2. IsFiniteSet(parties) /\ Cardinality(parties) = 1
    BY <2>1, FS_Singleton
  <2>3. QED
    BY <2>1, <2>2 DEF PartiesTyped
<1>6. QED
  BY <1>2, <1>3, <1>4, <1>5 DEF HandlersInv, Typed, Drafts, FailureLeavesDraft

(* What a failed command leaves behind is a draft, unless the answer to its    *)
(* validation was lost (the handlers validate last and undo nothing).          *)
THEOREM FailuresLeaveDrafts == Spec => []FailureLeavesDraft
<1>1. HandlersInv => FailureLeavesDraft
  BY DEF HandlersInv, Drafts
<1>2. QED
  BY <1>1, InitHandlers, HandlersInductive, PTL DEF Spec

(* A second party of a name means that a search by name came before the first, *)
(* or could not list it: it is no supplier, has another title, or the list      *)
(* could not be read (find, search and create of the handlers).                *)
THEOREM TwinsMeanARace == Spec => []TwinsAreRaced
<1>1. HandlersInv => TwinsAreRaced
  BY DEF HandlersInv, Typed, PartiesTyped, TwinsAreRaced, Hidden
<1>2. QED
  BY <1>1, InitHandlers, HandlersInductive, PTL DEF Spec

(* Whoever answers success and names a document made all of it: every line,    *)
(* validated where the handler validates, for the party that was asked for;    *)
(* only an invoice of a proposal whose list of lines read as empty has none.   *)
THEOREM SuccessTold == Spec => []SuccessIsWhole
<1>1. HandlersInv => SuccessIsWhole
  <2>. SUFFICES ASSUME HandlersInv, NEW r \in Runs, job[r].end = "success", job[r].doc # 0
                PROVE  \E d \in docs :
                          /\ d.id = job[r].doc /\ d.by = r
                          /\ \/ d.lines = Lines
                             \/ /\ d.lines = 0 /\ job[r].unread
                                /\ job[r].steps = CreateInvoiceFromProposal.steps
                          /\ d.valid = \E i \in 1..Len(job[r].steps) : job[r].steps[i] = "validate"
                          /\ d.party # 0 => \E p \in parties : p.id = d.party /\ {p.name} = job[r].name
    BY DEF SuccessIsWhole
  <2>. DEFINE j == job[r]
  <2>1. /\ Own(r) /\ Fine(j) /\ j.steps \in Known /\ Sound(j.steps) /\ Whole(j.steps)
        /\ Has(CreateInvoiceFromProposal.steps, "copy")
    BY HandlersAreSound DEF HandlersInv, Own, Fine
  <2>2. \A x : Passed(j, x) <=> Has(j.steps, x)
    BY DEF Passed, Has
  <2>3. LinesTold(j) /\ PartyTold(j) /\ ~Has(j.steps, "dates") /\ (Has(j.steps, "create") \/ Has(j.steps, "task"))
    BY <2>1, <2>2 DEF Own
  <2>4. PICK d \in docs : Made(r, d)
    BY <2>1 DEF Own
  <2>5. d \in Docs
    BY DEF HandlersInv, Typed, Numbered
  <2>6. d.lines = Lines \/ (d.lines = 0 /\ j.unread /\ j.steps = CreateInvoiceFromProposal.steps)
    <3>1. CASE Has(j.steps, "copy")
      <4>1. j.steps = CreateInvoiceFromProposal.steps /\ ~Has(j.steps, "task")
        BY <2>1, <3>1 DEF Whole, Sound, Has
      <4>2. j.left = 0 \/ (j.left = Lines /\ j.unread)
        BY <2>2, <2>3, <3>1 DEF LinesTold
      <4>3. d.lines = Lines - j.left
        BY <2>2, <2>4, <4>1 DEF Made
      <4>4. QED
        BY <4>1, <4>2, <4>3, LinesAssumption
    <3>2. CASE ~Has(j.steps, "copy")
      <4>1. Has(j.steps, "task") \/ Has(j.steps, "lines")
        BY <2>1, <2>3, <3>2 DEF Whole
      <4>2. Has(j.steps, "lines") => j.left = 0
        BY <2>2, <2>3 DEF LinesTold
      <4>3. QED
        BY <2>2, <2>4, <4>1, <4>2, LinesAssumption DEF Made
    <3>3. QED
      BY <3>1, <3>2
  <2>7. d.valid = \E i \in 1..Len(j.steps) : j.steps[i] = "validate"
    <3>1. d.valid <=> Has(j.steps, "validate")
      BY <2>2, <2>4 DEF Made
    <3>2. d.valid \in BOOLEAN
      BY <2>5 DEF Docs
    <3>3. QED
      BY <3>1, <3>2 DEF Has
  <2>8. /\ d.id = j.doc /\ d.by = r
        /\ d.party # 0 => \E p \in parties : p.id = d.party /\ {p.name} = j.name
    BY <2>3, <2>4 DEF Made, PartyTold
  <2>9. QED
    BY <2>6, <2>7, <2>8
<1>2. QED
  BY <1>1, InitHandlers, HandlersInductive, PTL DEF Spec

-----------------------------------------------------------------------------
(***************************************************************************)
(* How far the handlers get. Where a date is needed nothing is made, and   *)
(* the search of a customer by name fails, so that of the handlers for     *)
(* customers only the one of invoices makes a document, for a party it     *)
(* found by its tax id.                                                    *)
(***************************************************************************)

\* The handlers that make a document, and those that answer success.
Arriving   == {CreateInvoice.steps, CreateInvoiceFromProposal.steps, AddProjectTask.steps}
Succeeding == Arriving \cup {ExportBC3.steps}

\* No "y" without an "x" before it.
Before(s, x, y) == \A i \in 1..Len(s) : s[i] = y => \E k \in 1..Len(s) : k < i /\ s[k] = x

Reach(s) ==
    /\ Has(s, "customer") => ~Has(s, "supplier") /\ Before(s, "customer", "party")
    /\ s \notin Arriving => Before(s, "dates", "create") /\ ~Has(s, "task")
    /\ s \notin Succeeding => Has(s, "dates") \/ Has(s, "notImplemented")

LEMMA HandlersReach ==
    /\ \A s \in Known : Reach(s)
    /\ Has(CreateInvoice.steps, "customer") /\ Before(CreateInvoice.steps, "customer", "create")
<1>1. Reach(CreateOrder.steps)
  <2>1. PICK s : s = CreateOrder.steps
    OBVIOUS
  <2>2. /\ Len(s) = 7
        /\ s[1] = "find" /\ s[2] = "customer" /\ s[3] = "party" /\ s[4] = "dates" /\ s[5] = "create" /\ s[6] = "lines" /\ s[7] = "validate"
    BY <2>1 DEF CreateOrder, Taking, NotTaking
  <2>3. Reach(s)
    BY <2>1, <2>2 DEF Reach, Has, Before, Arriving, Succeeding
  <2>4. QED
    BY <2>1, <2>3
<1>2. Reach(CreateSupplierOrder.steps)
  <2>1. PICK s : s = CreateSupplierOrder.steps
    OBVIOUS
  <2>2. /\ Len(s) = 7
        /\ s[1] = "find" /\ s[2] = "supplier" /\ s[3] = "party" /\ s[4] = "dates" /\ s[5] = "create" /\ s[6] = "lines" /\ s[7] = "validate"
    BY <2>1 DEF CreateSupplierOrder, Taking, NotTaking
  <2>3. Reach(s)
    BY <2>1, <2>2 DEF Reach, Has, Before, Arriving, Succeeding
  <2>4. QED
    BY <2>1, <2>3
<1>3. Reach(CreateProposal.steps)
  <2>1. PICK s : s = CreateProposal.steps
    OBVIOUS
  <2>2. /\ Len(s) = 7
        /\ s[1] = "find" /\ s[2] = "customer" /\ s[3] = "party" /\ s[4] = "dates" /\ s[5] = "create" /\ s[6] = "lines" /\ s[7] = "validate"
    BY <2>1 DEF CreateProposal, Taking, NotTaking
  <2>3. Reach(s)
    BY <2>1, <2>2 DEF Reach, Has, Before, Arriving, Succeeding
  <2>4. QED
    BY <2>1, <2>3
<1>4. Reach(CreateInvoice.steps) /\ Has(CreateInvoice.steps, "customer") /\ Before(CreateInvoice.steps, "customer", "create")
  <2>1. PICK s : s = CreateInvoice.steps
    OBVIOUS
  <2>2. /\ Len(s) = 6
        /\ s[1] = "find" /\ s[2] = "customer" /\ s[3] = "party" /\ s[4] = "create" /\ s[5] = "lines" /\ s[6] = "validate"
    BY <2>1 DEF CreateInvoice, Taking, NotTaking
  <2>3. Reach(s) /\ Has(s, "customer") /\ Before(s, "customer", "create")
    BY <2>1, <2>2 DEF Reach, Has, Before, Arriving, Succeeding
  <2>4. QED
    BY <2>1, <2>3
<1>5. Reach(CreateInvoiceFromProposal.steps)
  <2>1. PICK s : s = CreateInvoiceFromProposal.steps
    OBVIOUS
  <2>2. /\ Len(s) = 5
        /\ s[1] = "givenDates" /\ s[2] = "needs" /\ s[3] = "create" /\ s[4] = "copy" /\ s[5] = "readBack"
    BY <2>1 DEF CreateInvoiceFromProposal, Taking, NotTaking
  <2>3. Reach(s)
    BY <2>1, <2>2 DEF Reach, Has, Before, Arriving, Succeeding
  <2>4. QED
    BY <2>1, <2>3
<1>6. Reach(CreateSupplierInvoice.steps)
  <2>1. PICK s : s = CreateSupplierInvoice.steps
    OBVIOUS
  <2>2. /\ Len(s) = 7
        /\ s[1] = "find" /\ s[2] = "supplier" /\ s[3] = "party" /\ s[4] = "record" /\ s[5] = "dates" /\ s[6] = "create" /\ s[7] = "lines"
    BY <2>1 DEF CreateSupplierInvoice, Taking, NotTaking
  <2>3. Reach(s)
    BY <2>1, <2>2 DEF Reach, Has, Before, Arriving, Succeeding
  <2>4. QED
    BY <2>1, <2>3
<1>7. Reach(CreatePayment.steps)
  <2>1. PICK s : s = CreatePayment.steps
    OBVIOUS
  <2>2. /\ Len(s) = 6
        /\ s[1] = "find" /\ s[2] = "customer" /\ s[3] = "needs" /\ s[4] = "dates" /\ s[5] = "create" /\ s[6] = "lines"
    BY <2>1 DEF CreatePayment, Taking, NotTaking
  <2>3. Reach(s)
    BY <2>1, <2>2 DEF Reach, Has, Before, Arriving, Succeeding
  <2>4. QED
    BY <2>1, <2>3
<1>8. Reach(CreateCollection.steps)
  <2>1. PICK s : s = CreateCollection.steps
    OBVIOUS
  <2>2. /\ Len(s) = 6
        /\ s[1] = "find" /\ s[2] = "supplier" /\ s[3] = "needs" /\ s[4] = "dates" /\ s[5] = "create" /\ s[6] = "lines"
    BY <2>1 DEF CreateCollection, Taking, NotTaking
  <2>3. Reach(s)
    BY <2>1, <2>2 DEF Reach, Has, Before, Arriving, Succeeding
  <2>4. QED
    BY <2>1, <2>3
<1>9. Reach(CreateStockMovement.steps)
  <2>1. PICK s : s = CreateStockMovement.steps
    OBVIOUS
  <2>2. /\ Len(s) = 4
        /\ s[1] = "needs" /\ s[2] = "dates" /\ s[3] = "needs" /\ s[4] = "create"
    BY <2>1 DEF CreateStockMovement, Taking, NotTaking
  <2>3. Reach(s)
    BY <2>1, <2>2 DEF Reach, Has, Before, Arriving, Succeeding
  <2>4. QED
    BY <2>1, <2>3
<1>10. Reach(CreateProject.steps)
  <2>1. PICK s : s = CreateProject.steps
    OBVIOUS
  <2>2. /\ Len(s) = 5
        /\ s[1] = "find" /\ s[2] = "customer" /\ s[3] = "party" /\ s[4] = "dates" /\ s[5] = "create"
    BY <2>1 DEF CreateProject, Taking, NotTaking
  <2>3. Reach(s)
    BY <2>1, <2>2 DEF Reach, Has, Before, Arriving, Succeeding
  <2>4. QED
    BY <2>1, <2>3
<1>11. Reach(CreateProjectAlone.steps)
  <2>1. PICK s : s = CreateProjectAlone.steps
    OBVIOUS
  <2>2. /\ Len(s) = 2
        /\ s[1] = "dates" /\ s[2] = "create"
    BY <2>1 DEF CreateProjectAlone, Taking, NotTaking
  <2>3. Reach(s)
    BY <2>1, <2>2 DEF Reach, Has, Before, Arriving, Succeeding
  <2>4. QED
    BY <2>1, <2>3
<1>12. Reach(AddProjectTask.steps)
  <2>1. PICK s : s = AddProjectTask.steps
    OBVIOUS
  <2>2. /\ Len(s) = 3
        /\ s[1] = "needs" /\ s[2] = "givenDates" /\ s[3] = "task"
    BY <2>1 DEF AddProjectTask, Taking, NotTaking
  <2>3. Reach(s)
    BY <2>1, <2>2 DEF Reach, Has, Before, Arriving, Succeeding
  <2>4. QED
    BY <2>1, <2>3
<1>13. Reach(ImportBC3.steps)
  <2>1. PICK s : s = ImportBC3.steps
    OBVIOUS
  <2>2. /\ Len(s) = 1
        /\ s[1] = "notImplemented"
    BY <2>1 DEF ImportBC3, Taking, NotTaking
  <2>3. Reach(s)
    BY <2>1, <2>2 DEF Reach, Has, Before, Arriving, Succeeding
  <2>4. QED
    BY <2>1, <2>3
<1>14. Reach(ExportBC3.steps)
  <2>1. PICK s : s = ExportBC3.steps
    OBVIOUS
  <2>2. /\ Len(s) = 1
        /\ s[1] = "needs"
    BY <2>1 DEF ExportBC3, Taking, NotTaking
  <2>3. Reach(s)
    BY <2>1, <2>2 DEF Reach, Has, Before, Arriving, Succeeding
  <2>4. QED
    BY <2>1, <2>3
<1>15. QED
  BY <1>1, <1>2, <1>3, <1>4, <1>5, <1>6, <1>7, <1>8, <1>9, <1>10, <1>11, <1>12, <1>13, <1>14 DEF Known, Handlers

\* What a handler for customers knows of its party while it runs.
Customer(j) ==
    j.end = "running" /\ Has(j.steps, "customer") =>
        /\ j.party # 0 => \E p \in parties : p.taxed /\ p.id = j.party
        /\ Passed(j, "customer") => j.party # 0

\* Every document comes from one of three handlers, an invoice for a party with a tax id.
FewArrive ==
    \A d \in docs :
        /\ job[d.by].steps \in Arriving
        /\ job[d.by].steps = CreateInvoice.steps => \E p \in parties : p.taxed /\ p.id = d.party

\* Only these handlers, and the export of a BC3 file, answer success.
FewSucceed == \A r \in Runs : job[r].end = "success" => job[r].steps \in Succeeding

ReachInv ==
    /\ \A r \in Runs : Customer(job[r])
    /\ FewArrive
    /\ \A d \in docs : job[d.by].end # "none"

(* A step of run r after which it knows its party, as far as it has to, and    *)
(* whose documents were there before or are such as it may make.               *)
LEMMA ReachKeeps ==
    ASSUME HandlersInv, ReachInv, NEW r \in Runs, NEW k, job' = [job EXCEPT ![r] = k],
           job[r].end = "none" \/ k.steps = job[r].steps, k.end # "none", Customer(k)',
           parties \subseteq parties',
           \A d \in docs' : \/ \E e \in docs : e.by = d.by /\ e.party = d.party
                            \/ /\ d.by = r /\ k.steps \in Arriving
                               /\ k.steps = CreateInvoice.steps => \E p \in parties : p.taxed /\ p.id = d.party
    PROVE  ReachInv'
<1>1. job'[r] = k /\ \A s \in Runs : s # r => job'[s] = job[s]
  BY DEF HandlersInv, Typed, JobsTyped
<1>2. ASSUME NEW s \in Runs PROVE Customer(job[s])'
  <2>1. CASE s = r
    BY <1>1, <2>1 DEF Customer, Passed
  <2>2. CASE s # r
    BY <1>1, <2>2 DEF ReachInv, Customer, Passed
  <2>3. QED
    BY <2>1, <2>2
<1>3. ASSUME NEW d \in docs'
      PROVE  /\ job'[d.by].steps \in Arriving /\ job'[d.by].end # "none"
             /\ job'[d.by].steps = CreateInvoice.steps => \E p \in parties' : p.taxed /\ p.id = d.party
  <2>1. ASSUME NEW e \in docs, e.by = d.by, e.party = d.party
        PROVE  /\ job'[d.by].steps \in Arriving /\ job'[d.by].end # "none"
               /\ job'[d.by].steps = CreateInvoice.steps => \E p \in parties' : p.taxed /\ p.id = d.party
    <3>1. e.by \in Runs
      BY DEF HandlersInv, Typed, Numbered, Docs
    <3>2. job[e.by].end # "none" /\ job[e.by].steps \in Arriving
      BY DEF ReachInv, FewArrive
    <3>3. job'[e.by].steps = job[e.by].steps /\ job'[e.by].end # "none"
      BY <1>1, <3>1, <3>2
    <3>4. job[e.by].steps = CreateInvoice.steps => \E p \in parties : p.taxed /\ p.id = e.party
      BY DEF ReachInv, FewArrive
    <3>5. QED
      BY <2>1, <3>2, <3>3, <3>4
  <2>2. QED
    BY <1>1, <1>3, <2>1
<1>4. FewArrive'
  BY <1>3 DEF FewArrive
<1>5. QED
  BY <1>2, <1>3, <1>4 DEF ReachInv

(* A run that has ended knows nothing any more; one that moves on past another *)
(* step than the search of a customer, with its party, knows what it knew.     *)
LEMMA EndedCustomer == ASSUME NEW k, k.end # "running" PROVE Customer(k)'
  BY DEF Customer

LEMMA MovedCustomer ==
    ASSUME HandlersInv, ReachInv, NEW r \in Runs, NEW x, At(r, x), x = "customer" => job[r].party # 0,
           NEW k, k.steps = job[r].steps, k.at = Moved(job[r]).at, k.end = Moved(job[r]).end,
           k.party = job[r].party, parties \subseteq parties'
    PROVE  Customer(k)' /\ k.end # "none"
<1>1. /\ job[r] \in Jobs /\ job[r].steps \in Known /\ job[r].end = "running" /\ job[r].at \in 1..Len(job[r].steps)
      /\ job[r].steps[job[r].at] = x
  BY RunningJob
<1>2. /\ \A y : Passed(k, y) <=> Passed(job[r], y) \/ x = y
      /\ k.end \in {"running", "success"}
  BY <1>1, MovedPasses
<1>3. Customer(job[r])
  BY DEF ReachInv
<1>4. \A y : Passed(k, y)' <=> Passed(k, y)
  OBVIOUS
<1>5. QED
  BY <1>1, <1>2, <1>3, <1>4 DEF Customer, Has

(* A run that fails, whatever it did to its document. *)
LEMMA FailureReaches ==
    ASSUME HandlersInv, ReachInv, NEW r \in Runs, NEW x, At(r, x), Fails(r) \/ Refused(r) \/ Sets(r, Stopped(r)),
           parties \subseteq parties', \A d \in docs' : \E e \in docs : e.by = d.by /\ e.party = d.party
    PROVE  ReachInv'
<1>1. job[r] \in Jobs
  BY RunningJob
<1>2. PICK e \in {"failed", "conflict"} : job' = [job EXCEPT ![r] = [job[r] EXCEPT !.end = e]]
  BY DEF Fails, Refused, Sets, Stopped
<1>3. PICK k : k = [job[r] EXCEPT !.end = e]
  OBVIOUS
<1>4. job' = [job EXCEPT ![r] = k] /\ k.end = e /\ k.steps = job[r].steps
  BY <1>1, <1>2, <1>3 DEF Jobs
<1>5. k.end # "none" /\ Customer(k)'
  BY <1>4, EndedCustomer
<1>6. QED
  BY <1>4, <1>5, ReachKeeps

(* A run that moves on. *)
LEMMA MoveReaches ==
    ASSUME HandlersInv, ReachInv, NEW r \in Runs, NEW x, At(r, x), Sets(r, Moved(job[r])),
           x = "customer" => job[r].party # 0,
           parties \subseteq parties', \A d \in docs' : \E e \in docs : e.by = d.by /\ e.party = d.party
    PROVE  ReachInv'
<1>1. job[r] \in Jobs
  BY RunningJob
<1>2. PICK k : k = Moved(job[r])
  OBVIOUS
<1>3. job' = [job EXCEPT ![r] = k]
  BY <1>2 DEF Sets
<1>4. k.steps = job[r].steps /\ k.party = job[r].party
  BY <1>1, <1>2, MovedIsJob
<1>5. Customer(k)' /\ k.end # "none"
  BY <1>2, <1>4, MovedCustomer
<1>6. QED
  BY <1>3, <1>4, <1>5, ReachKeeps

(* A running job that moves on goes on running or ends. *)
LEMMA MovedHasBegun == ASSUME NEW j \in Jobs, j.end = "running" PROVE Moved(j).end # "none"
<1>1. CASE j.at = Len(j.steps)
  <2>1. Moved(j) = [j EXCEPT !.end = "success"]
    BY <1>1 DEF Moved
  <2>2. QED
    BY <2>1 DEF Jobs
<1>2. CASE j.at # Len(j.steps)
  <2>1. Moved(j) = [j EXCEPT !.at = @ + 1]
    BY <1>2 DEF Moved
  <2>2. QED
    BY <2>1 DEF Jobs
<1>3. QED
  BY <1>1, <1>2

LEMMA CallReaches == ASSUME HandlersInv, ReachInv, NEW r \in Runs, Call(r) PROVE ReachInv'
<1>1. PICK h \in Handlers, n \in Names, four \in BOOLEAN :
          job' = [job EXCEPT ![r] = [Fresh EXCEPT !.steps = h.steps, !.name = {n},
                                        !.end = IF four /\ ~h.hash THEN "failed" ELSE "running"]]
  BY DEF Call, Sets
<1>2. PICK k : k = [Fresh EXCEPT !.steps = h.steps, !.name = {n}, !.end = IF four /\ ~h.hash THEN "failed" ELSE "running"]
  OBVIOUS
<1>3. /\ job' = [job EXCEPT ![r] = k] /\ k.steps = h.steps /\ k.at = 1 /\ k.party = 0
      /\ k.end \in {"failed", "running"}
  <2>1. k.steps = h.steps /\ k.at = 1 /\ k.party = 0
    BY <1>2 DEF Fresh
  <2>2. k.end = IF four /\ ~h.hash THEN "failed" ELSE "running"
    BY <1>2 DEF Fresh
  <2>3. job' = [job EXCEPT ![r] = k]
    BY <1>1, <1>2
  <2>4. QED
    BY <2>1, <2>2, <2>3
<1>4. Len(h.steps) \in Nat
  BY HandlersAreSound DEF Known, Sound
<1>5. k.end = "running" => \A y : ~Passed(k, y)
  BY <1>3, <1>4 DEF Passed
<1>6. \A y : Passed(k, y)' <=> Passed(k, y)
  OBVIOUS
<1>7. Customer(k)' /\ k.end # "none" /\ job[r].end = "none" /\ UNCHANGED <<parties, docs>>
  BY <1>3, <1>5, <1>6 DEF Customer, Call
<1>8. QED
  BY <1>3, <1>7, ReachKeeps

LEMMA FindReaches == ASSUME HandlersInv, ReachInv, NEW r \in Runs, Find(r) PROVE ReachInv'
<1>. DEFINE j == job[r]
<1>1. At(r, "find") /\ UNCHANGED <<wrapped, parties, docs>> /\ j \in Jobs
  BY RunningJob DEF Find
<1>2. CASE Sets(r, Moved(j))
  BY <1>1, <1>2, MoveReaches
<1>3. ASSUME NEW n \in j.name, NEW p \in ByTaxId(n), Sets(r, [Moved(j) EXCEPT !.party = p.id]) PROVE ReachInv'
  <2>1. p \in parties /\ p.taxed /\ p.id \in Nat \ {0}
    BY PartyIds DEF ByTaxId, Named, HandlersInv, Typed
  <2>2. Turned(j, [Moved(j) EXCEPT !.party = p.id], p.id, j.saw)
    BY <1>1, <2>1, PartyIsJob
  <2>3. PICK k \in Jobs : job' = [job EXCEPT ![r] = k] /\ Turned(j, k, p.id, j.saw)
    BY <1>3, <2>2 DEF Sets, Turned
  <2>4. k.steps = j.steps /\ k.party = p.id /\ k.end = Moved(j).end
    BY <2>3 DEF Turned, Partied
  <2>5. k.end # "none"
    BY <1>1, <2>4, RunningJob, MovedHasBegun
  <2>6. Customer(k)'
    BY <1>1, <2>1, <2>4 DEF Customer
  <2>7. QED
    BY <1>1, <2>3, <2>4, <2>5, <2>6, ReachKeeps
<1>4. QED
  BY <1>2, <1>3 DEF Find

LEMMA SearchSupplierReaches == ASSUME HandlersInv, ReachInv, NEW r \in Runs, SearchSupplier(r) PROVE ReachInv'
<1>. DEFINE j == job[r]
<1>1. /\ At(r, "supplier") /\ UNCHANGED <<wrapped, parties, docs>> /\ j \in Jobs /\ j.steps \in Known
      /\ j.at \in 1..Len(j.steps) /\ j.steps[j.at] = "supplier"
  BY RunningJob DEF SearchSupplier
<1>2. ~Has(j.steps, "customer")
  <2>1. Has(j.steps, "supplier")
    BY <1>1 DEF Has
  <2>2. Reach(j.steps)
    BY <1>1, HandlersReach
  <2>3. QED
    BY <2>1, <2>2 DEF Reach
<1>3. PICK k : job' = [job EXCEPT ![r] = k] /\ k.steps = j.steps /\ k.end = Moved(j).end
  <2>1. Moved(j) \in Jobs /\ Moved(j).steps = j.steps
    BY <1>1, MovedIsJob
  <2>2. \A s, p : /\ [Moved(j) EXCEPT !.saw = s].steps = j.steps /\ [Moved(j) EXCEPT !.saw = s].end = Moved(j).end
                  /\ [[Moved(j) EXCEPT !.saw = s] EXCEPT !.party = p].steps = j.steps
                  /\ [[Moved(j) EXCEPT !.saw = s] EXCEPT !.party = p].end = Moved(j).end
    BY <2>1 DEF Jobs
  <2>3. PICK n \in j.name :
            IF j.party # 0 THEN Sets(r, Moved(j))
            ELSE IF ByName(n) = {} THEN Sets(r, [Moved(j) EXCEPT !.saw = {p.id : p \in Named(n)}])
            ELSE \E p \in ByName(n) : Sets(r, [[Moved(j) EXCEPT !.saw = {q.id : q \in Named(n)}] EXCEPT !.party = p.id])
    BY DEF SearchSupplier
  <2>4. CASE Sets(r, Moved(j))
    BY <2>1, <2>4 DEF Sets
  <2>5. CASE Sets(r, [Moved(j) EXCEPT !.saw = {p.id : p \in Named(n)}])
    BY <2>2, <2>5 DEF Sets
  <2>6. ASSUME NEW p \in ByName(n), Sets(r, [[Moved(j) EXCEPT !.saw = {q.id : q \in Named(n)}] EXCEPT !.party = p.id])
        PROVE  \E k : job' = [job EXCEPT ![r] = k] /\ k.steps = j.steps /\ k.end = Moved(j).end
    <3>1. PICK s : s = {q.id : q \in Named(n)}
      OBVIOUS
    <3>2. PICK i : i = p.id
      OBVIOUS
    <3>3. job' = [job EXCEPT ![r] = [[Moved(j) EXCEPT !.saw = s] EXCEPT !.party = i]]
      BY <2>6, <3>1, <3>2 DEF Sets
    <3>4. PICK k : k = [[Moved(j) EXCEPT !.saw = s] EXCEPT !.party = i]
      OBVIOUS
    <3>5. job' = [job EXCEPT ![r] = k]
      BY <3>3, <3>4
    <3>6. k.steps = j.steps /\ k.end = Moved(j).end
      BY <2>2, <3>4
    <3>7. QED
      BY <3>5, <3>6
  <2>7. QED
    BY <2>3, <2>4, <2>5, <2>6
<1>4. k.end # "none"
  BY <1>1, <1>3, RunningJob, MovedHasBegun
<1>5. Customer(k)'
  BY <1>2, <1>3 DEF Customer
<1>6. QED
  BY <1>1, <1>3, <1>4, <1>5, ReachKeeps

LEMMA PartyReaches == ASSUME HandlersInv, ReachInv, NEW r \in Runs, Party(r) PROVE ReachInv'
<1>. DEFINE j == job[r]
<1>1. /\ At(r, "party") /\ UNCHANGED <<wrapped, docs>> /\ j \in Jobs /\ j.steps \in Known /\ j.end = "running"
      /\ j.at \in 1..Len(j.steps) /\ j.steps[j.at] = "party"
  BY RunningJob DEF Party
<1>2. parties \subseteq parties'
  BY DEF Party
<1>3. CASE Fails(r) \/ Refused(r)
  BY <1>1, <1>2, <1>3, FailureReaches
<1>4. CASE Sets(r, Moved(j))
  BY <1>1, <1>2, <1>4, MoveReaches
<1>5. CASE j.party = 0 /\ Sets(r, [Moved(j) EXCEPT !.party = Cardinality(parties) + 1, !.made = TRUE])
  <2>1. ~Has(j.steps, "customer")
    <3>1. Customer(j) /\ Reach(j.steps)
      BY <1>1, HandlersReach DEF ReachInv
    <3>2. Has(j.steps, "customer") => Passed(j, "customer")
      BY <1>1, <3>1 DEF Reach, Before, Passed
    <3>3. QED
      BY <1>1, <1>5, <3>1, <3>2 DEF Customer
  <2>2. PICK k : k = [Moved(j) EXCEPT !.party = Cardinality(parties) + 1, !.made = TRUE]
    OBVIOUS
  <2>3. job' = [job EXCEPT ![r] = k] /\ k.steps = j.steps /\ k.end = Moved(j).end
    BY <1>1, <1>5, <2>2, MovedIsJob DEF Sets, Jobs
  <2>4. k.end # "none"
    BY <1>1, <2>3 DEF Moved, Jobs
  <2>5. Customer(k)'
    BY <2>1, <2>3 DEF Customer
  <2>6. QED
    BY <1>1, <1>2, <2>3, <2>4, <2>5, ReachKeeps
<1>6. QED
  BY <1>3, <1>4, <1>5 DEF Party, Unknown

LEMMA CreatesReach == ASSUME HandlersInv, ReachInv, NEW r \in Runs, Create(r) \/ Task(r) PROVE ReachInv'
<1>. DEFINE j == job[r]
<1>1. PICK x \in {"create", "task"}, n \in {0, Lines} :
          /\ At(r, x) /\ UNCHANGED <<wrapped, parties>>
          /\ \/ Refused(r) /\ UNCHANGED docs
             \/ /\ docs' = docs \cup {NewDoc(r, n)}
                /\ Sets(r, [Moved(j) EXCEPT !.doc = Cardinality(docs) + 1]) \/ Fails(r)
  BY DEF Create, Task
<1>2. /\ j \in Jobs /\ j.steps \in Known /\ j.end = "running" /\ j.at \in 1..Len(j.steps) /\ j.steps[j.at] = x
      /\ Own(r) /\ Fine(j)
  BY <1>1, RunningJob
<1>3. CASE Refused(r) /\ UNCHANGED docs
  BY <1>1, <1>3, FailureReaches
<1>4. j.steps \in Arriving
  <2>1. Reach(j.steps) /\ ~Passed(j, "dates")
    BY <1>2, HandlersReach DEF Own
  <2>2. QED
    BY <1>2, <2>1 DEF Reach, Before, Passed, Has
<1>5. j.steps = CreateInvoice.steps => \E p \in parties : p.taxed /\ p.id = j.party
  <2>1. SUFFICES ASSUME j.steps = CreateInvoice.steps PROVE \E p \in parties : p.taxed /\ p.id = j.party
    OBVIOUS
  <2>2. x = "create"
    <3>1. ~Has(CreateInvoice.steps, "task")
      BY DEF Has, CreateInvoice, Taking
    <3>2. QED
      BY <1>2, <2>1, <3>1 DEF Has
  <2>3. Has(j.steps, "customer") /\ Passed(j, "customer")
    BY <1>2, <2>1, <2>2, HandlersReach DEF Before, Passed
  <2>4. QED
    BY <1>2, <2>3 DEF ReachInv, Customer
<1>6. PICK d : d = NewDoc(r, n)
  OBVIOUS
<1>a. d.by = r /\ d.party = j.party
  BY <1>6 DEF NewDoc
<1>7. CASE docs' = docs \cup {d} /\ Fails(r)
  <2>0. PICK k : k = [j EXCEPT !.end = "failed"]
    OBVIOUS
  <2>1. job' = [job EXCEPT ![r] = k] /\ k.end = "failed" /\ k.steps = j.steps
    BY <1>2, <1>7, <2>0 DEF Fails, Sets, Jobs
  <2>2. k.end # "none" /\ Customer(k)'
    BY <2>1, EndedCustomer
  <2>3. \A e \in docs' : \/ \E f \in docs : f.by = e.by /\ f.party = e.party
                         \/ /\ e.by = r /\ k.steps \in Arriving
                            /\ k.steps = CreateInvoice.steps => \E p \in parties : p.taxed /\ p.id = e.party
    BY <1>4, <1>5, <1>a, <1>7, <2>1
  <2>4. QED
    BY <1>1, <2>1, <2>2, <2>3, ReachKeeps
<1>8. CASE docs' = docs \cup {d} /\ Sets(r, [Moved(j) EXCEPT !.doc = Cardinality(docs) + 1])
  <2>0. PICK k : k = [Moved(j) EXCEPT !.doc = Cardinality(docs) + 1]
    OBVIOUS
  <2>1. /\ job' = [job EXCEPT ![r] = k] /\ k.steps = j.steps /\ k.party = j.party
        /\ k.at = Moved(j).at /\ k.end = Moved(j).end
    BY <1>2, <1>8, <2>0, MovedIsJob DEF Sets, Jobs
  <2>2. k.end # "none" /\ Customer(k)'
    BY <1>1, <2>1, MovedCustomer
  <2>3. \A e \in docs' : \/ \E f \in docs : f.by = e.by /\ f.party = e.party
                         \/ /\ e.by = r /\ k.steps \in Arriving
                            /\ k.steps = CreateInvoice.steps => \E p \in parties : p.taxed /\ p.id = e.party
    BY <1>4, <1>5, <1>a, <1>8, <2>1
  <2>4. QED
    BY <1>1, <2>1, <2>2, <2>3, ReachKeeps
<1>9. QED
  BY <1>1, <1>3, <1>6, <1>7, <1>8

(* A document that is changed keeps its run and its party. *)
LEMMA ChangeReaches ==
    ASSUME HandlersInv, NEW r \in Runs, NEW x \in {"lines", "copy", "validate"}, At(r, x),
           NEW d, d.by = Doc(r).by, d.party = Doc(r).party, Changed(r, d)
    PROVE  \A e \in docs' : \E f \in docs : f.by = e.by /\ f.party = e.party
<1>1. Doc(r) \in docs
  BY DocIsMade
<1>2. QED
  BY <1>1 DEF Changed

LEMMA SendsReach ==
    ASSUME HandlersInv, ReachInv, NEW r \in Runs, NEW x \in {"lines", "copy"}, At(r, x), Sends(r)
    PROVE  ReachInv'
<1>. DEFINE j == job[r]
            d == [Doc(r) EXCEPT !.lines = @ + 1]
<1>1. j \in Jobs /\ j.end = "running" /\ Doc(r) \in Docs
  BY RunningJob, DocIsMade
<1>2. d.by = Doc(r).by /\ d.party = Doc(r).party
  BY <1>1 DEF Docs
<1>3. CASE Changed(r, d)
  <2>. HIDE DEF d
  <2>1. \A e \in docs' : \E f \in docs : f.by = e.by /\ f.party = e.party
    BY <1>2, <1>3, ChangeReaches
  <2>2. UNCHANGED <<wrapped, parties>> /\ (Sets(r, Sent(r)) \/ Fails(r) \/ Sets(r, Stopped(r)))
    BY DEF Sends, SendsLine
  <2>3. CASE Fails(r) \/ Sets(r, Stopped(r))
    BY <2>1, <2>2, <2>3, FailureReaches
  <2>4. CASE Sets(r, Sent(r)) /\ j.left = 1
    <3>0. PICK k : k = [Moved(j) EXCEPT !.left = 0]
      OBVIOUS
    <3>1. /\ job' = [job EXCEPT ![r] = k] /\ k.steps = j.steps /\ k.party = j.party
          /\ k.at = Moved(j).at /\ k.end = Moved(j).end
      BY <1>1, <2>4, <3>0, MovedIsJob DEF Sets, Sent, Jobs
    <3>2. k.end # "none" /\ Customer(k)'
      BY <2>2, <3>1, MovedCustomer
    <3>3. QED
      BY <2>1, <2>2, <3>1, <3>2, ReachKeeps
  <2>5. CASE Sets(r, Sent(r)) /\ j.left # 1
    <3>0. PICK k : k = [j EXCEPT !.left = j.left - 1]
      OBVIOUS
    <3>1. /\ job' = [job EXCEPT ![r] = k] /\ k.steps = j.steps /\ k.party = j.party
          /\ k.at = j.at /\ k.end = j.end
      BY <1>1, <2>5, <3>0 DEF Sets, Sent, Jobs
    <3>2. \A y : Passed(k, y)' <=> Passed(j, y)
      BY <3>1 DEF Passed
    <3>3. Customer(j)
      BY DEF ReachInv
    <3>4. k.end # "none" /\ Customer(k)'
      BY <1>1, <2>2, <3>1, <3>2, <3>3 DEF Customer
    <3>5. QED
      BY <2>1, <2>2, <3>1, <3>4, ReachKeeps
  <2>6. QED
    BY <2>2, <2>3, <2>4, <2>5
<1>4. CASE UNCHANGED docs /\ Sets(r, Stopped(r))
  BY <1>4, FailureReaches DEF Sends
<1>5. QED
  BY <1>3, <1>4 DEF Sends, SendsLine

LEMMA ValidateReaches == ASSUME HandlersInv, ReachInv, NEW r \in Runs, Validate(r) PROVE ReachInv'
<1>. DEFINE j == job[r]
            d == [Doc(r) EXCEPT !.valid = TRUE]
<1>1. At(r, "validate") /\ UNCHANGED <<wrapped, parties>>
  BY DEF Validate
<1>2. j \in Jobs /\ j.end = "running" /\ Doc(r) \in Docs
  BY <1>1, RunningJob, DocIsMade
<1>3. d.by = Doc(r).by /\ d.party = Doc(r).party
  BY <1>2 DEF Docs
<1>4. CASE Refused(r) /\ UNCHANGED docs
  BY <1>1, <1>4, FailureReaches
<1>5. CASE Changed(r, d)
  <2>. HIDE DEF d
  <2>1. \A e \in docs' : \E f \in docs : f.by = e.by /\ f.party = e.party
    BY <1>1, <1>3, <1>5, ChangeReaches
  <2>2. CASE Sets(r, Moved(j))
    BY <1>1, <2>1, <2>2, MoveReaches
  <2>3. CASE Sets(r, [j EXCEPT !.end = "failed", !.unsure = TRUE])
    <3>0. PICK k : k = [j EXCEPT !.end = "failed", !.unsure = TRUE]
      OBVIOUS
    <3>1. job' = [job EXCEPT ![r] = k] /\ k.end = "failed" /\ k.steps = j.steps
      BY <1>2, <2>3, <3>0 DEF Sets, Jobs
    <3>2. k.end # "none" /\ Customer(k)'
      BY <3>1, EndedCustomer
    <3>3. QED
      BY <1>1, <2>1, <3>1, <3>2, ReachKeeps
  <2>4. CASE Refused(r) /\ UNCHANGED docs
    BY <1>4, <2>4
  <2>5. QED
    BY <2>2, <2>3, <2>4 DEF Validate
<1>6. QED
  BY <1>4, <1>5 DEF Validate

LEMMA LooksReach == ASSUME HandlersInv, ReachInv, NEW r \in Runs, Looks(r) PROVE ReachInv'
<1>1. /\ UNCHANGED <<wrapped, parties, docs>>
      /\ \E x : /\ At(r, x)
                /\ \/ Fails(r) \/ Refused(r)
                   \/ Sets(r, Moved(job[r])) /\ (x = "customer" => job[r].party # 0)
  BY DEF Looks, ReadFails, SearchCustomer, Record, Dates, GivenDates, Needs, NotImplemented, ReadBack
<1>2. QED
  BY <1>1, FailureReaches, MoveReaches

LEMMA CopiesNoneReaches == ASSUME HandlersInv, ReachInv, NEW r \in Runs, CopiesNone(r) PROVE ReachInv'
<1>. DEFINE j == job[r]
<1>1. j \in Jobs /\ At(r, "copy") /\ UNCHANGED <<wrapped, parties, docs>>
  BY RunningJob DEF CopiesNone, ReadsNoLines
<1>2. PICK k \in Jobs : /\ k = [Moved(j) EXCEPT !.unread = TRUE] /\ k.steps = j.steps /\ k.party = j.party
                        /\ k.at = Moved(j).at /\ k.end = Moved(j).end
  BY <1>1, UnreadJob
<1>3. job' = [job EXCEPT ![r] = k]
  BY <1>2 DEF CopiesNone, ReadsNoLines, Sets
<1>4. Customer(k)' /\ k.end # "none"
  BY <1>1, <1>2, MovedCustomer
<1>5. QED
  BY <1>1, <1>2, <1>3, <1>4, ReachKeeps

LEMMA ReachInductive == ASSUME HandlersInv, ReachInv, [Next]_vars PROVE ReachInv'
<1>1. ASSUME NEW r \in Runs, \/ Call(r) \/ Find(r) \/ SearchSupplier(r) \/ Party(r)
                             \/ Create(r) \/ Task(r) \/ Validate(r) \/ Looks(r)
      PROVE  ReachInv'
  BY <1>1, CallReaches, FindReaches, SearchSupplierReaches, PartyReaches, CreatesReach, ValidateReaches, LooksReach
<1>2. ASSUME NEW r \in Runs, AddLine(r) \/ Copy(r) PROVE ReachInv'
  <2>1. CopiesNone(r) \/ \E x \in {"lines", "copy"} : At(r, x) /\ Sends(r)
    BY <1>2 DEF AddLine, Copy, Sends, CopiesNone
  <2>2. QED
    BY <2>1, SendsReach, CopiesNoneReaches
<1>3. CASE UNCHANGED vars
  BY <1>3 DEF vars, ReachInv, Customer, FewArrive, Passed
<1>4. QED
  BY <1>1, <1>2, <1>3 DEF Next, Looks

(* In all reachable states. *)
LEMMA ReachInvariant == Spec => [](HandlersInv /\ ReachInv)
<1>1. Init => ReachInv
  <2>. SUFFICES ASSUME Init PROVE ReachInv
    OBVIOUS
  <2>1. docs = {} /\ \A r \in Runs : job[r].end = "none"
    BY DEF Init, Fresh
  <2>2. QED
    BY <2>1 DEF ReachInv, FewArrive, Customer
<1>2. QED
  BY <1>1, InitHandlers, HandlersInductive, ReachInductive, PTL DEF Spec

(* Of the handlers for customers and suppliers only that of invoices ever makes *)
(* a document, and only for a party it found by its tax id; the others stop at  *)
(* their dates, or at the search of the customer (the handlers' execute).       *)
THEOREM OnlyInvoicesArrive == Spec => []FewArrive
<1>1. ReachInv => FewArrive
  BY DEF ReachInv
<1>2. QED
  BY <1>1, ReachInvariant, PTL

(* Ten of the fourteen handlers never answer success, whatever Dolibarr         *)
(* answers: they need a date, or are not implemented.                           *)
THEOREM MostHandlersFail == Spec => []FewSucceed
<1>1. HandlersInv => FewSucceed
  <2>. SUFFICES ASSUME HandlersInv, NEW r \in Runs, job[r].end = "success" PROVE job[r].steps \in Succeeding
    BY DEF FewSucceed
  <2>1. job[r].steps \in Known /\ ~Passed(job[r], "dates") /\ ~Passed(job[r], "notImplemented")
    BY DEF HandlersInv, Own, Fine
  <2>2. QED
    BY <2>1, HandlersReach DEF Reach, Has, Passed
<1>2. QED
  BY <1>1, InitHandlers, HandlersInductive, PTL DEF Spec

=============================================================================
