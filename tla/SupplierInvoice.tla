-------------------------- MODULE SupplierInvoice --------------------------
(***************************************************************************)
(* The confirmation of one supplier invoice: the durable record of the     *)
(* operation (DocumentIdempotencyManager, audit.py), the handlers that     *)
(* execute and reconcile it (commands/handlers/supplier_invoice.py) and    *)
(* Dolibarr, which may apply a request whose answer is lost.               *)
(*                                                                         *)
(* The record has one row per (instance, supplier, invoice number); the    *)
(* model is about one such row. Attempts are the commands that carry this  *)
(* number (two photographs of the same invoice, a second upload), each     *)
(* executed once. An attempt is a program counter over the awaits of       *)
(* ConfirmSupplierInvoiceHandler.execute: the database calls between two   *)
(* awaits are synchronous and belong to one step.                          *)
(***************************************************************************)
EXTENDS Naturals, FiniteSets

CONSTANTS
    Attempts,     \* commands that confirm this invoice
    Overlap,      \* two attempts may run at the same time
    SearchSees,   \* the search for duplicates always finds an invoice Dolibarr has
    LateApply,    \* a request that ended in an error may still be applied
    PathImported, \* supplier_invoice.py can evaluate the name Path
    MaxCrashes    \* bound: crashes of the worker

ASSUME ConstantsAssumption ==
    /\ {Overlap, SearchSees, LateApply, PathImported} \subseteq BOOLEAN
    /\ MaxCrashes \in Nat
    /\ IsFiniteSet(Attempts)

VARIABLES
    state,      \* final_state of the row, "absent" without one
    attached,   \* the column attachment_uploaded of the row
    invoices,   \* invoices of this number created in Dolibarr
    adrift,     \* create requests on the wire with nobody waiting for them
    posts,      \* create requests sent so far
    timedOut,   \* some create request ended in a timeout
    verified,   \* some attempt read its invoice back and found it equal
    files,      \* attachments uploaded to Dolibarr
    pc,         \* pc[a]: where the attempt is
    said,       \* said[a]: what the attempt reported
    reconciled, \* how the last reconciliation ended
    crashes     \* crashes of the worker so far

vars == <<state, attached, invoices, adrift, posts, timedOut, verified, files,
          pc, said, reconciled, crashes>>

rowVars == <<state, attached>>
erpVars == <<invoices, adrift, files>>
history == <<posts, timedOut, verified>>

States == {"PENDING_CONFIRMATION", "CONFIRMING", "SUPPLIER_CREATED", "INVOICE_CREATED",
           "ATTACHMENT_PENDING", "COMPLETED", "ERP_RESULT_UNKNOWN",
           "FAILED_RETRYABLE", "FAILED_FINAL"}
Points == {"waiting", "checking", "resolving", "posting", "applied", "lining",
           "verifying", "uploading", "done"}
Busy   == Points \ {"waiting", "done"}
Said   == {"nothing", "created", "duplicate", "unchecked", "failed", "ambiguous",
           "unknown", "mismatch", "unattached", "raised"}

-----------------------------------------------------------------------------
(* The row. *)

\* VALID_TRANSITIONS.
Allowed ==
    [s \in States |->
       CASE s = "PENDING_CONFIRMATION" -> {"CONFIRMING"}
         [] s = "CONFIRMING" -> {"SUPPLIER_CREATED", "INVOICE_CREATED", "ERP_RESULT_UNKNOWN",
                                 "FAILED_RETRYABLE", "FAILED_FINAL"}
         [] s = "SUPPLIER_CREATED" -> {"INVOICE_CREATED", "ERP_RESULT_UNKNOWN",
                                       "FAILED_RETRYABLE", "FAILED_FINAL"}
         [] s = "INVOICE_CREATED" -> {"ATTACHMENT_PENDING", "COMPLETED", "ERP_RESULT_UNKNOWN",
                                      "FAILED_RETRYABLE", "FAILED_FINAL"}
         [] s = "ATTACHMENT_PENDING" -> {"COMPLETED", "FAILED_RETRYABLE", "FAILED_FINAL"}
         [] s = "ERP_RESULT_UNKNOWN" -> {"INVOICE_CREATED", "COMPLETED", "FAILED_FINAL"}
         [] s = "FAILED_RETRYABLE" -> {"CONFIRMING", "SUPPLIER_CREATED", "INVOICE_CREATED",
                                       "ERP_RESULT_UNKNOWN"}
         [] OTHER -> {}]

\* Slips: an unknown result can be retried, any milestone can be written.
CanMarkUnknown(s) ==
    state # "absent" /\ (state = s \/ s \in Allowed[state] \/ state = "ERP_RESULT_UNKNOWN")
CanMarkAnything(s) == state # "absent"

\* _validate_transition and the missing row of update_milestone.
CanMark(s) == state # "absent" /\ (state = s \/ s \in Allowed[state])

Mark(s) ==
    /\ CanMark(s)
    /\ state' = s
    /\ UNCHANGED attached

Advance(a, point) ==
    /\ pc' = [pc EXCEPT ![a] = point]
    /\ UNCHANGED <<said, reconciled, crashes>>

End(a, word) ==
    /\ pc'   = [pc EXCEPT ![a] = "done"]
    /\ said' = [said EXCEPT ![a] = word]
    /\ UNCHANGED <<reconciled, crashes>>

\* mark_failed_retryable, in the place of the error or in the outer except
\* clause; a refused transition is a ValueError out of execute.
Fail(a) ==
    IF CanMark("FAILED_RETRYABLE")
    THEN Mark("FAILED_RETRYABLE") /\ End(a, "failed")
    ELSE UNCHANGED rowVars /\ End(a, "raised")

-----------------------------------------------------------------------------
Init ==
    /\ state      = "absent"
    /\ attached   = FALSE
    /\ invoices   = 0
    /\ adrift     = 0
    /\ posts      = 0
    /\ timedOut   = FALSE
    /\ verified   = FALSE
    /\ files      = 0
    /\ pc         = [a \in Attempts |-> "waiting"]
    /\ said       = [a \in Attempts |-> "nothing"]
    /\ reconciled = "never"
    /\ crashes    = 0

\* mark_pending_confirmation of a document whose preview is shown.
Register ==
    /\ state = "absent"
    /\ state' = "PENDING_CONFIRMATION"
    /\ UNCHANGED <<attached, erpVars, history, pc, said, reconciled, crashes>>

\* The single worker runs one confirmation at a time unless Overlap holds.
MayBegin(a) ==
    /\ pc[a] = "waiting"
    /\ Overlap \/ \A b \in Attempts : pc[b] \notin Busy

\* Step 1, the revalidation gate. The durable duplicate check that follows reads
\* the CONFIRMING just written and never finds anything.
Begin(a) ==
    /\ MayBegin(a)
    /\ Mark("CONFIRMING")
    /\ Advance(a, "checking")
    /\ UNCHANGED <<erpVars, history>>

BeginRefused(a) ==
    /\ MayBegin(a)
    /\ ~CanMark("CONFIRMING")
    /\ Fail(a)
    /\ UNCHANGED <<erpVars, history>>

SearchFindsNothing(a) ==
    /\ pc[a] = "checking"
    /\ SearchSees => invoices = 0
    /\ Advance(a, "resolving")
    /\ UNCHANGED <<rowVars, erpVars, history>>

\* Found, or not to be known (fail closed): the row stays CONFIRMING.
SearchStops(a) ==
    /\ pc[a] = "checking"
    /\ \/ invoices > 0 /\ End(a, "duplicate")
       \/ End(a, "unchecked")
    /\ UNCHANGED <<rowVars, erpVars, history>>

\* Steps 2 and 3: the milestone and the sending of the request follow each other
\* without an await.
SendInvoice(a) ==
    /\ pc[a] = "resolving"
    /\ Mark("SUPPLIER_CREATED")
    /\ posts' = posts + 1
    /\ Advance(a, "posting")
    /\ UNCHANGED <<erpVars, timedOut, verified>>

SupplierAmbiguous(a) ==
    /\ pc[a] = "resolving"
    /\ Mark("FAILED_FINAL")
    /\ End(a, "ambiguous")
    /\ UNCHANGED <<erpVars, history>>

\* No supplier, an exception at one of the awaits, or a refused milestone.
StepFails(a) ==
    /\ pc[a] \in {"resolving", "lining", "verifying"}
    /\ Fail(a)
    /\ UNCHANGED <<erpVars, history>>

DolibarrCreates(a) ==
    /\ pc[a] = "posting"
    /\ invoices' = invoices + 1
    /\ Advance(a, "applied")
    /\ UNCHANGED <<rowVars, adrift, files, history>>

\* Slip: the milestone is written before the answer is there.
AnswerAssumed(a) ==
    /\ pc[a] \in {"posting", "applied"}
    /\ Mark("INVOICE_CREATED")
    /\ Advance(a, "lining")
    /\ UNCHANGED <<erpVars, history>>

CreationAnswered(a) ==
    /\ pc[a] = "applied"
    /\ Mark("INVOICE_CREATED")
    /\ Advance(a, "lining")
    /\ UNCHANGED <<erpVars, history>>

\* Slip: a timeout is handled like any other error.
TimeoutAsError(a) ==
    /\ pc[a] \in {"posting", "applied"}
    /\ Fail(a)
    /\ adrift' \in {adrift, IF pc[a] = "posting" THEN adrift + 1 ELSE adrift}
    /\ timedOut' = TRUE
    /\ UNCHANGED <<invoices, files, posts, verified>>

\* The text of the error says "timeout": the request may still be applied.
CreationTimesOut(a) ==
    /\ pc[a] \in {"posting", "applied"}
    /\ \/ CanMark("ERP_RESULT_UNKNOWN") /\ Mark("ERP_RESULT_UNKNOWN") /\ End(a, "unknown")
       \/ ~CanMark("ERP_RESULT_UNKNOWN") /\ Fail(a)
    /\ adrift' \in {adrift, IF pc[a] = "posting" THEN adrift + 1 ELSE adrift}
    /\ timedOut' = TRUE
    /\ UNCHANGED <<invoices, files, posts, verified>>

\* Any other error, an answer without id, or a milestone refused.
CreationFails(a) ==
    /\ pc[a] \in {"posting", "applied"}
    /\ Fail(a)
    /\ adrift' \in {adrift, IF LateApply /\ pc[a] = "posting" THEN adrift + 1 ELSE adrift}
    /\ UNCHANGED <<invoices, files, history>>

LateCreation ==
    /\ adrift > 0
    /\ adrift' = adrift - 1
    /\ invoices' = invoices + 1
    /\ UNCHANGED <<rowVars, files, history, pc, said, reconciled, crashes>>

\* Step 4.
LinesAdded(a) ==
    /\ pc[a] = "lining"
    /\ Advance(a, "verifying")
    /\ UNCHANGED <<rowVars, erpVars, history>>

\* Step 5: the invoice read back differs from the draft.
Mismatch(a) ==
    /\ pc[a] = "verifying"
    /\ Mark("FAILED_FINAL")
    /\ End(a, "mismatch")
    /\ UNCHANGED <<erpVars, history>>

\* No file: mark_completed, which also sets attachment_uploaded.
CompleteWithoutFile(a) ==
    /\ pc[a] = "verifying"
    /\ CanMark("COMPLETED")
    /\ state'    = "COMPLETED"
    /\ attached' = TRUE
    /\ verified' = TRUE
    /\ End(a, "created")
    /\ UNCHANGED <<erpVars, posts, timedOut>>

\* Step 7 with a file: the first thing it evaluates is Path(...).
PathUnknown(a) ==
    /\ pc[a] = "verifying"
    /\ ~PathImported
    /\ Fail(a)
    /\ verified' = TRUE
    /\ UNCHANGED <<erpVars, posts, timedOut>>

\* A path outside the storage, an unreadable file, a hash that differs.
FileRefused(a) ==
    /\ pc[a] = "verifying"
    /\ PathImported
    /\ End(a, "unattached")
    /\ verified' = TRUE
    /\ UNCHANGED <<rowVars, erpVars, posts, timedOut>>

StartUpload(a) ==
    /\ pc[a] = "verifying"
    /\ PathImported
    /\ Mark("ATTACHMENT_PENDING")
    /\ Advance(a, "uploading")
    /\ verified' = TRUE
    /\ UNCHANGED <<erpVars, posts, timedOut>>

Uploaded(a) ==
    /\ pc[a] = "uploading"
    /\ files' = files + 1
    /\ \/ /\ CanMark("COMPLETED")
          /\ state' = "COMPLETED"
          /\ attached' = TRUE
          /\ End(a, "created")
       \/ ~CanMark("COMPLETED") /\ Fail(a)
    /\ UNCHANGED <<invoices, adrift, history>>

\* Slip: the result of the upload is not looked at.
UploadUnheeded(a) ==
    /\ pc[a] = "uploading"
    /\ End(a, "created")
    /\ UNCHANGED <<rowVars, erpVars, history>>

\* Three failures in a row: "Stay in ATTACHMENT_PENDING for retry".
UploadFails(a) ==
    /\ pc[a] = "uploading"
    /\ End(a, "unattached")
    /\ UNCHANGED <<rowVars, erpVars, history>>

-----------------------------------------------------------------------------
(* ReconcileSupplierInvoiceHandler. The engine calls the asynchronous client  *)
(* without awaiting it, sees no list and answers NO_MATCH.                    *)
Reconcile ==
    /\ state = "ERP_RESULT_UNKNOWN"
    /\ IF CanMark("FAILED_RETRYABLE")
       THEN Mark("FAILED_RETRYABLE") /\ reconciled' = "retry"
       ELSE UNCHANGED rowVars /\ reconciled' = "raised"
    /\ UNCHANGED <<erpVars, history, pc, said, crashes>>

\* The worker dies. What is on the wire may be lost or applied.
Crash ==
    /\ crashes < MaxCrashes
    /\ crashes' = crashes + 1
    /\ pc' = [a \in Attempts |-> IF pc[a] \in Busy THEN "done" ELSE pc[a]]
    /\ adrift' = IF LateApply THEN adrift + Cardinality({a \in Attempts : pc[a] = "posting"})
                 ELSE adrift
    /\ UNCHANGED <<rowVars, invoices, files, history, said, reconciled>>

-----------------------------------------------------------------------------
Attempt(a) ==
    \/ Begin(a) \/ BeginRefused(a)
    \/ SearchFindsNothing(a) \/ SearchStops(a)
    \/ SendInvoice(a) \/ SupplierAmbiguous(a) \/ StepFails(a)
    \/ DolibarrCreates(a) \/ CreationAnswered(a)
    \/ CreationTimesOut(a) \/ CreationFails(a)
    \/ LinesAdded(a) \/ Mismatch(a)
    \/ CompleteWithoutFile(a) \/ PathUnknown(a) \/ FileRefused(a)
    \/ StartUpload(a) \/ Uploaded(a) \/ UploadFails(a)

Next ==
    \/ Register
    \/ \E a \in Attempts : Attempt(a)
    \/ LateCreation \/ Reconcile \/ Crash

Spec == Init /\ [][Next]_vars

\* The event loop runs every attempt to its end (30 s timeouts of the client),
\* and somebody reconciles again and again.
FairSpec == Spec /\ WF_vars(Register) /\ WF_vars(Reconcile)
                 /\ \A a \in Attempts : WF_vars(Attempt(a))

-----------------------------------------------------------------------------
(* Properties. *)

TypeOK ==
    /\ state      \in States \cup {"absent"}
    /\ attached   \in BOOLEAN
    /\ invoices   \in Nat
    /\ adrift     \in Nat
    /\ posts      \in Nat
    /\ timedOut   \in BOOLEAN
    /\ verified   \in BOOLEAN
    /\ files      \in Nat
    /\ pc         \in [Attempts -> Points]
    /\ said       \in [Attempts -> Said]
    /\ reconciled \in {"never", "retry", "raised"}
    /\ crashes    \in 0 .. MaxCrashes

\* "Exactly 1 invoice": however many commands carry the same invoice and however
\* they fail, Dolibarr never holds two invoices Hermes created for it.
AtMostOneInvoice == invoices <= 1

\* "Exactly 1 invoice", as far as it goes when confirmations do not overlap: a second
\* request is sent, and a second invoice made, only where an earlier attempt reported
\* a failure or the worker died, never because the invoice was confirmed once more.
Interrupted == crashes > 0 \/ \E a \in Attempts : said[a] \in {"failed", "raised"}

SecondIsARetry == posts > 1 \/ invoices > 1 => Interrupted

\* "Prohibe reintentar CREATE": once a create request of this invoice has timed
\* out, no attempt, retry or reconciliation ever sends another one.
NoPostAfterTimeout == [][timedOut => posts' = posts]_vars

\* The same of the milestone alone, whatever attempts overlap: while the row says
\* ERP_RESULT_UNKNOWN no attempt that is already past its checks sends a request.
UnknownBlocks == [][state = "ERP_RESULT_UNKNOWN" => posts' = posts]_vars

\* Who is told that the invoice was created has a COMPLETED row, for ever, and an
\* invoice in Dolibarr, whatever other attempts do meanwhile.
SuccessIsTrue ==
    \A a \in Attempts : said[a] = "created" => state = "COMPLETED" /\ invoices > 0

\* A row that says the invoice was created is right about Dolibarr, and one that
\* says COMPLETED was compared with what Dolibarr stored.
MilestoneIsTrue ==
    /\ state \in {"INVOICE_CREATED", "ATTACHMENT_PENDING", "COMPLETED"} => invoices > 0
    /\ state = "COMPLETED" => verified

\* After its verification only the attachment is missing of an invoice: the row
\* waits for it, it does not go back to where the invoice is created.
VerifiedKept ==
    verified => state \in {"INVOICE_CREATED", "ATTACHMENT_PENDING", "COMPLETED"}

\* Reconciliation resolves an unknown result.
UnknownResolved == state = "ERP_RESULT_UNKNOWN" ~> state # "ERP_RESULT_UNKNOWN"

\* The abstract operation this module implements.
Phase ==
    CASE state = "absent" -> "none"
      [] state \in {"PENDING_CONFIRMATION", "CONFIRMING", "FAILED_RETRYABLE"} -> "open"
      [] state = "SUPPLIER_CREATED" -> "sending"
      [] state = "ERP_RESULT_UNKNOWN" -> "uncertain"
      [] state \in {"INVOICE_CREATED", "ATTACHMENT_PENDING"} -> "made"
      [] state = "COMPLETED" -> "done"
      [] OTHER -> "closed"

Once == INSTANCE InvoiceOnce WITH phase <- Phase, sent <- posts, made <- invoices

ImplementsOnce == Once!OSpec
=============================================================================
