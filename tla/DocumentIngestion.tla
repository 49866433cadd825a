------------------------- MODULE DocumentIngestion -------------------------
(***************************************************************************)
(* The intake of supplier invoices (invoices/ingestion.py). A user sends a *)
(* document; its state is a hash in Redis under the SHA-256 of its bytes,  *)
(* its bytes a file in the pending directory. One pipeline, a run, asks    *)
(* the local model for the invoice in it, Dolibarr for the supplier and    *)
(* the audit database for an operation with the same supplier and number,  *)
(* and ends in a preview, for which the webhook stores a pending command,  *)
(* or in a failure after which the document may be sent again.             *)
(*                                                                         *)
(* A run is a program counter over the awaits of _process_document. Redis, *)
(* the disk and the audit database are called without suspending. The      *)
(* milestone wrappers of the service (mark_cancelled and the others) and   *)
(* resume_from_stored_document have no caller: a document is never told    *)
(* what became of its command.                                             *)
(***************************************************************************)
EXTENDS Naturals, FiniteSets

CONSTANTS
    Documents,      \* documents, told apart by their hash
    Runs,           \* requests that may run the pipeline
    None,           \* no document
    MaxAutoRetries, \* MAX_AUTO_RETRIES
    MaxCommands,    \* bound: runs in progress and open commands of a document
    MaxCrashes      \* bound: crashes of the worker

ASSUME IngestionAssumption ==
    /\ None \notin Documents
    /\ MaxAutoRetries \in Nat /\ MaxCommands \in Nat /\ MaxCrashes \in Nat

VARIABLES
    status,     \* status[h]: the field of that name, "none" without a key
    retries,    \* retries[h]: retry_count
    stale,      \* documents whose updated_at is more than five minutes old
    files,      \* documents whose bytes are in the pending directory
    pc,         \* pc[r]: where run r is
    on,         \* on[r]: its document
    open,       \* open[h]: commands of h that wait for their user
    recorded,   \* documents whose invoice check_duplicate finds in the audit database
    overlapped, \* documents a run was begun for while another was in progress
    abandoned,  \* documents whose last run ended without a word in Redis
    retried,    \* retried[h]: failures that were tried again, counted up to one too many
    crashes

redisVars   == <<status, retries, stale>>
runVars     == <<pc, on>>
historyVars == <<overlapped, abandoned, retried>>
vars == <<redisVars, files, runVars, open, recorded, historyVars, crashes>>

\* The values of DocumentState that the program reaches, and FAILED_FINAL.
States == {"none", "received", "processing", "review", "failed_retryable", "failed_final"}

RunsOn(h) == {r \in Runs : on[r] = h}

Init ==
    /\ status     = [h \in Documents |-> "none"]
    /\ retries    = [h \in Documents |-> 0]
    /\ stale      = {}
    /\ files      = {}
    /\ pc         = [r \in Runs |-> "idle"]
    /\ on         = [r \in Runs |-> None]
    /\ open       = [h \in Documents |-> 0]
    /\ recorded   = {}
    /\ overlapped = {}
    /\ abandoned  = {}
    /\ retried    = [h \in Documents |-> 0]
    /\ crashes    = 0

-----------------------------------------------------------------------------
(* A document arrives: ingest_bytes. In the states that are not named here it *)
(* is answered with an error and nothing changes.                             *)

Set(h, state) == status' = [status EXCEPT ![h] = state]

\* The beginning of _process_document, up to the call of the model.
Begin(r, h) ==
    /\ pc[r] = "idle"
    /\ Cardinality(RunsOn(h)) + open[h] < MaxCommands
    /\ Set(h, "processing")
    /\ stale' = stale \ {h}
    /\ pc' = [pc EXCEPT ![r] = "extracting"]
    /\ on' = [on EXCEPT ![r] = h]
    /\ overlapped' = overlapped \cup {d \in {h} : RunsOn(d) # {}}
    /\ abandoned' = abandoned \ {h}
    /\ UNCHANGED <<open, recorded, crashes>>

\* Slip: a document in review is taken in as if it were new.
ReceiveAgain(r, h) ==
    /\ status[h] \in {"none", "review"}
    /\ files' = files \cup {h}
    /\ retries' = [retries EXCEPT ![h] = 0]
    /\ retried' = [retried EXCEPT ![h] = 0]
    /\ Begin(r, h)

\* A hash that Redis does not know.
ReceiveNew(r, h) ==
    /\ status[h] = "none"
    /\ files' = files \cup {h}
    /\ retries' = [retries EXCEPT ![h] = 0]
    /\ retried' = [retried EXCEPT ![h] = 0]
    /\ Begin(r, h)

\* The state is saved and the file cannot be written: the error leaves the service.
StoreFails(h) ==
    /\ status[h] = "none"
    /\ Set(h, "received")
    /\ retries' = [retries EXCEPT ![h] = 0]
    /\ retried' = [retried EXCEPT ![h] = 0]
    /\ UNCHANGED <<stale, files, runVars, open, recorded, overlapped, abandoned, crashes>>

\* A document that failed and is sent again: at most MAX_AUTO_RETRIES times. It is
\* read from its file.
RetryFailed(r, h) ==
    /\ status[h] = "failed_retryable"
    /\ h \in files
    /\ IF retries[h] >= MaxAutoRetries
       THEN /\ Set(h, "failed_final")
            /\ UNCHANGED <<retries, retried, stale, runVars, open, recorded, overlapped, abandoned, crashes>>
       ELSE /\ retries' = [retries EXCEPT ![h] = @ + 1]
            /\ retried' = [retried EXCEPT ![h] = IF @ > MaxAutoRetries THEN @ ELSE @ + 1]
            /\ Begin(r, h)
    /\ UNCHANGED files

\* Slip: a document at PROCESSING is left to the run it once had.
RetryNever(r, h) ==
    /\ status[h] = "processing"
    /\ FALSE
    /\ Begin(r, h)
    /\ UNCHANGED <<files, retries, retried>>

\* A document that has been at PROCESSING for more than five minutes.
RetryStale(r, h) ==
    /\ status[h] = "processing"
    /\ h \in stale
    /\ h \in files
    /\ Begin(r, h)
    /\ UNCHANGED <<files, retries, retried>>

Send(r, h) == ReceiveNew(r, h) \/ RetryFailed(r, h) \/ RetryStale(r, h)

-----------------------------------------------------------------------------
(* The run.                                                                   *)

End(r) == pc' = [pc EXCEPT ![r] = "idle"] /\ on' = [on EXCEPT ![r] = None]

\* The model has answered with an invoice that has a supplier, a number and a
\* date; Dolibarr is asked for the supplier.
Extracted(r) ==
    /\ pc[r] = "extracting"
    /\ pc' = [pc EXCEPT ![r] = "checking"]
    /\ UNCHANGED <<redisVars, files, on, open, recorded, historyVars, crashes>>

\* Slips: the file is removed; the failure is not recorded.
RunFailsAndCleans(r) ==
    /\ pc[r] \in {"extracting", "checking"}
    /\ Set(on[r], "failed_retryable")
    /\ retries' = [retries EXCEPT ![on[r]] = 0]
    /\ stale' = stale \ {on[r]}
    /\ files' = files \ {on[r]}
    /\ End(r)
    /\ UNCHANGED <<open, recorded, historyVars, crashes>>
RunFailsUnseen(r) ==
    /\ pc[r] \in {"extracting", "checking"}
    /\ End(r)
    /\ UNCHANGED <<redisVars, files, open, recorded, historyVars, crashes>>

\* _handle_extraction_failure and _handle_processing_failure: no model, no text, no
\* invoice, or an exception anywhere. The retry count starts again at 0.
RunFails(r) ==
    /\ pc[r] \in {"extracting", "checking"}
    /\ Set(on[r], "failed_retryable")
    /\ retries' = [retries EXCEPT ![on[r]] = 0]
    /\ stale' = stale \ {on[r]}
    /\ End(r)
    /\ UNCHANGED <<files, open, recorded, historyVars, crashes>>

\* check_duplicate finds an operation that is under way or done. Nothing is
\* written but, if Dolibarr knew one, the supplier.
AlreadyRecorded(r) ==
    /\ pc[r] = "checking"
    /\ on[r] \in recorded
    /\ stale' \in {stale, stale \ {on[r]}}
    /\ abandoned' = abandoned \cup {on[r]}
    /\ End(r)
    /\ UNCHANGED <<status, retries, files, open, recorded, overlapped, retried, crashes>>

\* Without a supplier, a number or a date there is nothing to look for.
Cleared(r) == pc[r] = "extracting" \/ (pc[r] = "checking" /\ on[r] \notin recorded)

\* REVIEW, and back in the webhook the pending command, without an await between.
PreviewReady(r) ==
    /\ Cleared(r)
    /\ Set(on[r], "review")
    /\ stale' = stale \ {on[r]}
    /\ open' = [open EXCEPT ![on[r]] = @ + 1]
    /\ End(r)
    /\ UNCHANGED <<retries, files, recorded, historyVars, crashes>>

\* The store refuses the command; the document stays in review.
CommandNotStored(r) ==
    /\ Cleared(r)
    /\ Set(on[r], "review")
    /\ stale' = stale \ {on[r]}
    /\ End(r)
    /\ UNCHANGED <<retries, files, open, recorded, historyVars, crashes>>

Step(r) ==
    \/ Extracted(r) \/ RunFails(r) \/ AlreadyRecorded(r)
    \/ PreviewReady(r) \/ CommandNotStored(r)

-----------------------------------------------------------------------------
(* The surroundings.                                                          *)

\* PROCESSING_STALE_THRESHOLD_SECONDS go by; the model may take thirty minutes.
FiveMinutesPass(h) ==
    /\ status[h] = "processing"
    /\ h \notin stale
    /\ stale' = stale \cup {h}
    /\ UNCHANGED <<status, retries, files, runVars, open, recorded, historyVars, crashes>>

\* The user confirms, cancels or corrects, or the command expires after a day.
CommandEnds(h) ==
    /\ open[h] > 0
    /\ open' = [open EXCEPT ![h] = @ - 1]
    /\ UNCHANGED <<redisVars, files, runVars, recorded, historyVars, crashes>>

\* The key expires a week after its last change: a run takes half an hour, a command
\* a day.
KeyExpires(h) ==
    /\ status[h] # "none"
    /\ RunsOn(h) = {}
    /\ open[h] = 0
    /\ Set(h, "none")
    /\ stale' = stale \ {h}
    /\ abandoned' = abandoned \ {h}
    /\ UNCHANGED <<retries, files, runVars, open, recorded, overlapped, retried, crashes>>

\* The operation with the number of h reaches a milestone that check_duplicate
\* looks for, or leaves it for FAILED_RETRYABLE.
RowChanges(h) ==
    /\ \/ recorded' = recorded \cup {h}
       \/ recorded' = recorded \ {h}
    /\ recorded' # recorded
    /\ UNCHANGED <<redisVars, files, runVars, open, historyVars, crashes>>

Crash ==
    /\ crashes < MaxCrashes
    /\ crashes' = crashes + 1
    /\ pc' = [r \in Runs |-> "idle"]
    /\ on' = [r \in Runs |-> None]
    /\ abandoned' = abandoned \cup {h \in Documents : RunsOn(h) # {}}
    /\ UNCHANGED <<redisVars, files, open, recorded, overlapped, retried>>

Next ==
    \/ \E r \in Runs, h \in Documents : Send(r, h)
    \/ \E r \in Runs : Step(r)
    \/ \E h \in Documents :
        StoreFails(h) \/ FiveMinutesPass(h) \/ CommandEnds(h) \/ KeyExpires(h) \/ RowChanges(h)
    \/ Crash

Spec == Init /\ [][Next]_vars

(* The calls of a run end, time passes, a command ends after a day at the     *)
(* latest, and the user who still wants the invoice sends the document again. *)
Fairness ==
    /\ \A r \in Runs : WF_vars(Step(r))
    /\ \A h \in Documents :
        /\ WF_vars(FiveMinutesPass(h))
        /\ WF_vars(CommandEnds(h))
        /\ SF_vars(\E r \in Runs : Send(r, h))

FairSpec == Spec /\ Fairness

-----------------------------------------------------------------------------
TypeOK ==
    /\ status \in [Documents -> States]
    /\ retries \in [Documents -> 0..MaxAutoRetries]
    /\ stale \subseteq Documents
    /\ files \subseteq Documents
    /\ pc \in [Runs -> {"idle", "extracting", "checking"}]
    /\ on \in [Runs -> Documents \cup {None}]
    /\ \A r \in Runs : pc[r] = "idle" <=> on[r] = None
    /\ open \in [Documents -> Nat]
    /\ recorded \subseteq Documents
    /\ overlapped \subseteq Documents
    /\ abandoned \subseteq Documents
    /\ retried \in [Documents -> 0..(MaxAutoRetries + 1)]
    /\ crashes \in 0..MaxCrashes

\* While no run outlasts the five minutes, however often a document is sent, it
\* has one command at most, and while the command is open the document is in review.
OneCommand ==
    \A h \in Documents \ overlapped :
        /\ open[h] <= 1
        /\ open[h] = 1 => status[h] = "review"

\* A document that may be tried again has its file: no failure loses the bytes.
RetryableHasFile ==
    \A h \in Documents : status[h] \in {"processing", "failed_retryable"} => h \in files

\* A document that is said to be in process is, unless a crash or an operation
\* found in the audit database ended its run.
ProcessingIsTrue ==
    \A h \in Documents : status[h] = "processing" => RunsOn(h) # {} \/ h \in abandoned

\* A document does not stay in process for ever, whatever died with its run, if
\* its invoice is not recorded and its user sends it again.
ProcessingEnds ==
    \A h \in Documents : status[h] = "processing" ~> (status[h] # "processing" \/ h \in recorded)

\* A document that keeps failing is tried again MAX_AUTO_RETRIES times and given up.
RetriesBounded == \A h \in Documents : retried[h] <= MaxAutoRetries
=============================================================================
