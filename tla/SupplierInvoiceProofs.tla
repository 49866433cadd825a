------------------------ MODULE SupplierInvoiceProofs ------------------------
(***************************************************************************)
(* Proofs about SupplierInvoice, for every finite set of attempts and any  *)
(* number of crashes. The constants that describe the wiring are           *)
(* hypotheses of the theorems that need them.                              *)
(***************************************************************************)
EXTENDS SupplierInvoice, FiniteSetTheorems, TLAPS

-----------------------------------------------------------------------------
(* Types. *)

(* The names the steps write belong to the sets of the type invariant. *)
LEMMA Names ==
    /\ {"PENDING_CONFIRMATION", "CONFIRMING", "SUPPLIER_CREATED", "INVOICE_CREATED",
        "ATTACHMENT_PENDING", "COMPLETED", "ERP_RESULT_UNKNOWN", "FAILED_RETRYABLE",
        "FAILED_FINAL"} \subseteq States
    /\ "absent" \notin States
    /\ {"waiting", "checking", "resolving", "posting", "applied", "lining", "verifying",
        "uploading", "done"} \subseteq Points
    /\ {"nothing", "created", "duplicate", "unchecked", "failed", "ambiguous", "unknown",
        "mismatch", "unattached", "raised"} \subseteq Said
  BY DEF States, Points, Said

(* A failing step ends the attempt and leaves the row where it is or retryable. *)
LEMMA FailEffect ==
    ASSUME NEW a, Fail(a)
    PROVE  /\ state' = state \/ (CanMark("FAILED_RETRYABLE") /\ state' = "FAILED_RETRYABLE")
           /\ attached' = attached
           /\ pc' = [pc EXCEPT ![a] = "done"]
           /\ said' = [said EXCEPT ![a] = "failed"] \/ said' = [said EXCEPT ![a] = "raised"]
           /\ UNCHANGED <<reconciled, crashes>>
  BY DEF Fail, Mark, End, rowVars

(* Every step of the specification keeps the variables in their types. *)
LEMMA TypeInductive == ASSUME TypeOK, [Next]_vars PROVE TypeOK'
<1>. USE Names, ConstantsAssumption DEF TypeOK, rowVars, erpVars, history
<1>1. CASE UNCHANGED vars
  BY <1>1 DEF vars
<1>2. ASSUME NEW a \in Attempts, Attempt(a) PROVE TypeOK'
  <2>1. CASE Begin(a)
    BY <2>1 DEF Begin, MayBegin, Mark, Advance
  <2>2. CASE BeginRefused(a)
    BY <2>2, FailEffect DEF BeginRefused, MayBegin
  <2>3. CASE SearchFindsNothing(a)
    BY <2>3 DEF SearchFindsNothing, Advance
  <2>4. CASE SearchStops(a)
    BY <2>4 DEF SearchStops, End
  <2>5. CASE SendInvoice(a)
    BY <2>5 DEF SendInvoice, Mark, Advance
  <2>6. CASE SupplierAmbiguous(a)
    BY <2>6 DEF SupplierAmbiguous, Mark, End
  <2>7. CASE StepFails(a)
    BY <2>7, FailEffect DEF StepFails
  <2>8. CASE DolibarrCreates(a)
    BY <2>8 DEF DolibarrCreates, Advance
  <2>9. CASE CreationAnswered(a)
    BY <2>9 DEF CreationAnswered, Mark, Advance
  <2>10. CASE CreationTimesOut(a)
    BY <2>10, FailEffect DEF CreationTimesOut, Mark, End
  <2>11. CASE CreationFails(a)
    BY <2>11, FailEffect DEF CreationFails
  <2>12. CASE LinesAdded(a)
    BY <2>12 DEF LinesAdded, Advance
  <2>13. CASE Mismatch(a)
    BY <2>13 DEF Mismatch, Mark, End
  <2>14. CASE CompleteWithoutFile(a)
    BY <2>14 DEF CompleteWithoutFile, End
  <2>15. CASE PathUnknown(a)
    BY <2>15, FailEffect DEF PathUnknown
  <2>16. CASE FileRefused(a)
    BY <2>16 DEF FileRefused, End
  <2>17. CASE StartUpload(a)
    BY <2>17 DEF StartUpload, Mark, Advance
  <2>18. CASE Uploaded(a)
    <3>1. CASE CanMark("COMPLETED")
      <4>1. /\ state' = "COMPLETED" /\ attached' = TRUE /\ files' = files + 1
            /\ End(a, "created") /\ UNCHANGED <<invoices, adrift, history>>
        BY <2>18, <3>1 DEF Uploaded
      <4>2. QED
        BY <4>1 DEF End
    <3>2. CASE ~CanMark("COMPLETED")
      BY <2>18, <3>2, FailEffect DEF Uploaded
    <3>3. QED
      BY <3>1, <3>2
  <2>19. CASE UploadFails(a)
    BY <2>19 DEF UploadFails, End
  <2>20. QED
    BY <1>2, <2>1, <2>2, <2>3, <2>4, <2>5, <2>6, <2>7, <2>8, <2>9, <2>10, <2>11, <2>12, <2>13, <2>14, <2>15, <2>16, <2>17, <2>18, <2>19 DEF Attempt
<1>3. CASE Register
  BY <1>3 DEF Register
<1>4. CASE LateCreation
  BY <1>4 DEF LateCreation
<1>5. CASE Reconcile
  BY <1>5 DEF Reconcile, Mark
<1>6. CASE Crash
  <2>1. Cardinality({a \in Attempts : pc[a] = "posting"}) \in Nat
    BY FS_Subset, FS_CardinalityType
  <2>2. adrift' \in Nat
    BY <1>6, <2>1 DEF Crash
  <2>3. pc' \in [Attempts -> Points]
    BY <1>6 DEF Crash
  <2>4. QED
    BY <1>6, <2>2, <2>3 DEF Crash
<1>7. QED
  BY <1>1, <1>2, <1>3, <1>4, <1>5, <1>6 DEF Next

(* The variables always have their types. *)
THEOREM TypeCorrect == Spec => []TypeOK
<1>1. Init => TypeOK
  <2>. SUFFICES ASSUME Init PROVE TypeOK
    OBVIOUS
  <2>1. crashes \in 0 .. MaxCrashes
    BY ConstantsAssumption DEF Init
  <2>2. pc \in [Attempts -> Points] /\ said \in [Attempts -> Said]
    BY Names DEF Init
  <2>3. QED
    BY <2>1, <2>2 DEF Init, TypeOK
<1>2. QED
  BY <1>1, TypeInductive, PTL DEF Spec

-----------------------------------------------------------------------------
(* The milestone blocks: the transition to SUPPLIER_CREATED, which every       *)
(* request needs, is refused from ERP_RESULT_UNKNOWN, however attempts overlap *)
(* and whatever the search sees.                                               *)
THEOREM UnknownNeverPosts == Spec => UnknownBlocks
<1>1. TypeOK /\ [Next]_vars => [state = "ERP_RESULT_UNKNOWN" => posts' = posts]_vars
  <2>. SUFFICES ASSUME TypeOK, Next, state = "ERP_RESULT_UNKNOWN" PROVE posts' = posts
    OBVIOUS
  <2>1. ~CanMark("SUPPLIER_CREATED")
    BY DEF CanMark, Allowed, States
  <2>2. ASSUME NEW a \in Attempts, Attempt(a) PROVE posts' = posts
    BY <2>1, <2>2 DEF Attempt, Begin, BeginRefused, SearchFindsNothing, SearchStops, SendInvoice,
       SupplierAmbiguous, StepFails, DolibarrCreates, CreationAnswered, CreationTimesOut,
       CreationFails, LinesAdded, Mismatch, CompleteWithoutFile, PathUnknown, FileRefused,
       StartUpload, Uploaded, UploadFails, Mark, history
  <2>3. QED
    BY <2>2 DEF Next, Register, LateCreation, Reconcile, Crash, history
<1>2. QED
  BY <1>1, TypeCorrect, PTL DEF Spec, UnknownBlocks

-----------------------------------------------------------------------------
(***************************************************************************)
(* One attempt at a time. Placed ties the row to the point where the busy  *)
(* attempt is; Stuck says what a timeout leaves behind. Neither depends on *)
(* what the search sees.                                                   *)
(***************************************************************************)

Alone == \A a, b \in Attempts : pc[a] \in Busy /\ pc[b] \in Busy => a = b

RowAt ==
    [point \in Busy |->
       CASE point \in {"checking", "resolving"} -> "CONFIRMING"
         [] point \in {"posting", "applied"}    -> "SUPPLIER_CREATED"
         [] point \in {"lining", "verifying"}   -> "INVOICE_CREATED"
         [] OTHER                               -> "ATTACHMENT_PENDING"]

Placed == \A a \in Attempts : pc[a] \in Busy => state = RowAt[pc[a]]
Stuck  == timedOut => state = "ERP_RESULT_UNKNOWN"

SerialInv == Alone /\ Placed /\ Stuck

(* While an attempt is busy no request has timed out; when it ends, none is. *)
LEMMA EndOfAttempt ==
    ASSUME TypeOK, SerialInv, NEW a \in Attempts, pc[a] \in Busy,
           pc' = [pc EXCEPT ![a] = "done"]
    PROVE  /\ ~timedOut
           /\ Alone'
           /\ \A b \in Attempts : pc'[b] \notin Busy
  BY DEF SerialInv, Alone, Placed, Stuck, RowAt, TypeOK, Busy, Points

(* An attempt that begins, or goes on, with the row where it is. *)
LEMMA AttemptMoves ==
    ASSUME TypeOK, SerialInv, NEW a \in Attempts, NEW point \in Busy,
           pc[a] \in Busy \/ \A b \in Attempts : pc[b] \notin Busy,
           pc' = [pc EXCEPT ![a] = point], state' = RowAt[point], ~timedOut, ~timedOut'
    PROVE  SerialInv'
<1>1. pc \in [Attempts -> Points]
  BY DEF TypeOK
<1>2. \A b \in Attempts : pc'[b] \in Busy => b = a
  BY <1>1 DEF SerialInv, Alone
<1>3. pc'[a] = point
  BY <1>1
<1>4. Alone' /\ Placed'
  BY <1>2, <1>3 DEF Alone, Placed, RowAt
<1>5. QED
  BY <1>4 DEF SerialInv, Stuck

(* The rows of an attempt that takes the milestones in their order. *)
LEMMA RowsAt ==
    /\ RowAt["checking"] = "CONFIRMING" /\ RowAt["resolving"] = "CONFIRMING"
    /\ RowAt["posting"] = "SUPPLIER_CREATED" /\ RowAt["applied"] = "SUPPLIER_CREATED"
    /\ RowAt["lining"] = "INVOICE_CREATED" /\ RowAt["verifying"] = "INVOICE_CREATED"
    /\ RowAt["uploading"] = "ATTACHMENT_PENDING"
  BY DEF RowAt, Busy, Points

(* A busy attempt was not answered with a timeout. *)
LEMMA BusyIsAnswered == ASSUME SerialInv, NEW a \in Attempts, pc[a] \in Busy PROVE ~timedOut
  BY DEF SerialInv, Placed, Stuck, RowAt, Busy, Points

(* Every step of a serial execution preserves it. *)
LEMMA SerialInductive ==
    ASSUME ~Overlap, TypeOK, SerialInv, [Next]_vars PROVE SerialInv'
<1>. USE DEF SerialInv, Alone, Placed, Stuck, RowAt, Busy, Points, TypeOK, rowVars, erpVars, history,
         CanMark, Allowed, States
<1>1. CASE UNCHANGED vars
  BY <1>1 DEF vars
<1>2. ASSUME NEW a \in Attempts, Attempt(a) PROVE SerialInv'
  <2>1. CASE Begin(a)
    <3>1. pc' = [pc EXCEPT ![a] = "checking"] /\ state' = "CONFIRMING" /\ timedOut' = timedOut
      BY <2>1 DEF Begin, Mark, Advance
    <3>2. ~timedOut
      BY <2>1 DEF Begin, Mark
    <3>3. \A b \in Attempts : pc[b] \notin Busy
      BY <2>1 DEF Begin, MayBegin
    <3>4. QED
      BY <3>1, <3>2, <3>3, AttemptMoves, RowsAt
  <2>2. CASE BeginRefused(a)
    BY <2>2, FailEffect DEF BeginRefused, MayBegin
  <2>3. CASE SearchFindsNothing(a)
    BY <2>3 DEF SearchFindsNothing, Advance
  <2>4. CASE SearchStops(a)
    BY <2>4 DEF SearchStops, End
  <2>5. CASE SendInvoice(a)
    <3>1. pc[a] \in Busy /\ pc' = [pc EXCEPT ![a] = "posting"]
      BY <2>5 DEF SendInvoice, Advance
    <3>2. state' = "SUPPLIER_CREATED" /\ timedOut' = timedOut
      BY <2>5 DEF SendInvoice, Mark
    <3>3. QED
      BY <3>1, <3>2, AttemptMoves, RowsAt, BusyIsAnswered
  <2>6. CASE SupplierAmbiguous(a)
    <3>1. pc[a] \in Busy /\ pc' = [pc EXCEPT ![a] = "done"] /\ timedOut' = timedOut
      BY <2>6 DEF SupplierAmbiguous, End
    <3>2. QED
      BY <3>1, EndOfAttempt
  <2>7. CASE StepFails(a)
    <3>1. pc[a] \in Busy /\ Fail(a) /\ timedOut' = timedOut
      BY <2>7 DEF StepFails
    <3>2. QED
      BY <3>1, FailEffect, EndOfAttempt
  <2>8. CASE DolibarrCreates(a)
    BY <2>8 DEF DolibarrCreates, Advance
  <2>9. CASE CreationAnswered(a)
    <3>1. pc[a] \in Busy /\ pc' = [pc EXCEPT ![a] = "lining"]
      BY <2>9 DEF CreationAnswered, Advance
    <3>2. state' = "INVOICE_CREATED" /\ timedOut' = timedOut
      BY <2>9 DEF CreationAnswered, Mark
    <3>3. QED
      BY <3>1, <3>2, AttemptMoves, RowsAt, BusyIsAnswered
  <2>10. CASE CreationTimesOut(a)
    <3>1. pc[a] \in Busy /\ state = "SUPPLIER_CREATED"
      BY <2>10 DEF CreationTimesOut
    <3>2. CanMark("ERP_RESULT_UNKNOWN")
      BY <3>1
    <3>3. state' = "ERP_RESULT_UNKNOWN" /\ pc' = [pc EXCEPT ![a] = "done"]
      BY <2>10, <3>2 DEF CreationTimesOut, Mark, End
    <3>4. QED
      BY <3>1, <3>3, EndOfAttempt
  <2>11. CASE CreationFails(a)
    <3>1. pc[a] \in Busy /\ Fail(a) /\ timedOut' = timedOut
      BY <2>11 DEF CreationFails
    <3>2. QED
      BY <3>1, FailEffect, EndOfAttempt
  <2>12. CASE LinesAdded(a)
    BY <2>12 DEF LinesAdded, Advance
  <2>13. CASE Mismatch(a)
    <3>1. pc[a] \in Busy /\ pc' = [pc EXCEPT ![a] = "done"] /\ timedOut' = timedOut
      BY <2>13 DEF Mismatch, End
    <3>2. QED
      BY <3>1, EndOfAttempt
  <2>14. CASE CompleteWithoutFile(a)
    BY <2>14 DEF CompleteWithoutFile, End
  <2>15. CASE PathUnknown(a)
    <3>1. pc[a] \in Busy /\ Fail(a) /\ timedOut' = timedOut
      BY <2>15 DEF PathUnknown
    <3>2. QED
      BY <3>1, FailEffect, EndOfAttempt
  <2>16. CASE FileRefused(a)
    BY <2>16 DEF FileRefused, End
  <2>17. CASE StartUpload(a)
    <3>1. pc[a] \in Busy /\ pc' = [pc EXCEPT ![a] = "uploading"]
      BY <2>17 DEF StartUpload, Advance
    <3>2. state' = "ATTACHMENT_PENDING" /\ timedOut' = timedOut
      BY <2>17 DEF StartUpload, Mark
    <3>3. QED
      BY <3>1, <3>2, AttemptMoves, RowsAt, BusyIsAnswered
  <2>18. CASE Uploaded(a)
    BY <2>18, FailEffect DEF Uploaded, End
  <2>19. CASE UploadFails(a)
    BY <2>19 DEF UploadFails, End
  <2>20. QED
    BY <1>2, <2>1, <2>2, <2>3, <2>4, <2>5, <2>6, <2>7, <2>8, <2>9, <2>10, <2>11, <2>12, <2>13, <2>14, <2>15, <2>16, <2>17, <2>18, <2>19 DEF Attempt
<1>3. CASE Register
  BY <1>3 DEF Register
<1>4. CASE LateCreation
  BY <1>4 DEF LateCreation
<1>5. CASE Reconcile
  BY <1>5 DEF Reconcile, Mark
<1>6. CASE Crash
  BY <1>6 DEF Crash
<1>7. QED
  BY <1>1, <1>2, <1>3, <1>4, <1>5, <1>6 DEF Next

(* It holds in every reachable state of a serial execution. *)
LEMMA SerialInvariant == ASSUME ~Overlap PROVE Spec => []SerialInv
<1>1. Init => SerialInv
  BY DEF Init, SerialInv, Alone, Placed, Stuck, Busy, Points
<1>2. TypeOK /\ SerialInv /\ [Next]_vars => SerialInv'
  BY SerialInductive
<1>3. QED
  BY <1>1, <1>2, TypeCorrect, PTL DEF Spec

-----------------------------------------------------------------------------
(* "Prohibe reintentar CREATE": the row that a timeout leaves in              *)
(* ERP_RESULT_UNKNOWN stays there, so no later attempt reaches the milestone  *)
(* that precedes the request.                                                 *)
THEOREM TimeoutIsLast == ASSUME ~Overlap PROVE Spec => NoPostAfterTimeout
<1>1. SerialInv /\ [state = "ERP_RESULT_UNKNOWN" => posts' = posts]_vars
        => [timedOut => posts' = posts]_vars
  BY DEF SerialInv, Stuck
<1>2. QED
  BY <1>1, SerialInvariant, UnknownNeverPosts, PTL DEF NoPostAfterTimeout, UnknownBlocks

-----------------------------------------------------------------------------
(***************************************************************************)
(* What is said and written is true, however attempts overlap, whatever    *)
(* the search sees and whenever requests are applied. An attempt past the  *)
(* creation knows that there is an invoice, and one that uploads has       *)
(* compared it; COMPLETED is never left.                                   *)
(***************************************************************************)

Known ==
    \A a \in Attempts :
        /\ pc[a] \in {"applied", "lining", "verifying", "uploading"} => invoices > 0
        /\ pc[a] = "uploading" => verified

TrueInv == Known /\ MilestoneIsTrue /\ SuccessIsTrue

(* The transition table lets a row be COMPLETED, or say that the invoice was   *)
(* created, only as far as these facts say.                                    *)
LEMMA Table ==
    ASSUME TypeOK, NEW s, CanMark(s)
    PROVE  state = "COMPLETED" => s = "COMPLETED"
  BY DEF CanMark, Allowed, States, TypeOK

(* A failing step tells no success and writes no milestone of an invoice.      *)
LEMMA FailIsTrue ==
    ASSUME TypeOK, TrueInv, NEW a \in Attempts, Fail(a), invoices' \in Nat, invoices' >= invoices,
           verified => verified'
    PROVE  TrueInv'
<1>1. state' = state \/ (state # "COMPLETED" /\ state' = "FAILED_RETRYABLE")
  BY FailEffect, Table
<1>2. pc' = [pc EXCEPT ![a] = "done"] /\ said'[a] # "created" /\ \A b \in Attempts \ {a} : said'[b] = said[b]
  BY FailEffect DEF TypeOK
<1>3. Known'
  BY <1>2 DEF TrueInv, Known, TypeOK
<1>4. MilestoneIsTrue' /\ SuccessIsTrue'
  BY <1>1, <1>2 DEF TrueInv, MilestoneIsTrue, SuccessIsTrue, TypeOK
<1>5. QED
  BY <1>3, <1>4 DEF TrueInv

(* Every step preserves it. *)
LEMMA TrueInductive == ASSUME TypeOK, TrueInv, [Next]_vars PROVE TrueInv'
<1>. USE DEF rowVars, erpVars, history
<1>0. invoices \in Nat /\ pc \in [Attempts -> Points] /\ said \in [Attempts -> Said] /\ adrift \in Nat
  BY DEF TypeOK
<1>. USE <1>0 DEF TrueInv, Known, MilestoneIsTrue, SuccessIsTrue
<1>1. CASE UNCHANGED vars
  BY <1>1 DEF vars
<1>2. ASSUME NEW a \in Attempts, Attempt(a) PROVE TrueInv'
  <2>1. CASE Begin(a)
    BY <2>1, Table DEF Begin, MayBegin, Mark, Advance
  <2>2. CASE BeginRefused(a)
    BY <2>2, FailIsTrue DEF BeginRefused
  <2>3. CASE SearchFindsNothing(a)
    BY <2>3 DEF SearchFindsNothing, Advance
  <2>4. CASE SearchStops(a)
    BY <2>4 DEF SearchStops, End
  <2>5. CASE SendInvoice(a)
    BY <2>5, Table DEF SendInvoice, Mark, Advance
  <2>6. CASE SupplierAmbiguous(a)
    BY <2>6, Table DEF SupplierAmbiguous, Mark, End
  <2>7. CASE StepFails(a)
    BY <2>7, FailIsTrue DEF StepFails
  <2>8. CASE DolibarrCreates(a)
    BY <2>8 DEF DolibarrCreates, Advance
  <2>9. CASE CreationAnswered(a)
    BY <2>9, Table DEF CreationAnswered, Mark, Advance
  <2>10. CASE CreationTimesOut(a)
    <3>1. CASE Mark("ERP_RESULT_UNKNOWN") /\ End(a, "unknown")
      BY <2>10, <3>1, Table DEF CreationTimesOut, Mark, End
    <3>2. CASE Fail(a)
      BY <2>10, <3>2, FailIsTrue DEF CreationTimesOut
    <3>3. QED
      BY <2>10, <3>1, <3>2 DEF CreationTimesOut
  <2>11. CASE CreationFails(a)
    BY <2>11, FailIsTrue DEF CreationFails
  <2>12. CASE LinesAdded(a)
    BY <2>12 DEF LinesAdded, Advance
  <2>13. CASE Mismatch(a)
    BY <2>13, Table DEF Mismatch, Mark, End
  <2>14. CASE CompleteWithoutFile(a)
    BY <2>14 DEF CompleteWithoutFile, End
  <2>15. CASE PathUnknown(a)
    BY <2>15, FailIsTrue DEF PathUnknown
  <2>16. CASE FileRefused(a)
    BY <2>16 DEF FileRefused, End
  <2>17. CASE StartUpload(a)
    BY <2>17, Table DEF StartUpload, Mark, Advance
  <2>18. CASE Uploaded(a)
    <3>1. CASE state' = "COMPLETED" /\ End(a, "created")
      BY <2>18, <3>1 DEF Uploaded, End
    <3>2. CASE Fail(a)
      BY <2>18, <3>2, FailIsTrue DEF Uploaded
    <3>3. QED
      BY <2>18, <3>1, <3>2 DEF Uploaded
  <2>19. CASE UploadFails(a)
    BY <2>19 DEF UploadFails, End
  <2>20. QED
    BY <1>2, <2>1, <2>2, <2>3, <2>4, <2>5, <2>6, <2>7, <2>8, <2>9, <2>10, <2>11, <2>12, <2>13, <2>14, <2>15, <2>16, <2>17, <2>18, <2>19 DEF Attempt
<1>3. CASE Register
  BY <1>3 DEF Register
<1>4. CASE LateCreation
  BY <1>4 DEF LateCreation
<1>5. CASE Reconcile
  BY <1>5 DEF Reconcile, Mark
<1>6. CASE Crash
  BY <1>6 DEF Crash
<1>7. QED
  <2>. HIDE DEF TrueInv
  <2>. QED
    BY <1>1, <1>2, <1>3, <1>4, <1>5, <1>6 DEF Next

(* What was said and written is true in every reachable state. *)
LEMMA TrueInvariant == Spec => []TrueInv
<1>1. Init => TrueInv
  BY DEF Init, TrueInv, Known, MilestoneIsTrue, SuccessIsTrue
<1>2. TypeOK /\ TrueInv /\ [Next]_vars => TrueInv'
  BY TrueInductive
<1>3. QED
  BY <1>1, <1>2, TypeCorrect, PTL DEF Spec

(* Who is told that the invoice was created can rely on the row and on Dolibarr *)
(* for ever, whatever other attempts do (execute, update_milestone).            *)
THEOREM ToldIsTrue == Spec => []SuccessIsTrue
<1>1. TrueInv => SuccessIsTrue
  BY DEF TrueInv
<1>2. QED
  BY <1>1, TrueInvariant, PTL

(* A milestone of an invoice means that there is one, and COMPLETED that it was *)
(* compared (update_milestone, the steps of execute).                           *)
THEOREM RowIsTrue == Spec => []MilestoneIsTrue
<1>1. TrueInv => MilestoneIsTrue
  BY DEF TrueInv
<1>2. QED
  BY <1>1, TrueInvariant, PTL

-----------------------------------------------------------------------------
(***************************************************************************)
(* How many requests and invoices there are, whatever the search sees and  *)
(* whenever a request is applied. Every invoice, made or on the wire, has  *)
(* its request; and an operation that can be sent again after a request    *)
(* was left so by a failure or by a crash.                                 *)
(***************************************************************************)

Counted ==
    /\ invoices + adrift <= posts
    /\ \A a \in Attempts : pc[a] = "posting" => invoices + adrift < posts

Silent  == \A a \in Attempts : pc[a] # "done" => said[a] = "nothing"
Unsent  == state \in {"absent", "PENDING_CONFIRMATION"} => posts = 0
Broken  == state \in {"CONFIRMING", "FAILED_RETRYABLE"} /\ posts > 0 => Interrupted
Again   == posts > 1 => Interrupted

CountInv == Counted /\ Silent /\ Unsent /\ Broken /\ Again

(* Only a step that ends the attempt says something.                        *)
LEMMA SaidAtTheEnd ==
    ASSUME TypeOK, Silent, NEW a \in Attempts, Attempt(a)
    PROVE  /\ said[a] = "nothing"
           /\ crashes' = crashes
           /\ \/ said' = said /\ pc'[a] # "done"
              \/ pc'[a] = "done" /\ \E word \in Said : said' = [said EXCEPT ![a] = word]
           /\ \A b \in Attempts \ {a} : pc'[b] = pc[b]
<1>. USE Names DEF Silent, TypeOK, Advance, End
<1>1. CASE Begin(a)
  BY <1>1 DEF Begin, MayBegin
<1>2. CASE BeginRefused(a)
  BY <1>2, FailEffect DEF BeginRefused, MayBegin
<1>3. CASE SearchFindsNothing(a)
  BY <1>3 DEF SearchFindsNothing
<1>4. CASE SearchStops(a)
  BY <1>4 DEF SearchStops
<1>5. CASE SendInvoice(a)
  BY <1>5 DEF SendInvoice
<1>6. CASE SupplierAmbiguous(a)
  BY <1>6 DEF SupplierAmbiguous
<1>7. CASE StepFails(a)
  BY <1>7, FailEffect DEF StepFails
<1>8. CASE DolibarrCreates(a)
  BY <1>8 DEF DolibarrCreates
<1>9. CASE CreationAnswered(a)
  BY <1>9 DEF CreationAnswered
<1>10. CASE CreationTimesOut(a)
  BY <1>10, FailEffect DEF CreationTimesOut
<1>11. CASE CreationFails(a)
  BY <1>11, FailEffect DEF CreationFails
<1>12. CASE LinesAdded(a)
  BY <1>12 DEF LinesAdded
<1>13. CASE Mismatch(a)
  BY <1>13 DEF Mismatch
<1>14. CASE CompleteWithoutFile(a)
  BY <1>14 DEF CompleteWithoutFile
<1>15. CASE PathUnknown(a)
  BY <1>15, FailEffect DEF PathUnknown
<1>16. CASE FileRefused(a)
  BY <1>16 DEF FileRefused
<1>17. CASE StartUpload(a)
  BY <1>17 DEF StartUpload
<1>18. CASE Uploaded(a)
  BY <1>18, FailEffect DEF Uploaded
<1>19. CASE UploadFails(a)
  BY <1>19 DEF UploadFails
<1>20. QED
  BY <1>1, <1>2, <1>3, <1>4, <1>5, <1>6, <1>7, <1>8, <1>9, <1>10, <1>11, <1>12, <1>13, <1>14, <1>15, <1>16, <1>17, <1>18, <1>19 DEF Attempt

(* What interrupted an operation did interrupt it for ever.                 *)
LEMMA InterruptedStays ==
    ASSUME TypeOK, Silent, [Next]_vars, Interrupted PROVE Interrupted'
<1>1. CASE UNCHANGED vars
  BY <1>1 DEF vars, Interrupted
<1>2. ASSUME NEW a \in Attempts, Attempt(a) PROVE Interrupted'
  BY <1>2, SaidAtTheEnd DEF Interrupted, TypeOK
<1>3. CASE Register \/ LateCreation \/ Reconcile \/ Crash
  BY <1>3 DEF Register, LateCreation, Reconcile, Crash, Interrupted, TypeOK
<1>4. QED
  BY <1>1, <1>2, <1>3 DEF Next

(* A step that fails interrupts the operation.                              *)
LEMMA FailInterrupts ==
    ASSUME TypeOK, NEW a \in Attempts, Fail(a) PROVE Interrupted'
  BY FailEffect DEF Interrupted, TypeOK

(* The attempts say nothing before their end.                               *)
LEMMA SilentInductive == ASSUME TypeOK, Silent, [Next]_vars PROVE Silent'
<1>1. CASE UNCHANGED vars
  BY <1>1 DEF vars, Silent
<1>2. ASSUME NEW a \in Attempts, Attempt(a) PROVE Silent'
  BY <1>2, SaidAtTheEnd DEF Silent, TypeOK
<1>3. CASE Register \/ LateCreation \/ Reconcile \/ Crash
  BY <1>3 DEF Register, LateCreation, Reconcile, Crash, Silent, TypeOK
<1>4. QED
  BY <1>1, <1>2, <1>3 DEF Next

(* The requests on the wire of an execution where one attempt runs at a time. *)
LEMMA OneOnTheWire ==
    ASSUME TypeOK, Alone
    PROVE  \/ {a \in Attempts : pc[a] = "posting"} = {}
           \/ \E b \in Attempts : {a \in Attempts : pc[a] = "posting"} = {b} /\ pc[b] = "posting"
  BY DEF Alone, Busy, Points

(* The attempt that moves away from its request leaves none on the wire waited for. *)
LEMMA NobodyWaits ==
    ASSUME TypeOK, Alone, NEW a \in Attempts, pc[a] \in Busy, NEW point, point # "posting",
           pc' = [pc EXCEPT ![a] = point]
    PROVE  \A b \in Attempts : pc'[b] # "posting"
<1>1. SUFFICES ASSUME NEW b \in Attempts, pc'[b] = "posting" PROVE FALSE
  OBVIOUS
<1>2. b # a /\ pc[b] = "posting"
  BY <1>1 DEF TypeOK
<1>3. QED
  BY <1>2 DEF Alone, Busy, Points

(* Every step of a serial execution preserves it, whatever the search sees.  *)
LEMMA CountInductive ==
    ASSUME ~Overlap, TypeOK, SerialInv, CountInv, [Next]_vars
    PROVE  CountInv'
<1>. USE DEF CountInv, Counted, Unsent, Broken, Again
<1>s. Silent'
  BY SilentInductive
<1>i. Interrupted => Interrupted'
  BY InterruptedStays
<1>n. /\ invoices \in Nat /\ adrift \in Nat /\ posts \in Nat
      /\ pc \in [Attempts -> Points] /\ state \in States \cup {"absent"}
  BY DEF TypeOK
<1>. USE <1>s, <1>i, <1>n DEF rowVars, erpVars, history
<1>1. CASE UNCHANGED vars
  BY <1>1 DEF vars, Interrupted
<1>2. ASSUME NEW a \in Attempts, Attempt(a) PROVE CountInv'
  <2>0. pc[a] \in Busy => state = RowAt[pc[a]]
    BY DEF SerialInv, Placed
  <2>1. CASE Begin(a)
    <3>1. state' = "CONFIRMING" /\ CanMark("CONFIRMING") /\ pc' = [pc EXCEPT ![a] = "checking"]
          /\ UNCHANGED <<invoices, adrift, posts>>
      BY <2>1 DEF Begin, Mark, Advance
    <3>2. state \in {"PENDING_CONFIRMATION", "FAILED_RETRYABLE", "CONFIRMING"}
      BY <3>1 DEF CanMark, Allowed, States
    <3>3. QED
      BY <3>1, <3>2
  <2>5. CASE SendInvoice(a)
    <3>1. /\ pc[a] = "resolving" /\ state' = "SUPPLIER_CREATED" /\ posts' = posts + 1
          /\ pc' = [pc EXCEPT ![a] = "posting"] /\ UNCHANGED <<invoices, adrift>>
      BY <2>5 DEF SendInvoice, Mark, Advance
    <3>2. state = "CONFIRMING"
      BY <2>0, <3>1, RowsAt DEF Busy, Points
    <3>3. QED
      BY <3>1, <3>2
  <2>8. CASE DolibarrCreates(a)
    <3>1. /\ pc[a] = "posting" /\ invoices' = invoices + 1 /\ pc' = [pc EXCEPT ![a] = "applied"]
          /\ UNCHANGED <<state, adrift, posts>>
      BY <2>8 DEF DolibarrCreates, Advance
    <3>2. \A b \in Attempts : pc'[b] # "posting"
      BY <3>1, NobodyWaits DEF SerialInv, Busy, Points
    <3>3. QED
      BY <3>1, <3>2
  <2>10. CASE CreationTimesOut(a)
    <3>1. /\ pc[a] \in {"posting", "applied"}
          /\ adrift' \in {adrift, IF pc[a] = "posting" THEN adrift + 1 ELSE adrift}
          /\ UNCHANGED <<invoices, posts>>
      BY <2>10 DEF CreationTimesOut
    <3>2. pc' = [pc EXCEPT ![a] = "done"]
      BY <2>10, FailEffect DEF CreationTimesOut, End
    <3>3. state' = "ERP_RESULT_UNKNOWN" \/ Interrupted'
      BY <2>10, FailInterrupts DEF CreationTimesOut, Mark
    <3>4. \A b \in Attempts : pc'[b] # "posting"
      BY <3>1, <3>2, NobodyWaits DEF SerialInv, Busy, Points
    <3>a. adrift' = adrift \/ (pc[a] = "posting" /\ adrift' = adrift + 1)
      BY <3>1
    <3>b. invoices + adrift < posts \/ pc[a] # "posting"
      OBVIOUS
    <3>c. invoices + adrift' <= posts
      BY <3>a, <3>b
    <3>5. Counted'
      BY <3>1, <3>4, <3>c
    <3>6. Unsent' /\ Broken' /\ Again'
      <4>1. CASE state' = "ERP_RESULT_UNKNOWN"
        BY <3>1, <4>1
      <4>2. CASE Interrupted'
        <5>1. state' \notin {"absent", "PENDING_CONFIRMATION"}
          BY <2>0, <2>10, <3>1, FailEffect, RowsAt DEF CreationTimesOut, Mark, Busy, Points
        <5>2. QED
          BY <4>2, <5>1
      <4>3. QED
        BY <3>3, <4>1, <4>2
    <3>7. QED
      BY <3>5, <3>6
  <2>11. CASE CreationFails(a)
    <3>1. /\ pc[a] \in {"posting", "applied"}
          /\ adrift' \in {adrift, IF LateApply /\ pc[a] = "posting" THEN adrift + 1 ELSE adrift}
          /\ UNCHANGED <<invoices, posts>>
          /\ Fail(a)
      BY <2>11 DEF CreationFails
    <3>2. pc' = [pc EXCEPT ![a] = "done"] /\ Interrupted'
      BY <3>1, FailEffect, FailInterrupts
    <3>3. state' = state \/ state' = "FAILED_RETRYABLE"
      BY <3>1, FailEffect
    <3>4. \A b \in Attempts : pc'[b] # "posting"
      BY <3>1, <3>2, NobodyWaits DEF SerialInv, Busy, Points
    <3>a. adrift' = adrift \/ (pc[a] = "posting" /\ adrift' = adrift + 1)
      BY <3>1
    <3>b. invoices + adrift < posts \/ pc[a] # "posting"
      OBVIOUS
    <3>c. invoices + adrift' <= posts
      BY <3>a, <3>b
    <3>5. Counted'
      BY <3>1, <3>4, <3>c
    <3>6. QED
      BY <3>1, <3>2, <3>3, <3>5, <1>i
  <2>3. CASE SearchFindsNothing(a)
    BY <2>3 DEF SearchFindsNothing, Advance
  <2>4. CASE SearchStops(a)
    BY <2>4 DEF SearchStops, End
  <2>6. CASE SupplierAmbiguous(a)
    BY <2>6 DEF SupplierAmbiguous, Mark, End
  <2>9. CASE CreationAnswered(a)
    BY <2>9 DEF CreationAnswered, Mark, Advance
  <2>12. CASE LinesAdded(a)
    BY <2>12 DEF LinesAdded, Advance
  <2>13. CASE Mismatch(a)
    BY <2>13 DEF Mismatch, Mark, End
  <2>14. CASE CompleteWithoutFile(a)
    BY <2>14 DEF CompleteWithoutFile, End
  <2>16. CASE FileRefused(a)
    BY <2>16 DEF FileRefused, End
  <2>17. CASE StartUpload(a)
    BY <2>17 DEF StartUpload, Mark, Advance
  <2>19. CASE UploadFails(a)
    BY <2>19 DEF UploadFails, End
  <2>2. CASE BeginRefused(a)
    <3>1. pc[a] # "done" /\ Fail(a) /\ UNCHANGED <<invoices, adrift, posts>>
      BY <2>2 DEF BeginRefused, MayBegin
    <3>2. pc' = [pc EXCEPT ![a] = "done"] /\ (state' = state \/ state' = "FAILED_RETRYABLE")
      BY <3>1, FailEffect
    <3>3. QED
      BY <3>1, <3>2, FailInterrupts
  <2>7. CASE StepFails(a)
    <3>1. pc[a] # "done" /\ Fail(a) /\ UNCHANGED <<invoices, adrift, posts>>
      BY <2>7 DEF StepFails
    <3>2. pc' = [pc EXCEPT ![a] = "done"] /\ (state' = state \/ state' = "FAILED_RETRYABLE")
      BY <3>1, FailEffect
    <3>3. QED
      BY <3>1, <3>2, FailInterrupts
  <2>15. CASE PathUnknown(a)
    <3>1. pc[a] # "done" /\ Fail(a) /\ UNCHANGED <<invoices, adrift, posts>>
      BY <2>15 DEF PathUnknown
    <3>2. pc' = [pc EXCEPT ![a] = "done"] /\ (state' = state \/ state' = "FAILED_RETRYABLE")
      BY <3>1, FailEffect
    <3>3. QED
      BY <3>1, <3>2, FailInterrupts
  <2>18. CASE Uploaded(a)
    <3>1. UNCHANGED <<invoices, adrift, posts>> /\ pc' = [pc EXCEPT ![a] = "done"]
      BY <2>18, FailEffect DEF Uploaded, End
    <3>2. state' = "COMPLETED" \/ (Interrupted' /\ state' \in {state, "FAILED_RETRYABLE"})
      BY <2>18, FailEffect, FailInterrupts DEF Uploaded
    <3>3. QED
      BY <3>1, <3>2
  <2>20. QED
    BY <1>2, <2>1, <2>2, <2>3, <2>4, <2>5, <2>6, <2>7, <2>8, <2>9, <2>10, <2>11, <2>12, <2>13, <2>14, <2>15, <2>16, <2>17, <2>18, <2>19 DEF Attempt
<1>3. CASE Register
  BY <1>3 DEF Register
<1>4. CASE LateCreation
  BY <1>4 DEF LateCreation
<1>5. CASE Reconcile
  BY <1>5 DEF Reconcile, Mark, CanMark, Allowed, States
<1>6. CASE Crash
  <2>1. /\ UNCHANGED <<state, invoices, posts>>
        /\ \A a \in Attempts : pc'[a] # "posting"
        /\ Interrupted'
    BY <1>6 DEF Crash, TypeOK, Interrupted, Busy, Points
  <2>2. adrift' = adrift \/ adrift' = adrift + Cardinality({a \in Attempts : pc[a] = "posting"})
    BY <1>6 DEF Crash
  <2>3. invoices' + adrift' <= posts'
    <3>1. CASE {a \in Attempts : pc[a] = "posting"} = {}
      BY <2>1, <2>2, <3>1, FS_EmptySet
    <3>2. ASSUME NEW b \in Attempts, {a \in Attempts : pc[a] = "posting"} = {b}, pc[b] = "posting"
          PROVE  invoices' + adrift' <= posts'
      <4>1. Cardinality({a \in Attempts : pc[a] = "posting"}) = 1
        BY <3>2, FS_Singleton
      <4>2. QED
        BY <2>1, <2>2, <3>2, <4>1
    <3>3. QED
      BY <3>1, <3>2, OneOnTheWire DEF SerialInv
  <2>4. QED
    BY <2>1, <2>3
<1>7. QED
  BY <1>1, <1>2, <1>3, <1>4, <1>5, <1>6 DEF Next

(* It holds in every reachable state. *)
LEMMA CountInvariant == ASSUME ~Overlap PROVE Spec => []CountInv
<1>1. Init => CountInv
  BY DEF Init, CountInv, Counted, Silent, Unsent, Broken, Again
<1>2. TypeOK /\ SerialInv /\ CountInv /\ [Next]_vars => CountInv'
  BY CountInductive
<1>3. QED
  BY <1>1, <1>2, TypeCorrect, SerialInvariant, PTL DEF Spec

(* "Exactly 1 invoice", as far as it goes: for every number of attempts, whatever *)
(* the search finds and however late a request is applied, a second request and a  *)
(* second invoice need an attempt that failed or a crash of the worker (execute).  *)
THEOREM SecondNeedsFailure == ASSUME ~Overlap PROVE Spec => []SecondIsARetry
<1>1. TypeOK /\ CountInv => SecondIsARetry
  BY DEF TypeOK, CountInv, Counted, Again, SecondIsARetry
<1>2. QED
  BY <1>1, TypeCorrect, CountInvariant, PTL

-----------------------------------------------------------------------------
(* The refinement. *)

(* A failing step reopens the operation or leaves its phase alone. *)
LEMMA FailReopens ==
    ASSUME TypeOK, NEW a, Fail(a)
    PROVE  Phase' = Phase \/ (Phase \in {"sending", "made"} /\ Phase' = "open")
  BY FailEffect DEF Phase, CanMark, Allowed, States, TypeOK

(* A row that does not change, or changes within a phase, stutters. *)
LEMMA SamePhase ==
    ASSUME state' = state PROVE Phase' = Phase
  BY DEF Phase

(* Each step of the handler is a step of the abstract operation or none. *)
LEMMA StepRefines ==
    ASSUME ~Overlap, TypeOK, SerialInv, CountInv, TrueInv, [Next]_vars
    PROVE  [Once!ONext]_<<Phase, posts, invoices>>
<1>. USE DEF Once!ONext, Once!Go, Once!Propose, Once!Send, Once!Doubt, Once!Learn, Once!Reopen,
         Once!Finish, Once!Close, Once!Land, rowVars, erpVars, history
<1>0. \A a \in Attempts : pc[a] \in Busy => state = RowAt[pc[a]]
  BY DEF SerialInv, Placed
<1>a. CountInv
  OBVIOUS
<1>1. CASE UNCHANGED vars
  BY <1>1, SamePhase DEF vars
<1>2. ASSUME NEW a \in Attempts, Attempt(a) PROVE [Once!ONext]_<<Phase, posts, invoices>>
  <2>1. CASE Begin(a)
    <3>1. /\ state' = "CONFIRMING" /\ CanMark("CONFIRMING")
          /\ UNCHANGED <<invoices, posts>>
      BY <2>1 DEF Begin, Mark
    <3>2. state \in {"PENDING_CONFIRMATION", "FAILED_RETRYABLE", "CONFIRMING"}
      BY <3>1 DEF CanMark, Allowed, States, TypeOK
    <3>3. Phase = "open" /\ Phase' = "open"
      BY <3>1, <3>2 DEF Phase
    <3>4. QED
      BY <3>1, <3>3
  <2>2. CASE BeginRefused(a)
    BY <2>2, FailReopens DEF BeginRefused
  <2>3. CASE SearchFindsNothing(a)
    BY <2>3, SamePhase DEF SearchFindsNothing
  <2>4. CASE SearchStops(a)
    BY <2>4, SamePhase DEF SearchStops
  <2>5. CASE SendInvoice(a)
    BY <1>0, <2>5 DEF SendInvoice, Mark, CanMark, Allowed, States, RowAt, Busy, Points, Phase
  <2>6. CASE SupplierAmbiguous(a)
    BY <1>0, <2>6 DEF SupplierAmbiguous, Mark, CanMark, Allowed, States, RowAt, Busy, Points, Phase
  <2>7. CASE StepFails(a)
    BY <2>7, FailReopens DEF StepFails
  <2>8. CASE DolibarrCreates(a)
    <3>1. /\ pc[a] = "posting" /\ state' = state /\ invoices' = invoices + 1
          /\ posts' = posts
      BY <2>8 DEF DolibarrCreates
    <3>2. invoices < posts
      BY <3>1 DEF CountInv, Counted, TypeOK
    <3>3. QED
      BY <3>1, <3>2, SamePhase
  <2>9. CASE CreationAnswered(a)
    <3>1. /\ pc[a] = "applied" /\ state' = "INVOICE_CREATED"
          /\ UNCHANGED <<invoices, posts>>
      BY <2>9 DEF CreationAnswered, Mark
    <3>2. state = "SUPPLIER_CREATED"
      BY <1>0, <3>1, RowsAt DEF Busy, Points
    <3>3. invoices > 0
      BY <3>1 DEF TrueInv, Known
    <3>4. Phase = "sending" /\ Phase' = "made"
      BY <3>1, <3>2 DEF Phase
    <3>5. QED
      BY <3>1, <3>3, <3>4
  <2>10. CASE CreationTimesOut(a)
    BY <1>0, <2>10, FailReopens DEF CreationTimesOut, Mark, CanMark, Allowed, States, RowAt, Busy, Points, Phase
  <2>11. CASE CreationFails(a)
    BY <2>11, FailReopens DEF CreationFails
  <2>12. CASE LinesAdded(a)
    BY <2>12, SamePhase DEF LinesAdded
  <2>13. CASE Mismatch(a)
    BY <1>0, <2>13 DEF Mismatch, Mark, CanMark, Allowed, States, RowAt, Busy, Points, Phase
  <2>14. CASE CompleteWithoutFile(a)
    BY <1>0, <2>14 DEF CompleteWithoutFile, CanMark, Allowed, States, RowAt, Busy, Points, Phase
  <2>15. CASE PathUnknown(a)
    BY <2>15, FailReopens DEF PathUnknown
  <2>16. CASE FileRefused(a)
    BY <2>16, SamePhase DEF FileRefused
  <2>17. CASE StartUpload(a)
    BY <1>0, <2>17 DEF StartUpload, Mark, CanMark, Allowed, States, RowAt, Busy, Points, Phase
  <2>18. CASE Uploaded(a)
    BY <1>0, <2>18, FailReopens DEF Uploaded, CanMark, Allowed, States, RowAt, Busy, Points, Phase
  <2>19. CASE UploadFails(a)
    BY <2>19, SamePhase DEF UploadFails
  <2>20. QED
    BY <1>2, <2>1, <2>2, <2>3, <2>4, <2>5, <2>6, <2>7, <2>8, <2>9, <2>10, <2>11, <2>12, <2>13, <2>14, <2>15, <2>16, <2>17, <2>18, <2>19 DEF Attempt
<1>3. CASE Register
  BY <1>3 DEF Register, Phase
<1>4. CASE LateCreation
  BY <1>4, SamePhase DEF LateCreation, CountInv, Counted, TypeOK
<1>5. CASE Reconcile
  BY <1>5 DEF Reconcile, Mark, CanMark, Allowed, States, Phase
<1>6. CASE Crash
  BY <1>6, SamePhase DEF Crash
<1>7. QED
  BY <1>1, <1>2, <1>3, <1>4, <1>5, <1>6 DEF Next

(* The handlers and the milestones implement the abstract operation, whatever  *)
(* the search finds and whenever a request is applied: each request is sent    *)
(* from an open operation, and none follows a doubt (execute,                  *)
(* update_milestone).                                                          *)
(* operation: a request only from an open operation, none after a doubt.       *)
THEOREM Refinement ==
    ASSUME ~Overlap PROVE Spec => ImplementsOnce
<1>1. Init => Once!OInit
  BY DEF Init, Once!OInit, Phase
<1>2. TypeOK /\ SerialInv /\ CountInv /\ TrueInv /\ [Next]_vars => [Once!ONext]_<<Phase, posts, invoices>>
  BY StepRefines
<1>3. QED
  BY <1>1, <1>2, TypeCorrect, SerialInvariant, CountInvariant, TrueInvariant, PTL
     DEF Spec, ImplementsOnce, Once!OSpec, Once!ovars

-----------------------------------------------------------------------------
(***************************************************************************)
(* What is never left. A timeout is for ever, as the reconciliation may    *)
(* not write what it wants to write; and so is what the abstract operation *)
(* never leaves, since the handlers implement it.                          *)
(***************************************************************************)

UnknownKept == [][state = "ERP_RESULT_UNKNOWN" => UNCHANGED rowVars]_vars

(* No step of a serial execution takes the row out of ERP_RESULT_UNKNOWN: a    *)
(* busy attempt has its row elsewhere, and the transition table refuses what   *)
(* an attempt that begins, and the reconciliation, would write.                *)
LEMMA UnknownIsNotLeft ==
    ASSUME ~Overlap, TypeOK, SerialInv, [Next]_vars, state = "ERP_RESULT_UNKNOWN"
    PROVE  UNCHANGED rowVars
<1>. USE DEF rowVars
<1>1. \A a \in Attempts : pc[a] \notin Busy
  BY DEF SerialInv, Placed, RowAt, Busy, Points
<1>2. ~CanMark("CONFIRMING") /\ ~CanMark("FAILED_RETRYABLE")
  BY DEF CanMark, Allowed, States
<1>3. CASE UNCHANGED vars
  BY <1>3 DEF vars
<1>4. ASSUME NEW a \in Attempts, Attempt(a) PROVE UNCHANGED rowVars
  <2>1. Begin(a) \/ BeginRefused(a)
    BY <1>1, <1>4 DEF Attempt, SearchFindsNothing, SearchStops, SendInvoice, SupplierAmbiguous, StepFails,
       DolibarrCreates, CreationAnswered, CreationTimesOut, CreationFails, LinesAdded, Mismatch,
       CompleteWithoutFile, PathUnknown, FileRefused, StartUpload, Uploaded, UploadFails, Busy, Points
  <2>2. ~Begin(a)
    BY <1>2 DEF Begin, Mark
  <2>3. QED
    BY <1>2, <2>1, <2>2 DEF BeginRefused, Fail
<1>5. CASE Register \/ LateCreation \/ Reconcile \/ Crash
  BY <1>2, <1>5 DEF Register, LateCreation, Reconcile, Crash
<1>6. QED
  BY <1>3, <1>4, <1>5 DEF Next

(* "Reconciliation resolves an unknown result" is never so: if confirmations   *)
(* do not overlap, then whatever is reconciled, confirmed again, applied late  *)
(* or interrupted, the row of a request that timed out says ERP_RESULT_UNKNOWN *)
(* for ever (ReconcileSupplierInvoiceHandler, VALID_TRANSITIONS).              *)
THEOREM UnknownForEver == ASSUME ~Overlap PROVE Spec => UnknownKept
<1>1. TypeOK /\ SerialInv /\ [Next]_vars => [state = "ERP_RESULT_UNKNOWN" => UNCHANGED rowVars]_vars
  BY UnknownIsNotLeft
<1>2. QED
  BY <1>1, TypeCorrect, SerialInvariant, PTL DEF Spec, UnknownKept

Over == {"uncertain", "done", "closed"}

\* The abstract operation: what it counts is what was sent, and a row that names an
\* invoice has one.
OnceInv ==
    /\ Phase \in Once!Phases
    /\ posts \in Nat /\ invoices \in Nat
    /\ invoices <= posts
    /\ Phase = "none" => posts = 0
    /\ Phase \in {"made", "done"} => invoices > 0

\* What is over stays so, and no request is sent for it.
OverKept == [][(Phase \in Over) => UNCHANGED <<Phase, posts>>]_<<Phase, posts, invoices>>

(* What InvoiceOnce promises follows from its steps alone.                     *)
LEMMA OncePromises == Once!OSpec => []OnceInv /\ OverKept
<1>. USE DEF Once!Go, Once!Propose, Once!Send, Once!Doubt, Once!Learn, Once!Reopen, Once!Finish,
         Once!Close, Once!Land
<1>1. Once!OInit => OnceInv
  BY DEF Once!OInit, OnceInv, Once!Phases
<1>2. OnceInv /\ [Once!ONext]_(Once!ovars) => OnceInv'
  <2>. SUFFICES ASSUME OnceInv, [Once!ONext]_(Once!ovars) PROVE OnceInv'
    OBVIOUS
  <2>. USE DEF OnceInv, Once!Phases
  <2>1. CASE UNCHANGED Once!ovars
    BY <2>1 DEF Once!ovars
  <2>2. CASE Once!Propose \/ Once!Send \/ Once!Doubt \/ Once!Learn
    BY <2>2
  <2>3. CASE Once!Reopen \/ Once!Finish \/ Once!Close
    BY <2>3
  <2>4. CASE Once!Land
    BY <2>4
  <2>5. QED
    BY <2>1, <2>2, <2>3, <2>4 DEF Once!ONext
<1>3. [Once!ONext]_(Once!ovars) => [(Phase \in Over) => UNCHANGED <<Phase, posts>>]_<<Phase, posts, invoices>>
  BY DEF Over, Once!ONext, Once!ovars
<1>4. QED
  BY <1>1, <1>2, <1>3, PTL DEF Once!OSpec, OverKept, Once!ovars

(* What the handlers promise of an invoice because they implement InvoiceOnce,  *)
(* whatever the search finds and however late a request is applied: of an       *)
(* operation that is completed, given up, or whose request timed out nothing is *)
(* ever sent again; no invoice is made that was not asked for, and a row that   *)
(* says that there is one is right.                                             *)
THEOREM WhatIsOverStays == ASSUME ~Overlap PROVE Spec => []OnceInv /\ OverKept
  BY Refinement, OncePromises DEF ImplementsOnce

=============================================================================
