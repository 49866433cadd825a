---------------------- MODULE DocumentIngestionProofs ----------------------
(***************************************************************************)
(* Proofs about DocumentIngestion, for any documents and requests and any  *)
(* number of retries, commands and crashes. The invariant follows a        *)
(* document through its runs: where no run overtook another, a document    *)
(* has one run, or one command, or neither, and its status says which.     *)
(***************************************************************************)
EXTENDS DocumentIngestion, TLAPS

(* Each action keeps the types. *)
LEMMA IngestionTypes ==
  ASSUME TypeOK, [Next]_vars PROVE TypeOK'
<1> USE IngestionAssumption DEF TypeOK, States, redisVars, runVars, historyVars, Set, End
<1>1. CASE UNCHANGED vars
  BY <1>1 DEF vars
<1>2. ASSUME NEW r \in Runs, NEW h \in Documents, Begin(r, h)
      PROVE  /\ status' \in [Documents -> States]
             /\ stale' \subseteq Documents
             /\ pc' \in [Runs -> {"idle", "extracting", "checking"}]
             /\ on' \in [Runs -> Documents \cup {None}]
             /\ \A q \in Runs : pc'[q] = "idle" <=> on'[q] = None
             /\ overlapped' \subseteq Documents
             /\ abandoned' \subseteq Documents
             /\ UNCHANGED <<open, recorded, crashes>>
  BY <1>2 DEF Begin
<1>3. ASSUME NEW r \in Runs, NEW h \in Documents, ReceiveNew(r, h)
      PROVE  TypeOK'
  BY <1>2, <1>3 DEF ReceiveNew
<1>4. ASSUME NEW r \in Runs, NEW h \in Documents, RetryFailed(r, h)
      PROVE  TypeOK'
  <2>1. CASE retries[h] >= MaxAutoRetries
    BY <1>4, <2>1 DEF RetryFailed
  <2>2. CASE ~(retries[h] >= MaxAutoRetries)
    <3>1. retries' \in [Documents -> 0..MaxAutoRetries]
      BY <1>4, <2>2 DEF RetryFailed
    <3>2. retried' \in [Documents -> 0..(MaxAutoRetries + 1)]
      BY <1>4, <2>2 DEF RetryFailed
    <3>3. QED
      BY <1>2, <1>4, <2>2, <3>1, <3>2 DEF RetryFailed
  <2>3. QED
    BY <2>1, <2>2
<1>5. ASSUME NEW r \in Runs, NEW h \in Documents, RetryStale(r, h)
      PROVE  TypeOK'
  BY <1>2, <1>5 DEF RetryStale
<1>6. ASSUME NEW r \in Runs, Extracted(r)
      PROVE  TypeOK'
  BY <1>6 DEF Extracted
<1>7. ASSUME NEW r \in Runs, RunFails(r)
      PROVE  TypeOK'
  BY <1>7 DEF RunFails
<1>8. ASSUME NEW r \in Runs, AlreadyRecorded(r)
      PROVE  TypeOK'
  BY <1>8 DEF AlreadyRecorded
<1>9. ASSUME NEW r \in Runs, PreviewReady(r) \/ CommandNotStored(r)
      PROVE  TypeOK'
  BY <1>9 DEF PreviewReady, CommandNotStored, Cleared
<1>10. ASSUME NEW h \in Documents, StoreFails(h)
       PROVE  TypeOK'
  BY <1>10 DEF StoreFails
<1>11. ASSUME NEW h \in Documents, FiveMinutesPass(h) \/ RowChanges(h)
       PROVE  TypeOK'
  BY <1>11 DEF FiveMinutesPass, RowChanges
<1>12. ASSUME NEW h \in Documents, CommandEnds(h)
       PROVE  TypeOK'
  BY <1>12 DEF CommandEnds
<1>13. ASSUME NEW h \in Documents, KeyExpires(h)
       PROVE  TypeOK'
  BY <1>13 DEF KeyExpires
<1>14. CASE Crash
  BY <1>14 DEF Crash
<1>15. QED
  BY <1>1, <1>3, <1>4, <1>5, <1>6, <1>7, <1>8, <1>9, <1>10, <1>11, <1>12, <1>13, <1>14
     DEF Next, Send, Step

(* The state of every document and of every run has its type. *)
THEOREM TypeCorrect == Spec => []TypeOK
<1>1. Init => TypeOK
  BY IngestionAssumption DEF Init, TypeOK, States
<1>2. QED
  BY <1>1, IngestionTypes, PTL DEF Spec

-----------------------------------------------------------------------------
(* A run's document has its file, and a document that no run overtook has one *)
(* run, which is in process and without a command, or one command, in review. *)
RunHasFile == \A r \in Runs : on[r] \in Documents => on[r] \in files

OneAtATime ==
    \A h \in Documents \ overlapped :
        /\ \A r, q \in Runs : on[r] = h /\ on[q] = h => r = q
        /\ \A r \in Runs : on[r] = h => status[h] = "processing" /\ open[h] = 0

IInv == OneAtATime /\ OneCommand /\ RunHasFile /\ RetryableHasFile /\ ProcessingIsTrue

(* What the beginning of a run asks: a document that is not in review and whose *)
(* file is there.                                                               *)
LEMMA BeginIsSafe ==
  ASSUME TypeOK, IInv, NEW r \in Runs, NEW h \in Documents, Begin(r, h),
         status[h] # "review", files' = files \cup {h}
  PROVE  IInv'
<1> USE IngestionAssumption DEF TypeOK, Begin, Set, RunsOn
<1>1. OneAtATime' /\ OneCommand'
  <2> SUFFICES ASSUME NEW d \in Documents, d \notin overlapped'
               PROVE  /\ \A p, q \in Runs : on'[p] = d /\ on'[q] = d => p = q
                      /\ \A q \in Runs : on'[q] = d => status'[d] = "processing" /\ open'[d] = 0
                      /\ open'[d] <= 1
                      /\ open'[d] = 1 => status'[d] = "review"
    BY DEF OneAtATime, OneCommand
  <2>1. d \notin overlapped
    OBVIOUS
  <2>2. CASE d = h
    <3>1. \A q \in Runs : on[q] # h
      BY <2>2
    <3>2. open[h] = 0
      BY <2>1, <2>2 DEF IInv, OneCommand
    <3>3. QED
      BY <2>2, <3>1, <3>2
  <2>3. CASE d # h
    <3>1. \A q \in Runs : on'[q] = d => on[q] = d
      BY <2>3
    <3>2. status'[d] = status[d] /\ open'[d] = open[d]
      BY <2>3
    <3>3. QED
      BY <2>1, <3>1, <3>2 DEF IInv, OneAtATime, OneCommand
  <2>4. QED
    BY <2>2, <2>3
<1>2. RunHasFile' /\ RetryableHasFile'
  BY DEF IInv, RunHasFile, RetryableHasFile
<1>3. ProcessingIsTrue'
  <2> SUFFICES ASSUME NEW d \in Documents, status'[d] = "processing", d \notin abandoned'
               PROVE  \E q \in Runs : on'[q] = d
    BY DEF ProcessingIsTrue
  <2>1. CASE d = h
    BY <2>1
  <2>2. CASE d # h
    <3>1. PICK q \in Runs : on[q] = d
      BY <2>2 DEF IInv, ProcessingIsTrue
    <3>2. q # r
      BY <3>1
    <3>3. QED
      BY <3>1, <3>2
  <2>3. QED
    BY <2>1, <2>2
<1>4. QED
  BY <1>1, <1>2, <1>3 DEF IInv

(* What the end of a run asks: it leaves its document out of process or abandoned, *)
(* and a command only to a document in review.                                     *)
LEMMA EndIsSafe ==
  ASSUME TypeOK, IInv, NEW r \in Runs, on[r] \in Documents, End(r),
         NEW state \in States, status' = [status EXCEPT ![on[r]] = state],
         state = "processing" => on[r] \in abandoned',
         abandoned \subseteq abandoned',
         \/ open' = open
         \/ open' = [open EXCEPT ![on[r]] = @ + 1] /\ state = "review",
         UNCHANGED <<files, overlapped>>
  PROVE  IInv'
<1> USE IngestionAssumption DEF TypeOK, End, RunsOn
<1> DEFINE h == on[r]
<1>1. \A d \in Documents \ {h} : status'[d] = status[d] /\ open'[d] = open[d]
  OBVIOUS
<1>2. \A q \in Runs \ {r} : on'[q] = on[q]
  OBVIOUS
<1>3. on'[r] = None /\ status'[h] = state
  OBVIOUS
<1>4. OneAtATime' /\ OneCommand'
  <2> SUFFICES ASSUME NEW d \in Documents, d \notin overlapped
               PROVE  /\ \A p, q \in Runs : on'[p] = d /\ on'[q] = d => p = q
                      /\ \A q \in Runs : on'[q] = d => status'[d] = "processing" /\ open'[d] = 0
                      /\ open'[d] <= 1
                      /\ open'[d] = 1 => status'[d] = "review"
    BY DEF OneAtATime, OneCommand
  <2>1. \A q \in Runs : on'[q] = d => q # r /\ on[q] = d
    BY <1>2, <1>3
  <2>2. CASE d = h
    <3>1. \A q \in Runs : on'[q] # d
      BY <2>1, <2>2 DEF IInv, OneAtATime
    <3>2. open[h] = 0
      BY <2>2 DEF IInv, OneAtATime
    <3>3. QED
      BY <1>3, <2>2, <3>1, <3>2
  <2>3. CASE d # h
    BY <1>1, <2>1, <2>3 DEF IInv, OneAtATime, OneCommand
  <2>4. QED
    BY <2>2, <2>3
<1>5. RunHasFile' /\ RetryableHasFile'
  <2>1. RunHasFile'
    BY <1>2, <1>3 DEF IInv, RunHasFile
  <2>2. RetryableHasFile'
    BY <1>1 DEF IInv, RunHasFile, RetryableHasFile
  <2>3. QED
    BY <2>1, <2>2
<1>6. ProcessingIsTrue'
  BY <1>1, <1>2, <1>3 DEF IInv, ProcessingIsTrue
<1>7. QED
  BY <1>4, <1>5, <1>6 DEF IInv

(* No step leaves IInv. *)
LEMMA IngestionStep ==
  ASSUME TypeOK, IInv, [Next]_vars PROVE IInv'
<1> USE IngestionAssumption DEF TypeOK, redisVars, runVars, historyVars
<1> USE DEF IInv
<1>1. CASE UNCHANGED vars
  BY <1>1 DEF vars, OneAtATime, OneCommand, RunHasFile, RetryableHasFile, ProcessingIsTrue, RunsOn
<1>2. ASSUME NEW r \in Runs, NEW h \in Documents, ReceiveNew(r, h)
      PROVE  IInv'
  BY <1>2, BeginIsSafe DEF ReceiveNew
<1>3. ASSUME NEW r \in Runs, NEW h \in Documents, RetryFailed(r, h)
      PROVE  IInv'
  <2>1. CASE retries[h] >= MaxAutoRetries
    <3>1. status[h] = "failed_retryable" /\ status' = [status EXCEPT ![h] = "failed_final"]
      BY <1>3, <2>1 DEF RetryFailed, Set
    <3>2. UNCHANGED <<files, on, open, overlapped, abandoned>>
      BY <1>3, <2>1 DEF RetryFailed
    <3>3. QED
      BY <3>1, <3>2 DEF OneAtATime, OneCommand, RunHasFile, RetryableHasFile, ProcessingIsTrue, RunsOn
  <2>2. CASE ~(retries[h] >= MaxAutoRetries)
    BY <1>3, <2>2, BeginIsSafe DEF RetryFailed
  <2>3. QED
    BY <2>1, <2>2
<1>4. ASSUME NEW r \in Runs, NEW h \in Documents, RetryStale(r, h)
      PROVE  IInv'
  BY <1>4, BeginIsSafe DEF RetryStale
<1>5. ASSUME NEW r \in Runs, Extracted(r)
      PROVE  IInv'
  BY <1>5 DEF Extracted, OneAtATime, OneCommand, RunHasFile, RetryableHasFile, ProcessingIsTrue, RunsOn
<1>6. ASSUME NEW r \in Runs, RunFails(r)
      PROVE  IInv'
  <2>1. on[r] \in Documents
    BY <1>6 DEF RunFails
  <2>2. "failed_retryable" \in States
    BY DEF States
  <2>3. QED
    BY <1>6, <2>1, <2>2, EndIsSafe DEF RunFails, Set
<1>7. ASSUME NEW r \in Runs, AlreadyRecorded(r)
      PROVE  IInv'
  <2>1. on[r] \in Documents
    BY <1>7 DEF AlreadyRecorded
  <2>2. status[on[r]] \in States /\ status' = [status EXCEPT ![on[r]] = status[on[r]]]
    BY <1>7, <2>1 DEF AlreadyRecorded
  <2>3. QED
    BY <1>7, <2>1, <2>2, EndIsSafe DEF AlreadyRecorded
<1>8. ASSUME NEW r \in Runs, PreviewReady(r) \/ CommandNotStored(r)
      PROVE  IInv'
  <2>1. on[r] \in Documents
    BY <1>8 DEF PreviewReady, CommandNotStored, Cleared
  <2>2. "review" \in States
    BY DEF States
  <2>3. QED
    BY <1>8, <2>1, <2>2, EndIsSafe DEF PreviewReady, CommandNotStored, Set
<1>9. ASSUME NEW h \in Documents, StoreFails(h)
      PROVE  IInv'
  BY <1>9 DEF StoreFails, Set, OneAtATime, OneCommand, RunHasFile, RetryableHasFile, ProcessingIsTrue, RunsOn
<1>10. ASSUME NEW h \in Documents, FiveMinutesPass(h) \/ RowChanges(h)
       PROVE  IInv'
  BY <1>10 DEF FiveMinutesPass, RowChanges, OneAtATime, OneCommand, RunHasFile, RetryableHasFile,
               ProcessingIsTrue, RunsOn
<1>11. ASSUME NEW h \in Documents, CommandEnds(h)
       PROVE  IInv'
  <2>1. \A d \in Documents : open'[d] \in Nat /\ open'[d] <= open[d]
    BY <1>11 DEF CommandEnds
  <2>2. \A d \in Documents : open'[d] = open[d] \/ (d = h /\ open'[d] = open[d] - 1)
    BY <1>11 DEF CommandEnds
  <2>3. UNCHANGED <<status, files, on, overlapped, abandoned>>
    BY <1>11 DEF CommandEnds
  <2>4. OneCommand'
    BY <2>1, <2>2, <2>3 DEF OneCommand
  <2>5. QED
    BY <2>1, <2>3, <2>4 DEF OneAtATime, RunHasFile, RetryableHasFile, ProcessingIsTrue, RunsOn
<1>12. ASSUME NEW h \in Documents, KeyExpires(h)
       PROVE  IInv'
  BY <1>12 DEF KeyExpires, Set, OneAtATime, OneCommand, RunHasFile, RetryableHasFile, ProcessingIsTrue, RunsOn
<1>13. CASE Crash
  BY <1>13 DEF Crash, OneAtATime, OneCommand, RunHasFile, RetryableHasFile, ProcessingIsTrue, RunsOn
<1>14. QED
  BY <1>1, <1>2, <1>3, <1>4, <1>5, <1>6, <1>7, <1>8, <1>9, <1>10, <1>11, <1>12, <1>13
     DEF Next, Send, Step

(* The invariant holds in every behaviour. *)
LEMMA IngestionInvariant == Spec => []IInv
<1>1. Init => IInv
  BY IngestionAssumption DEF Init, IInv, OneAtATime, OneCommand, RunHasFile, RetryableHasFile,
                             ProcessingIsTrue, RunsOn
<1>2. Init => TypeOK
  BY IngestionAssumption DEF Init, TypeOK, States
<1>3. QED
  BY <1>1, <1>2, IngestionTypes, IngestionStep, PTL DEF Spec

(* However often a document is sent, in whatever order its runs fail, end and *)
(* are lost, it has one open command at most if no run overtook another.      *)
THEOREM CommandsApart == Spec => []OneCommand
BY IngestionInvariant, PTL DEF IInv

(* No failure, retry or crash loses the bytes of a document that may be tried again. *)
THEOREM BytesKept == Spec => []RetryableHasFile
BY IngestionInvariant, PTL DEF IInv

(* PROCESSING is only left behind by a crash or by a recorded operation. *)
THEOREM StatusTrue == Spec => []ProcessingIsTrue
BY IngestionInvariant, PTL DEF IInv
=============================================================================
