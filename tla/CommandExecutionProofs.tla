----------------------- MODULE CommandExecutionProofs -----------------------
(***************************************************************************)
(* Proofs about CommandExecution, for every set of commands, users and     *)
(* presses, every wiring of the constants and any number of crashes.       *)
(***************************************************************************)
EXTENDS CommandExecution, TLAPS

-----------------------------------------------------------------------------
(***************************************************************************)
(* Types. TypeOK is split along the frames of the actions, and the sets of *)
(* names stay folded: Names gives the memberships the steps need.          *)
(***************************************************************************)

Stored == Statuses \ {"EXPIRED"}

StoreTyped ==
    /\ status \in [Commands -> Stored]
    /\ owner  \in [Commands -> Users \cup {NoUser}]
    /\ result \in [Commands -> Outcomes]
    /\ late   \subseteq Commands

ErpTyped ==
    /\ posts   \in [Commands -> Nat]
    /\ created \in [Commands -> Nat]
    /\ adrift  \subseteq Commands

WorldTyped ==
    /\ access \in [Users -> Levels]
    /\ press  \in [Presses -> [cmd : Commands, by : Users, op : Ops]]
    /\ wiring \in Wirings
    /\ queue  \in [Presses -> {"unsent", "queued", "acked"}]
    /\ crashes \in 0 .. MaxCrashes

RequestTyped ==
    /\ key    \in [Presses -> {"absent", "processing", "completed"}]
    /\ pc     \in [Presses -> Points]
    /\ seen   \in [Presses -> Usable \cup {"none"}]
    /\ answer \in [Presses -> Answers]
    /\ told   \in [Presses -> Answers]

LEMMA Parts == TypeOK <=> StoreTyped /\ ErpTyped /\ WorldTyped /\ RequestTyped
  BY DEF TypeOK, StoreTyped, ErpTyped, WorldTyped, RequestTyped, Stored

(* The names the actions write belong to the sets of the type invariant. *)
LEMMA Names ==
    /\ "NONE" \in Stored /\ "PENDING" \in Stored /\ "CONFIRMED" \in Stored /\ "GONE" \in Stored
    /\ "CANCELLED" \in Stored /\ "CORRECTION_REQUESTED" \in Stored
    /\ "EXECUTED" \in Stored /\ "FAILED" \in Stored
    /\ "none" \in Outcomes /\ "ok" \in Outcomes /\ "failed" \in Outcomes /\ "existing" \in Outcomes
    /\ "idle" \in Points /\ "resolving" \in Points /\ "asking" \in Points /\ "resolved" \in Points
    /\ "answering" \in Points /\ "acknowledging" \in Points /\ "confirmed" \in Points
    /\ "posting" \in Points /\ "created" \in Points /\ "ok" \in Points
    /\ "failed" \in Points /\ "searching" \in Points
    /\ "none" \in Answers /\ "unauthorized" \in Answers /\ "not_found" \in Answers
    /\ "forbidden" \in Answers /\ "invalid_state" \in Answers /\ "already" \in Answers
    /\ "revoked" \in Answers /\ "error" \in Answers /\ "created" \in Answers
    /\ "failed" \in Answers /\ "cancelled" \in Answers /\ "corrected" \in Answers
  BY DEF Stored, Statuses, Terminal, Absent, Outcomes, Points, Executing, Answers

(* What the shared pieces of the actions do to the types. *)
LEMMA GotoTyped ==
    ASSUME NEW p \in Presses, NEW point \in Points, RequestTyped, Goto(p, point)
    PROVE  RequestTyped'
  BY DEF RequestTyped, Goto

LEMMA AnswerTyped ==
    ASSUME NEW p \in Presses, NEW text \in Answers, RequestTyped, Answer(p, text)
    PROVE  RequestTyped'
  BY Names DEF RequestTyped, Answer

LEMMA RaiseTyped ==
    ASSUME NEW p \in Presses, RequestTyped, Raise(p)
    PROVE  RequestTyped'
  BY Names DEF RequestTyped, Raise, Finished

LEMMA AuditTyped ==
    ASSUME NEW p \in Presses, NEW text \in Answers, RequestTyped, AuditThenAnswer(p, text)
    PROVE  RequestTyped'
  BY AnswerTyped, RaiseTyped DEF AuditThenAnswer

LEMMA SetStatusTyped ==
    ASSUME NEW c, NEW s \in Stored, StoreTyped, SetStatus(c, s)
    PROVE  status' \in [Commands -> Stored]
  BY DEF StoreTyped, SetStatus

LEMMA SetResultTyped ==
    ASSUME NEW c, NEW r \in Outcomes, StoreTyped, SetResult(c, r)
    PROVE  result' \in [Commands -> Outcomes]
  BY DEF StoreTyped, SetResult

(* Every step of the specification keeps the variables in their types. *)
LEMMA TypeInductive == ASSUME ConstantsAssumption, TypeOK, [Next]_vars PROVE TypeOK'
<1>. USE Names DEF storeVars, erpVars, requestVars, fixedVars
<1>0. StoreTyped /\ ErpTyped /\ WorldTyped /\ RequestTyped
  BY Parts
<1>. SUFFICES StoreTyped' /\ ErpTyped' /\ WorldTyped' /\ RequestTyped'
  BY Parts, PTL
<1>. USE DEF StoreTyped, ErpTyped, WorldTyped
<1>1. CASE UNCHANGED vars
  BY <1>0, <1>1 DEF vars, RequestTyped
<1>2. ASSUME NEW p \in Presses, Delivery(p) PROVE StoreTyped' /\ ErpTyped' /\ WorldTyped' /\ RequestTyped'
  <2>1. CASE PressButton(p)
    BY <1>0, <2>1 DEF PressButton, RequestTyped
  <2>2. CASE Deliver(p)
    BY <1>0, <2>2 DEF Deliver, RequestTyped
  <2>3. CASE DeliverDuplicate(p)
    BY <1>0, <2>3 DEF DeliverDuplicate, RequestTyped
  <2>4. CASE KeyExpires(p)
    BY <1>0, <2>4 DEF KeyExpires, RequestTyped
  <2>5. QED
    BY <1>2, <2>1, <2>2, <2>3, <2>4 DEF Delivery
<1>3. ASSUME NEW p \in Presses, Request(p) PROVE StoreTyped' /\ ErpTyped' /\ WorldTyped' /\ RequestTyped'
  <2>1. Cmd(p) \in Commands
    BY <1>0 DEF Cmd
  <2>2. CASE ResolveUser(p)
    BY <1>0, <2>1, <2>2 DEF ResolveUser, RequestTyped, Usable
  <2>3. CASE RefuseUser(p)
    BY <1>0, <2>1, <2>3 DEF RefuseUser, RequestTyped
  <2>4. CASE ResolverRaises(p)
    BY <1>0, <2>1, <2>4, RaiseTyped DEF ResolverRaises
  <2>5. CASE ConfirmTaken(p)
    BY <1>0, <2>1, <2>5, GotoTyped DEF ConfirmTaken
  <2>6. CASE ConfirmRefused(p)
    <3>1. Refusal(p) \in Answers
      BY DEF Refusal
    <3>2. RequestTyped'
      BY <1>0, <2>6, <3>1, AnswerTyped DEF ConfirmRefused
    <3>3. QED
      BY <1>0, <2>6, <3>2 DEF ConfirmRefused
  <2>7. CASE NoHandler(p)
    BY <1>0, <2>1, <2>7, RaiseTyped DEF NoHandler
  <2>8. CASE PermissionRevoked(p)
    BY <1>0, <2>1, <2>8, AuditTyped, SetStatusTyped DEF PermissionRevoked
  <2>9. CASE AuditConfirmRaises(p)
    BY <1>0, <2>1, <2>9, RaiseTyped DEF AuditConfirmRaises
  <2>10. CASE NoIdentity(p)
    BY <1>0, <2>1, <2>10, AnswerTyped, SetStatusTyped DEF NoIdentity, ReadyToExecute
  <2>11. CASE SendRequest(p)
    BY <1>0, <2>1, <2>11, GotoTyped DEF SendRequest, ReadyToExecute
  <2>12. CASE DolibarrCreates(p)
    BY <1>0, <2>1, <2>12, GotoTyped DEF DolibarrCreates
  <2>13. CASE AnswerOk(p)
    BY <1>0, <2>1, <2>13, GotoTyped DEF AnswerOk
  <2>14. CASE AnswerError(p)
    BY <1>0, <2>1, <2>14, GotoTyped DEF AnswerError
  <2>15. CASE AnswerConflict(p)
    BY <1>0, <2>1, <2>15, GotoTyped DEF AnswerConflict
  <2>16. CASE RecordResult(p)
    <3>1. RequestTyped'
      BY <1>0, <2>16, AnswerTyped DEF RecordResult
    <3>2. pc[p] \in Outcomes
      BY <2>16 DEF RecordResult
    <3>3. QED
      BY <1>0, <2>16, <3>1, <3>2, SetStatusTyped, SetResultTyped DEF RecordResult
  <2>17. CASE SearchFinds(p)
    BY <1>0, <2>1, <2>17, RaiseTyped, SetStatusTyped, SetResultTyped DEF SearchFinds
  <2>18. CASE SearchFindsNothing(p)
    BY <1>0, <2>1, <2>18, AnswerTyped, SetStatusTyped DEF SearchFindsNothing
  <2>19. CASE SearchRaises(p)
    BY <1>0, <2>1, <2>19, RaiseTyped DEF SearchRaises
  <2>20. CASE Cancel(p)
    BY <1>0, <2>1, <2>20, AuditTyped DEF Cancel
  <2>21. CASE Correct(p)
    BY <1>0, <2>1, <2>21, AuditTyped, SetStatusTyped DEF Correct
  <2>22. CASE WithdrawRefused(p)
    <3>1. Refusal(p) \in Answers
      BY DEF Refusal
    <3>2. RequestTyped'
      BY <1>0, <2>22, <3>1, AnswerTyped DEF WithdrawRefused
    <3>3. QED
      BY <1>0, <2>22, <3>2 DEF WithdrawRefused
  <2>23. CASE ShowAnswer(p)
    BY <1>0, <2>1, <2>23 DEF ShowAnswer, RequestTyped
  <2>24. CASE Acknowledge(p)
    BY <1>0, <2>1, <2>24 DEF Acknowledge, Finished, RequestTyped
  <2>25. CASE TelegramFails(p)
    BY <1>0, <2>1, <2>25, RaiseTyped DEF TelegramFails
  <2>27. CASE AskDolibarr(p)
    BY <1>0, <2>1, <2>27, GotoTyped DEF AskDolibarr
  <2>26. QED
    BY <1>3, <2>2, <2>3, <2>4, <2>5, <2>6, <2>7, <2>8, <2>9, <2>10, <2>11, <2>12, <2>13, <2>14, <2>15, <2>16, <2>17, <2>18, <2>19, <2>20, <2>21, <2>22, <2>23, <2>24, <2>25, <2>27 DEF Request, Execution
<1>4. ASSUME NEW c \in Commands, Store(c) PROVE StoreTyped' /\ ErpTyped' /\ WorldTyped' /\ RequestTyped'
  <2>. USE DEF RequestTyped
  <2>1. ASSUME NEW u \in Users, PreviewCommand(c, u) PROVE StoreTyped' /\ ErpTyped' /\ WorldTyped' /\ RequestTyped'
    BY <1>0, <2>1 DEF PreviewCommand
  <2>2. ASSUME NEW u \in Users, IngestDocument(c, u) PROVE StoreTyped' /\ ErpTyped' /\ WorldTyped' /\ RequestTyped'
    BY <1>0, <2>2 DEF IngestDocument
  <2>3. CASE Expire(c)
    BY <1>0, <2>3 DEF Expire
  <2>4. CASE TtlRemoves(c)
    BY <1>0, <2>4 DEF TtlRemoves
  <2>5. CASE LateCreation(c)
    BY <1>0, <2>5 DEF LateCreation
  <2>6. QED
    BY <1>4, <2>1, <2>2, <2>3, <2>4, <2>5 DEF Store
<1>5. ASSUME NEW u \in Users, ChangeAccess(u) PROVE StoreTyped' /\ ErpTyped' /\ WorldTyped' /\ RequestTyped'
  BY <1>0, <1>5 DEF ChangeAccess, RequestTyped
<1>6. CASE Crash
  BY <1>0, <1>6 DEF Crash, Cmd, ConstantsAssumption, RequestTyped
<1>7. QED
  BY <1>1, <1>2, <1>3, <1>4, <1>5, <1>6 DEF Next

(* The variables always have their types. *)
THEOREM TypeCorrect == Spec => []TypeOK
<1>1. Init => TypeOK
  <2>. SUFFICES ASSUME Init PROVE StoreTyped /\ ErpTyped /\ WorldTyped /\ RequestTyped
    BY Parts
  <2>1. StoreTyped
    BY Names DEF Init, StoreTyped
  <2>2. ErpTyped
    BY DEF Init, ErpTyped
  <2>3. WorldTyped
    BY ConstantsAssumption DEF Init, WorldTyped, ConstantsAssumption
  <2>4. RequestTyped
    BY Names DEF Init, RequestTyped
  <2>5. QED
    BY <2>1, <2>2, <2>3, <2>4
<1>2. TypeOK /\ [Next]_vars => TypeOK'
  BY TypeInductive, ConstantsAssumption
<1>3. QED
  BY <1>1, <1>2, PTL DEF Spec

-----------------------------------------------------------------------------
(***************************************************************************)
(* The inductive invariant behind the safety properties. Its core is       *)
(* Exclusive with Confirmed: the store lets one press through, and until   *)
(* that press is over the command cannot move.                             *)
(***************************************************************************)

\* At most one request executes a command.
Exclusive ==
    \A p, q \in Presses :
        pc[p] \in Executing /\ pc[q] \in Executing /\ Cmd(p) = Cmd(q) => p = q

\* A request that executes a command holds it CONFIRMED.
Confirmed == \A p \in Presses : pc[p] \in Executing => status[Cmd(p)] = "CONFIRMED"

\* Nothing was sent for a command that was never confirmed.
Unsent ==
    /\ \A c \in Commands :
          status[c] \in {"NONE", "PENDING", "CANCELLED", "CORRECTION_REQUESTED"} => posts[c] = 0
    /\ \A p \in Presses : pc[p] = "confirmed" => posts[Cmd(p)] = 0

\* A create request is in one place: unsent, awaited, adrift or applied.
OneRequest ==
    /\ \A c \in Commands :
          /\ posts[c] <= 1
          /\ created[c] <= posts[c]
          /\ c \in adrift => posts[c] = 1 /\ created[c] = 0
    /\ \A p \in Presses :
          pc[p] = "posting" => posts[Cmd(p)] = 1 /\ created[Cmd(p)] = 0 /\ Cmd(p) \notin adrift

\* What is said not to run has left the states from which it could.
Refused ==
    \A p \in Presses :
        told[p] \in NotRun \/ answer[p] \in NotRun =>
            /\ status[Cmd(p)] \in {"CANCELLED", "CORRECTION_REQUESTED", "FAILED", "GONE"}
            /\ posts[Cmd(p)] = 0

IInv == Exclusive /\ Confirmed /\ Unsent /\ OneRequest /\ Refused

(* What the step that audits and answers leaves behind, whether or not the audit *)
(* call raises.                                                                  *)
LEMMA AuditEffect ==
    ASSUME NEW p \in Presses, NEW text, RequestTyped, AuditThenAnswer(p, text)
    PROVE  /\ pc'[p] \in {"answering", "idle"}
           /\ pc'[p] = "answering" => key'[p] = key[p]
           /\ answer'[p] \in {text, "none"}
           /\ \A q \in Presses \ {p} :
                 pc'[q] = pc[q] /\ answer'[q] = answer[q] /\ seen'[q] = seen[q] /\ key'[q] = key[q]
           /\ told' = told
  BY DEF RequestTyped, AuditThenAnswer, Answer, Raise, Finished

LEMMA SafetyInductive ==
    ASSUME ConstantsAssumption, TypeOK, IInv, [Next]_vars PROVE IInv'
<1>. USE DEF storeVars, erpVars, requestVars, fixedVars, Executing, Terminal, Absent
<1>. StoreTyped /\ ErpTyped /\ WorldTyped /\ RequestTyped
  BY Parts
<1>. USE DEF StoreTyped, ErpTyped, WorldTyped, RequestTyped
<1>. USE DEF IInv, Exclusive, Confirmed, Unsent, OneRequest, Refused, NotRun,
             Cmd, Goto, Answer, Finished, Raise, AuditThenAnswer, SetStatus, SetResult, Open
<1>1. CASE UNCHANGED vars
  BY <1>1 DEF vars
<1>2. ASSUME NEW p \in Presses, Delivery(p) PROVE IInv'
  <2>1. CASE PressButton(p)
    BY <2>1 DEF PressButton
  <2>2. CASE Deliver(p)
    BY <2>2 DEF Deliver
  <2>3. CASE DeliverDuplicate(p)
    BY <2>3 DEF DeliverDuplicate
  <2>4. CASE KeyExpires(p)
    BY <2>4 DEF KeyExpires
  <2>5. QED
    BY <1>2, <2>1, <2>2, <2>3, <2>4 DEF Delivery
<1>3. ASSUME NEW p \in Presses, Request(p) PROVE IInv'
  <2>1. Cmd(p) \in Commands /\ press[p].op \in Ops
    OBVIOUS
  <2>2. CASE ResolveUser(p)
    BY <2>1, <2>2 DEF ResolveUser
  <2>3. CASE RefuseUser(p)
    BY <2>1, <2>3 DEF RefuseUser
  <2>4. CASE ResolverRaises(p)
    BY <2>1, <2>4 DEF ResolverRaises
  <2>5. CASE ConfirmTaken(p)
    BY <2>1, <2>5 DEF ConfirmTaken, CanConfirm
  <2>6. CASE ConfirmRefused(p)
    BY <2>1, <2>6 DEF ConfirmRefused, Refusal
  <2>7. CASE NoHandler(p)
    BY <2>1, <2>7 DEF NoHandler
  <2>8. CASE PermissionRevoked(p)
    <3>. HIDE DEF AuditThenAnswer
    <3>1. /\ pc'[p] \in {"answering", "idle"}
          /\ answer'[p] \in {"revoked", "none"}
          /\ \A q \in Presses \ {p} : pc'[q] = pc[q] /\ answer'[q] = answer[q]
          /\ told' = told
      BY <2>8, AuditEffect DEF PermissionRevoked
    <3>. USE <2>1, <2>8 DEF PermissionRevoked
    <3>2. Exclusive' /\ Confirmed'
      BY <3>1
    <3>3. Unsent' /\ OneRequest'
      BY <3>1
    <3>4. Refused'
      BY <3>1
    <3>5. QED
      BY <3>2, <3>3, <3>4
  <2>9. CASE AuditConfirmRaises(p)
    BY <2>1, <2>9 DEF AuditConfirmRaises
  <2>10. CASE NoIdentity(p)
    BY <2>1, <2>10 DEF NoIdentity, ReadyToExecute
  <2>11. CASE SendRequest(p)
    BY <2>1, <2>11 DEF SendRequest, ReadyToExecute
  <2>12. CASE DolibarrCreates(p)
    BY <2>1, <2>12 DEF DolibarrCreates
  <2>13. CASE AnswerOk(p)
    BY <2>1, <2>13 DEF AnswerOk
  <2>14. CASE AnswerError(p)
    BY <2>1, <2>14 DEF AnswerError
  <2>15. CASE AnswerConflict(p)
    BY <2>1, <2>15 DEF AnswerConflict
  <2>16. CASE RecordResult(p)
    BY <2>1, <2>16 DEF RecordResult
  <2>17. CASE SearchFinds(p)
    BY <2>1, <2>17 DEF SearchFinds
  <2>18. CASE SearchFindsNothing(p)
    BY <2>1, <2>18 DEF SearchFindsNothing
  <2>19. CASE SearchRaises(p)
    BY <2>1, <2>19 DEF SearchRaises
  <2>20. CASE Cancel(p)
    <3>. HIDE DEF AuditThenAnswer
    <3>1. /\ pc'[p] \in {"answering", "idle"}
          /\ answer'[p] \in {"cancelled", "none"}
          /\ \A q \in Presses \ {p} : pc'[q] = pc[q] /\ answer'[q] = answer[q]
          /\ told' = told
      BY <2>20, AuditEffect DEF Cancel
    <3>. USE <2>1, <2>20 DEF Cancel, CanWithdraw
    <3>2. Exclusive'
      BY <3>1
    <3>3. \A q \in Presses : pc'[q] \in Executing => q # p /\ Cmd(q) # Cmd(p)
      BY <3>1
    <3>4. Confirmed'
      BY <3>1, <3>3
    <3>5. Unsent' /\ OneRequest'
      BY <3>1
    <3>6. Refused'
      BY <3>1
    <3>7. QED
      BY <3>2, <3>4, <3>5, <3>6
  <2>21. CASE Correct(p)
    <3>. HIDE DEF AuditThenAnswer
    <3>1. /\ pc'[p] \in {"answering", "idle"}
          /\ answer'[p] \in {"corrected", "none"}
          /\ \A q \in Presses \ {p} : pc'[q] = pc[q] /\ answer'[q] = answer[q]
          /\ told' = told
      BY <2>21, AuditEffect DEF Correct
    <3>. USE <2>1, <2>21 DEF Correct, CanWithdraw
    <3>2. Exclusive'
      BY <3>1
    <3>3. \A q \in Presses : pc'[q] \in Executing => q # p /\ Cmd(q) # Cmd(p)
      BY <3>1
    <3>4. Confirmed'
      BY <3>1, <3>3
    <3>5. Unsent' /\ OneRequest'
      BY <3>1
    <3>6. Refused'
      BY <3>1
    <3>7. QED
      BY <3>2, <3>4, <3>5, <3>6
  <2>22. CASE WithdrawRefused(p)
    BY <2>1, <2>22 DEF WithdrawRefused, Refusal
  <2>23. CASE ShowAnswer(p)
    BY <2>1, <2>23 DEF ShowAnswer
  <2>24. CASE Acknowledge(p)
    BY <2>1, <2>24 DEF Acknowledge
  <2>25. CASE TelegramFails(p)
    BY <2>1, <2>25 DEF TelegramFails
  <2>27. CASE AskDolibarr(p)
    BY <2>1, <2>27 DEF AskDolibarr
  <2>26. QED
    BY <1>3, <2>2, <2>3, <2>4, <2>5, <2>6, <2>7, <2>8, <2>9, <2>10, <2>11, <2>12, <2>13, <2>14, <2>15, <2>16, <2>17, <2>18, <2>19, <2>20, <2>21, <2>22, <2>23, <2>24, <2>25, <2>27 DEF Request, Execution
<1>4. ASSUME NEW c \in Commands, Store(c) PROVE IInv'
  <2>1. ASSUME NEW u \in Users, PreviewCommand(c, u) \/ IngestDocument(c, u) PROVE IInv'
    <3>1. /\ status[c] = "NONE" /\ status' = [status EXCEPT ![c] = "PENDING"]
          /\ UNCHANGED <<erpVars, fixedVars, pc, answer, told>>
      BY <2>1 DEF PreviewCommand, IngestDocument
    <3>2. QED
      BY <3>1
  <2>2. CASE Expire(c)
    BY <2>2 DEF Expire
  <2>3. CASE TtlRemoves(c)
    BY <2>3 DEF TtlRemoves
  <2>4. CASE LateCreation(c)
    BY <2>4 DEF LateCreation
  <2>5. QED
    BY <1>4, <2>1, <2>2, <2>3, <2>4 DEF Store
<1>5. ASSUME NEW u \in Users, ChangeAccess(u) PROVE IInv'
  BY <1>5 DEF ChangeAccess
<1>6. CASE Crash
  BY <1>6 DEF Crash
<1>7. QED
  <2>. HIDE DEF IInv
  <2>. QED
    BY <1>1, <1>2, <1>3, <1>4, <1>5, <1>6 DEF Next

(* The inductive invariant holds in every reachable state. *)
LEMMA SafetyInvariant == Spec => []IInv
<1>1. Init => IInv
  <2>. SUFFICES ASSUME Init PROVE IInv
    OBVIOUS
  <2>1. \A p \in Presses : Cmd(p) \in Commands /\ pc[p] = "idle" /\ told[p] = "none" /\ answer[p] = "none"
    BY DEF Init, Cmd
  <2>2. \A c \in Commands : posts[c] = 0 /\ created[c] = 0 /\ c \notin adrift
    BY DEF Init
  <2>3. QED
    BY <2>1, <2>2 DEF IInv, Exclusive, Confirmed, Unsent, OneRequest, Refused, NotRun, Executing
<1>2. TypeOK /\ IInv /\ [Next]_vars => IInv'
  BY SafetyInductive, ConstantsAssumption
<1>3. QED
  BY <1>1, <1>2, TypeCorrect, PTL DEF Spec

-----------------------------------------------------------------------------
(* Dolibarr is asked at most once per command, and creates at most one         *)
(* resource for it: a single confirmation passes store.confirm, and its        *)
(* request is unsent, awaited, adrift or applied, never two of these.          *)
THEOREM SingleCreation == Spec => []AtMostOneCreation
<1>1. TypeOK /\ IInv => AtMostOneCreation
  BY DEF TypeOK, IInv, OneRequest, AtMostOneCreation
<1>2. QED
  BY <1>1, TypeCorrect, SafetyInvariant, PTL

(* Who was told that a command is cancelled, to be corrected, or refused for   *)
(* want of permission or identity can rely on it: nothing was or will be sent. *)
THEOREM RefusalsHold == Spec => []NotRunIsTrue
<1>1. TypeOK /\ IInv => NotRunIsTrue
  BY DEF TypeOK, IInv, OneRequest, Refused, NotRunIsTrue, Cmd
<1>2. QED
  BY <1>1, TypeCorrect, SafetyInvariant, PTL

-----------------------------------------------------------------------------
(***************************************************************************)
(* What a request knows. The invariant KInv says, point by point, what a   *)
(* request that executes a command has established before, and what the    *)
(* text it is about to show says of Dolibarr.                              *)
(***************************************************************************)

\* A request was delivered and holds its key, and one that executes is a Confirm of the owner.
Owned ==
    \A p \in Presses :
        /\ pc[p] # "idle" => queue[p] # "unsent" /\ key[p] = "processing"
        /\ pc[p] \in Executing => press[p].op = "confirm" /\ press[p].by = owner[Cmd(p)]

\* Points past the sending of the create request.
AfterSend == Executing \ {"confirmed"}

\* A request past that point sent it, and one that got an id knows the resource.
Sent ==
    \A p \in Presses :
        /\ pc[p] \in AfterSend => posts[Cmd(p)] = 1
        /\ pc[p] \in {"created", "ok"} => created[Cmd(p)] = 1

\* Whoever is to read "creado", or has read it, is told the truth.
Truthful ==
    \A p \in Presses :
        answer[p] = "created" \/ told[p] = "created" =>
            created[Cmd(p)] = 1 /\ status[Cmd(p)] \in {"EXECUTED", "GONE"}

KInv == Owned /\ Sent /\ Truthful /\ OwnerConfirmed

LEMMA KnowledgeInductive ==
    ASSUME ConstantsAssumption, TypeOK, IInv, KInv, [Next]_vars PROVE KInv'
<1>. USE DEF storeVars, erpVars, requestVars, fixedVars, Executing, AfterSend, Terminal, Absent, Usable
<1>. StoreTyped /\ ErpTyped /\ WorldTyped /\ RequestTyped
  BY Parts
<1>. USE DEF StoreTyped, ErpTyped, WorldTyped, RequestTyped
<1>. Exclusive /\ Confirmed /\ Unsent /\ OneRequest
  BY DEF IInv
<1>. Owned /\ Sent /\ Truthful /\ OwnerConfirmed
  BY DEF KInv
<1>. USE DEF KInv, Owned, Sent, Truthful, OwnerConfirmed, Exclusive, Confirmed, Unsent,
             OneRequest, Cmd, Goto, Answer, Finished, Raise, AuditThenAnswer, SetStatus, SetResult, Open
<1>1. CASE UNCHANGED vars
  BY <1>1 DEF vars
<1>2. ASSUME NEW p \in Presses, Delivery(p) PROVE KInv'
  <2>1. CASE PressButton(p)
    BY <2>1 DEF PressButton
  <2>2. CASE Deliver(p)
    BY <2>2 DEF Deliver
  <2>3. CASE DeliverDuplicate(p)
    BY <2>3 DEF DeliverDuplicate
  <2>4. CASE KeyExpires(p)
    BY <2>4 DEF KeyExpires
  <2>5. QED
    BY <1>2, <2>1, <2>2, <2>3, <2>4 DEF Delivery
<1>3. ASSUME NEW p \in Presses, Request(p) PROVE KInv'
  <2>1. Cmd(p) \in Commands /\ press[p].op \in Ops
    OBVIOUS
  <2>2. CASE ResolveUser(p)
    BY <2>1, <2>2 DEF ResolveUser
  <2>3. CASE RefuseUser(p)
    BY <2>1, <2>3 DEF RefuseUser
  <2>4. CASE ResolverRaises(p)
    BY <2>1, <2>4 DEF ResolverRaises
  <2>5. CASE ConfirmTaken(p)
    BY <2>1, <2>5 DEF ConfirmTaken, CanConfirm
  <2>6. CASE ConfirmRefused(p)
    BY <2>1, <2>6 DEF ConfirmRefused, Refusal
  <2>7. CASE NoHandler(p)
    BY <2>1, <2>7 DEF NoHandler
  <2>8. CASE PermissionRevoked(p)
    <3>. HIDE DEF AuditThenAnswer
    <3>1. /\ pc'[p] \in {"answering", "idle"}
          /\ pc'[p] = "answering" => key'[p] = key[p]
          /\ answer'[p] \in {"revoked", "none"}
          /\ \A q \in Presses \ {p} :
                pc'[q] = pc[q] /\ answer'[q] = answer[q] /\ seen'[q] = seen[q] /\ key'[q] = key[q]
          /\ told' = told
      BY <2>8, AuditEffect DEF PermissionRevoked
    <3>2. /\ status[Cmd(p)] = "CONFIRMED" /\ status' = [status EXCEPT ![Cmd(p)] = "FAILED"]
          /\ pc[p] # "idle"
          /\ UNCHANGED <<owner, posts, created, press, queue>>
      BY <2>1, <2>8 DEF PermissionRevoked
    <3>. HIDE DEF SetStatus
    <3>3. Owned'
      BY <3>1, <3>2
    <3>4. Sent'
      BY <3>1, <3>2
    <3>5. Truthful'
      BY <3>1, <3>2
    <3>6. OwnerConfirmed'
      BY <3>1, <3>2
    <3>7. QED
      BY <3>3, <3>4, <3>5, <3>6
  <2>9. CASE AuditConfirmRaises(p)
    BY <2>1, <2>9 DEF AuditConfirmRaises
  <2>10. CASE NoIdentity(p)
    BY <2>1, <2>10 DEF NoIdentity, ReadyToExecute
  <2>11. CASE SendRequest(p)
    BY <2>1, <2>11 DEF SendRequest, ReadyToExecute, MayRun
  <2>12. CASE DolibarrCreates(p)
    BY <2>1, <2>12 DEF DolibarrCreates
  <2>13. CASE AnswerOk(p)
    BY <2>1, <2>13 DEF AnswerOk
  <2>14. CASE AnswerError(p)
    BY <2>1, <2>14 DEF AnswerError
  <2>15. CASE AnswerConflict(p)
    BY <2>1, <2>15 DEF AnswerConflict
  <2>16. CASE RecordResult(p)
    BY <2>1, <2>16 DEF RecordResult
  <2>17. CASE SearchFinds(p)
    BY <2>1, <2>17 DEF SearchFinds
  <2>18. CASE SearchFindsNothing(p)
    BY <2>1, <2>18 DEF SearchFindsNothing
  <2>19. CASE SearchRaises(p)
    BY <2>1, <2>19 DEF SearchRaises
  <2>20. CASE Cancel(p)
    <3>. HIDE DEF AuditThenAnswer
    <3>1. /\ pc'[p] \in {"answering", "idle"}
          /\ pc'[p] = "answering" => key'[p] = key[p]
          /\ answer'[p] \in {"cancelled", "none"}
          /\ \A q \in Presses \ {p} :
                pc'[q] = pc[q] /\ answer'[q] = answer[q] /\ seen'[q] = seen[q] /\ key'[q] = key[q]
          /\ told' = told
      BY <2>20, AuditEffect DEF Cancel, CanWithdraw
    <3>2. /\ status[Cmd(p)] = "PENDING" /\ status' = [status EXCEPT ![Cmd(p)] = "CANCELLED"]
          /\ pc[p] # "idle"
          /\ UNCHANGED <<owner, posts, created, press, queue>>
      BY <2>1, <2>20 DEF Cancel, CanWithdraw
    <3>. HIDE DEF SetStatus
    <3>3. Owned'
      BY <3>1, <3>2
    <3>4. Sent'
      BY <3>1, <3>2
    <3>5. Truthful'
      BY <3>1, <3>2
    <3>6. OwnerConfirmed'
      BY <3>1, <3>2
    <3>7. QED
      BY <3>3, <3>4, <3>5, <3>6
  <2>21. CASE Correct(p)
    <3>. HIDE DEF AuditThenAnswer
    <3>1. /\ pc'[p] \in {"answering", "idle"}
          /\ pc'[p] = "answering" => key'[p] = key[p]
          /\ answer'[p] \in {"corrected", "none"}
          /\ \A q \in Presses \ {p} :
                pc'[q] = pc[q] /\ answer'[q] = answer[q] /\ seen'[q] = seen[q] /\ key'[q] = key[q]
          /\ told' = told
      BY <2>21, AuditEffect DEF Correct, CanWithdraw
    <3>2. /\ status[Cmd(p)] = "PENDING" /\ status' = [status EXCEPT ![Cmd(p)] = "CORRECTION_REQUESTED"]
          /\ pc[p] # "idle"
          /\ UNCHANGED <<owner, posts, created, press, queue>>
      BY <2>1, <2>21 DEF Correct, CanWithdraw
    <3>. HIDE DEF SetStatus
    <3>3. Owned'
      BY <3>1, <3>2
    <3>4. Sent'
      BY <3>1, <3>2
    <3>5. Truthful'
      BY <3>1, <3>2
    <3>6. OwnerConfirmed'
      BY <3>1, <3>2
    <3>7. QED
      BY <3>3, <3>4, <3>5, <3>6
  <2>22. CASE WithdrawRefused(p)
    BY <2>1, <2>22 DEF WithdrawRefused, Refusal
  <2>23. CASE ShowAnswer(p)
    BY <2>1, <2>23 DEF ShowAnswer
  <2>24. CASE Acknowledge(p)
    BY <2>1, <2>24 DEF Acknowledge
  <2>25. CASE TelegramFails(p)
    BY <2>1, <2>25 DEF TelegramFails
  <2>27. CASE AskDolibarr(p)
    BY <2>1, <2>27 DEF AskDolibarr
  <2>26. QED
    BY <1>3, <2>2, <2>3, <2>4, <2>5, <2>6, <2>7, <2>8, <2>9, <2>10, <2>11, <2>12, <2>13, <2>14, <2>15, <2>16, <2>17, <2>18, <2>19, <2>20, <2>21, <2>22, <2>23, <2>24, <2>25, <2>27 DEF Request, Execution
<1>4. ASSUME NEW c \in Commands, Store(c) PROVE KInv'
  <2>1. ASSUME NEW u \in Users, PreviewCommand(c, u) \/ IngestDocument(c, u) PROVE KInv'
    <3>1. /\ status[c] = "NONE" /\ status' = [status EXCEPT ![c] = "PENDING"] /\ posts[c] = 0
          /\ owner' = [owner EXCEPT ![c] = u]
          /\ UNCHANGED <<erpVars, fixedVars, queue, key, pc, seen, answer, told>>
      BY <2>1 DEF PreviewCommand, IngestDocument
    <3>2. QED
      BY <3>1
  <2>2. CASE Expire(c)
    BY <2>2 DEF Expire
  <2>3. CASE TtlRemoves(c)
    BY <2>3 DEF TtlRemoves
  <2>4. CASE LateCreation(c)
    BY <2>4 DEF LateCreation
  <2>5. QED
    BY <1>4, <2>1, <2>2, <2>3, <2>4 DEF Store
<1>5. ASSUME NEW u \in Users, ChangeAccess(u) PROVE KInv'
  BY <1>5 DEF ChangeAccess
<1>6. CASE Crash
  BY <1>6 DEF Crash
<1>7. QED
  <2>. HIDE DEF KInv
  <2>. QED
    BY <1>1, <1>2, <1>3, <1>4, <1>5, <1>6 DEF Next

(* What a request knows is so in every reachable state. *)
LEMMA Knowledge == Spec => []KInv
<1>1. Init => KInv
  <2>. SUFFICES ASSUME Init PROVE KInv
    OBVIOUS
  <2>1. \A p \in Presses : /\ Cmd(p) \in Commands /\ pc[p] = "idle"
                           /\ told[p] = "none" /\ answer[p] = "none"
    BY DEF Init, Cmd
  <2>2. \A c \in Commands : posts[c] = 0
    BY DEF Init
  <2>3. QED
    BY <2>1, <2>2 DEF KInv, Owned, Sent, Truthful, OwnerConfirmed, Executing, AfterSend
<1>2. TypeOK /\ IInv /\ KInv /\ [Next]_vars => KInv'
  BY KnowledgeInductive, ConstantsAssumption
<1>3. QED
  BY <1>1, <1>2, TypeCorrect, SafetyInvariant, PTL DEF Spec

(* Who reads "creado" can find the resource, and the command will not run      *)
(* again: an answer of success follows a create request that was applied.      *)
THEOREM SuccessIsTold == Spec => []CreatedIsTrue
<1>1. KInv => CreatedIsTrue
  BY DEF KInv, Truthful, CreatedIsTrue
<1>2. QED
  BY <1>1, Knowledge, PTL

(* A create request is sent for a press of Confirm by the owner of its preview. *)
THEOREM OwnerDecides == Spec => []OwnerConfirmed
<1>1. KInv => OwnerConfirmed
  BY DEF KInv
<1>2. QED
  BY <1>1, Knowledge, PTL

-----------------------------------------------------------------------------
(***************************************************************************)
(* What is left half way. A crash, or an exception between the CONFIRMED   *)
(* of the store and the outcome, orphans a command; no request can take it *)
(* up again, since Confirm asks for PENDING and every write of an outcome  *)
(* is made by a request that still executes its command.                   *)
(***************************************************************************)

(* A step of p does nothing to the orphans if it sends for and writes the status *)
(* of nothing but what p executes, and executes nothing that is CONFIRMED before. *)
LEMMA StepLeavesOrphans ==
    ASSUME TypeOK, NEW p \in Presses, press' = press,
           \A q \in Presses \ {p} : pc'[q] = pc[q],
           pc[p] \notin Executing => posts' = posts,
           \A c \in Commands \ {Cmd(p)} : posts'[c] = posts[c] /\ status'[c] = status[c],
           pc[p] \notin Executing /\ status[Cmd(p)] = "CONFIRMED" =>
               status' = status /\ pc'[p] \notin Executing,
           pc'[p] \in Executing => pc[p] \in Executing \/ status[Cmd(p)] # "CONFIRMED",
           NEW c \in Commands, Orphan(c)
    PROVE  posts'[c] = posts[c] /\ Orphan(c)'
<1>1. \A q \in Presses : Cmd(q)' = Cmd(q)
  BY DEF Cmd
<1>2. CASE c = Cmd(p)
  BY <1>1, <1>2 DEF Orphan
<1>3. CASE c # Cmd(p)
  BY <1>1, <1>3 DEF Orphan
<1>4. QED
  BY <1>2, <1>3

LEMMA OrphansKept ==
    ASSUME TypeOK, IInv, [Next]_vars, NEW c \in Commands, Orphan(c)
    PROVE  posts'[c] = posts[c] /\ (Orphan(c)' \/ status'[c] = "GONE")
<1>. DEFINE Left == posts'[c] = posts[c] /\ (Orphan(c)' \/ status'[c] = "GONE")
<1>. USE DEF storeVars, erpVars, requestVars, fixedVars
<1>. StoreTyped /\ ErpTyped /\ WorldTyped /\ RequestTyped
  BY Parts
<1>. USE DEF StoreTyped, RequestTyped
<1>1. CASE UNCHANGED vars
  BY <1>1 DEF vars, Orphan, Cmd
<1>2. ASSUME NEW p \in Presses, Delivery(p) PROVE Left
  BY <1>2 DEF Delivery, PressButton, Deliver, DeliverDuplicate, KeyExpires, Orphan, Cmd, Executing
<1>3. ASSUME NEW p \in Presses, Request(p) PROVE Left
  <2>1. Cmd(p) \in Commands
    BY DEF Cmd, WorldTyped
  <2>. USE <2>1, StepLeavesOrphans
           DEF Executing, Goto, Answer, Finished, Raise, AuditThenAnswer, SetStatus, Open, Terminal, Absent
  <2>2. CASE AskDolibarr(p)
    BY <2>2 DEF AskDolibarr
  <2>3. CASE ResolveUser(p)
    BY <2>3 DEF ResolveUser
  <2>4. CASE RefuseUser(p) \/ ResolverRaises(p)
    BY <2>4 DEF RefuseUser, ResolverRaises
  <2>5. CASE ConfirmTaken(p)
    BY <2>5 DEF ConfirmTaken, CanConfirm
  <2>6. CASE ConfirmRefused(p)
    BY <2>6 DEF ConfirmRefused
  <2>7. CASE NoHandler(p) \/ AuditConfirmRaises(p)
    BY <2>7 DEF NoHandler, AuditConfirmRaises
  <2>8. CASE PermissionRevoked(p)
    BY <2>8 DEF PermissionRevoked
  <2>9. CASE NoIdentity(p)
    BY <2>9 DEF NoIdentity, ReadyToExecute
  <2>10. CASE SendRequest(p)
    BY <2>10, Parts DEF SendRequest, ReadyToExecute, ErpTyped
  <2>11. CASE DolibarrCreates(p)
    BY <2>11 DEF DolibarrCreates
  <2>12. CASE AnswerOk(p) \/ AnswerError(p) \/ AnswerConflict(p)
    BY <2>12 DEF AnswerOk, AnswerError, AnswerConflict
  <2>13. CASE RecordResult(p)
    BY <2>13 DEF RecordResult
  <2>14. CASE SearchFinds(p)
    BY <2>14 DEF SearchFinds
  <2>15. CASE SearchFindsNothing(p)
    BY <2>15 DEF SearchFindsNothing
  <2>16. CASE SearchRaises(p)
    BY <2>16 DEF SearchRaises
  <2>17. CASE Cancel(p)
    BY <2>17 DEF Cancel, CanWithdraw
  <2>18. CASE Correct(p)
    BY <2>18 DEF Correct, CanWithdraw
  <2>19. CASE WithdrawRefused(p)
    BY <2>19 DEF WithdrawRefused
  <2>20. CASE ShowAnswer(p)
    BY <2>20 DEF ShowAnswer
  <2>21. CASE Acknowledge(p) \/ TelegramFails(p)
    BY <2>21 DEF Acknowledge, TelegramFails
  <2>22. QED
    BY <1>3, <2>2, <2>3, <2>4, <2>5, <2>6, <2>7, <2>8, <2>9, <2>10, <2>11, <2>12, <2>13, <2>14, <2>15,
       <2>16, <2>17, <2>18, <2>19, <2>20, <2>21 DEF Request, Execution
<1>4. ASSUME NEW d \in Commands, Store(d) PROVE Left
  BY <1>4 DEF Store, PreviewCommand, IngestDocument, Expire, TtlRemoves, LateCreation, Orphan, Cmd
<1>5. ASSUME NEW u \in Users, ChangeAccess(u) PROVE Left
  BY <1>5 DEF ChangeAccess, Orphan, Cmd
<1>6. CASE Crash
  BY <1>6 DEF Crash, Orphan, Cmd, Executing
<1>7. QED
  BY <1>1, <1>2, <1>3, <1>4, <1>5, <1>6 DEF Next

(* A command whose execution was cut short, by a crash or by an exception      *)
(* outside the try of confirm, as every call of the audit log is, sends no     *)
(* request and gets no outcome, whatever is pressed: it stays until its TTL.   *)
THEOREM OrphansNeverRun == Spec => OrphansStay
<1>1. TypeOK /\ IInv /\ [Next]_vars
        => [\A c \in Commands :
               Orphan(c) => posts'[c] = posts[c] /\ (Orphan(c)' \/ status'[c] = "GONE")]_vars
  BY OrphansKept
<1>2. QED
  BY <1>1, TypeCorrect, SafetyInvariant, PTL DEF Spec, OrphansStay

-----------------------------------------------------------------------------
(***************************************************************************)
(* The refinement. Most steps are stutters of the lifecycle; the others    *)
(* move one command as IInv says they may.                                 *)
(***************************************************************************)

Life(c, from, to) == status[c] \in from /\ status' = [status EXCEPT ![c] = to] /\ posts' = posts

(* What a step does to the lifecycle: nothing, or one of its moves.             *)
LifeStep ==
    \/ UNCHANGED <<status, posts>>
    \/ \E c \in Commands :
          \/ Life(c, {"NONE"}, "PENDING") \/ Life(c, {"PENDING"}, "CONFIRMED")
          \/ Life(c, {"PENDING"}, "CANCELLED") \/ Life(c, {"PENDING"}, "CORRECTION_REQUESTED")
          \/ Life(c, {"CONFIRMED"}, "FAILED")
          \/ posts[c] = 1 /\ Life(c, {"CONFIRMED"}, "EXECUTED")
          \/ Life(c, Stored \ {"NONE", "GONE"}, "GONE")
          \/ /\ status[c] = "CONFIRMED" /\ posts[c] = 0
             /\ posts' = [posts EXCEPT ![c] = 1] /\ status' = status

LEMMA LifeStepImplements == ASSUME LifeStep PROVE [Lifecycle!LNext]_(Lifecycle!lvars)
<1>1. CASE UNCHANGED <<status, posts>>
  BY <1>1 DEF Lifecycle!lvars
<1>2. ASSUME NEW c \in Commands, Life(c, {"NONE"}, "PENDING") PROVE Lifecycle!LNext
  BY <1>2 DEF Life, Lifecycle!LNext, Lifecycle!Propose, Lifecycle!Move
<1>3. ASSUME NEW c \in Commands, Life(c, {"PENDING"}, "CONFIRMED") PROVE Lifecycle!LNext
  BY <1>3 DEF Life, Lifecycle!LNext, Lifecycle!Take, Lifecycle!Move
<1>4. ASSUME NEW c \in Commands, NEW w \in Lifecycle!Withdrawn, Life(c, {"PENDING"}, w) PROVE Lifecycle!LNext
  BY <1>4 DEF Life, Lifecycle!LNext, Lifecycle!Withdraw, Lifecycle!Move
<1>5. ASSUME NEW c \in Commands, Life(c, {"CONFIRMED"}, "FAILED") PROVE Lifecycle!LNext
  BY <1>5 DEF Life, Lifecycle!LNext, Lifecycle!GiveUp, Lifecycle!Move
<1>6. ASSUME NEW c \in Commands, posts[c] = 1, Life(c, {"CONFIRMED"}, "EXECUTED") PROVE Lifecycle!LNext
  BY <1>6 DEF Life, Lifecycle!LNext, Lifecycle!Finish, Lifecycle!Move
<1>7. ASSUME NEW c \in Commands, Life(c, Stored \ {"NONE", "GONE"}, "GONE") PROVE Lifecycle!LNext
  <2>1. Stored \subseteq Lifecycle!Lives
    BY DEF Stored, Statuses, Terminal, Absent, Lifecycle!Lives, Lifecycle!Withdrawn, Lifecycle!Settled
  <2>2. Lifecycle!Forget(c)
    BY <1>7, <2>1 DEF Life, Lifecycle!Forget, Lifecycle!Move
  <2>3. QED
    BY <2>2 DEF Lifecycle!LNext
<1>8. ASSUME NEW c \in Commands, status[c] = "CONFIRMED", posts[c] = 0,
             posts' = [posts EXCEPT ![c] = 1], status' = status
      PROVE  Lifecycle!LNext
  BY <1>8 DEF Lifecycle!LNext, Lifecycle!SendOnce
<1>9. QED
  <2>1. "CANCELLED" \in Lifecycle!Withdrawn /\ "CORRECTION_REQUESTED" \in Lifecycle!Withdrawn
    BY DEF Lifecycle!Withdrawn
  <2>2. QED
    BY <1>1, <1>2, <1>3, <1>4, <1>5, <1>6, <1>7, <1>8, <2>1 DEF LifeStep

(* Every step of the program takes a command along its lifecycle, or leaves all *)
(* commands where they are.                                                     *)
LEMMA NextLives == ASSUME TypeOK, IInv, KInv, [Next]_vars PROVE LifeStep
<1>. USE DEF storeVars, erpVars, requestVars, fixedVars
<1>. StoreTyped /\ ErpTyped /\ WorldTyped /\ RequestTyped
  BY Parts
<1>. Confirmed /\ Unsent /\ Sent
  BY DEF IInv, KInv
<1>1. CASE UNCHANGED vars
  BY <1>1 DEF vars, LifeStep
<1>2. ASSUME NEW p \in Presses, Delivery(p) PROVE LifeStep
  BY <1>2 DEF LifeStep, Delivery, PressButton, Deliver, DeliverDuplicate, KeyExpires
<1>3. ASSUME NEW p \in Presses, Request(p) PROVE LifeStep
  <2>1. Cmd(p) \in Commands
    BY DEF Cmd, WorldTyped
  <2>2. ASSUME pc[p] \in Executing
        PROVE  /\ status[Cmd(p)] = "CONFIRMED" /\ Open(Cmd(p))
               /\ pc[p] # "confirmed" => posts[Cmd(p)] = 1
               /\ pc[p] = "confirmed" => posts[Cmd(p)] = 0
    BY <2>2 DEF Confirmed, Sent, AfterSend, Unsent, Open, Terminal, Absent
  <2>28. CASE AskDolibarr(p)
    BY <2>28 DEF AskDolibarr, LifeStep
  <2>3. CASE ResolveUser(p)
    BY <2>3 DEF ResolveUser, LifeStep
  <2>4. CASE RefuseUser(p)
    BY <2>4 DEF RefuseUser, LifeStep
  <2>5. CASE ResolverRaises(p)
    BY <2>5 DEF ResolverRaises, LifeStep
  <2>6. CASE ConfirmRefused(p)
    BY <2>6 DEF ConfirmRefused, LifeStep
  <2>7. CASE NoHandler(p)
    BY <2>7 DEF NoHandler, LifeStep
  <2>8. CASE AuditConfirmRaises(p)
    BY <2>8 DEF AuditConfirmRaises, LifeStep
  <2>9. CASE DolibarrCreates(p)
    BY <2>9 DEF DolibarrCreates, LifeStep
  <2>10. CASE AnswerOk(p)
    BY <2>10 DEF AnswerOk, LifeStep
  <2>11. CASE AnswerError(p)
    BY <2>11 DEF AnswerError, LifeStep
  <2>12. CASE AnswerConflict(p)
    BY <2>12 DEF AnswerConflict, LifeStep
  <2>13. CASE SearchRaises(p)
    BY <2>13 DEF SearchRaises, LifeStep
  <2>14. CASE WithdrawRefused(p)
    BY <2>14 DEF WithdrawRefused, LifeStep
  <2>15. CASE ShowAnswer(p)
    BY <2>15 DEF ShowAnswer, LifeStep
  <2>16. CASE Acknowledge(p)
    BY <2>16 DEF Acknowledge, LifeStep
  <2>17. CASE TelegramFails(p)
    BY <2>17 DEF TelegramFails, LifeStep
  <2>18. CASE ConfirmTaken(p)
    <3>1. Life(Cmd(p), {"PENDING"}, "CONFIRMED")
      BY <2>18 DEF ConfirmTaken, CanConfirm, Life
    <3>2. QED
      BY <2>1, <3>1 DEF LifeStep
  <2>19. CASE PermissionRevoked(p)
    <3>1. Life(Cmd(p), {"CONFIRMED"}, "FAILED")
      BY <2>19, <2>2 DEF PermissionRevoked, SetStatus, Life, Executing
    <3>2. QED
      BY <2>1, <3>1 DEF LifeStep
  <2>20. CASE NoIdentity(p)
    <3>1. Life(Cmd(p), {"CONFIRMED"}, "FAILED")
      BY <2>20, <2>2 DEF NoIdentity, ReadyToExecute, SetStatus, Life, Executing
    <3>2. QED
      BY <2>1, <3>1 DEF LifeStep
  <2>21. CASE SearchFindsNothing(p)
    <3>1. Life(Cmd(p), {"CONFIRMED"}, "FAILED")
      BY <2>21, <2>2 DEF SearchFindsNothing, SetStatus, Life, Executing
    <3>2. QED
      BY <2>1, <3>1 DEF LifeStep
  <2>22. CASE RecordResult(p)
    <3>1. posts[Cmd(p)] = 1 /\ Life(Cmd(p), {"CONFIRMED"}, "EXECUTED")
      BY <2>22, <2>2 DEF RecordResult, SetStatus, Life, Executing
    <3>2. QED
      BY <2>1, <3>1 DEF LifeStep
  <2>23. CASE SearchFinds(p)
    <3>1. posts[Cmd(p)] = 1 /\ Life(Cmd(p), {"CONFIRMED"}, "EXECUTED")
      BY <2>23, <2>2 DEF SearchFinds, SetStatus, Life, Executing
    <3>2. QED
      BY <2>1, <3>1 DEF LifeStep
  <2>24. CASE SendRequest(p)
    <3>1. posts' = [posts EXCEPT ![Cmd(p)] = posts[Cmd(p)] + 1] /\ status' = status
      BY <2>24 DEF SendRequest
    <3>2. status[Cmd(p)] = "CONFIRMED" /\ posts[Cmd(p)] = 0
      BY <2>24, <2>2 DEF SendRequest, ReadyToExecute, Executing
    <3>3. posts[Cmd(p)] + 1 = 1
      BY <3>2
    <3>4. posts' = [posts EXCEPT ![Cmd(p)] = 1]
      BY <3>1, <3>3
    <3>5. QED
      BY <2>1, <3>1, <3>2, <3>4 DEF LifeStep
  <2>25. CASE Cancel(p)
    <3>1. Life(Cmd(p), {"PENDING"}, "CANCELLED")
      BY <2>25 DEF Cancel, CanWithdraw, Life
    <3>2. QED
      BY <2>1, <3>1 DEF LifeStep
  <2>26. CASE Correct(p)
    <3>1. Life(Cmd(p), {"PENDING"}, "CORRECTION_REQUESTED")
      BY <2>26 DEF Correct, CanWithdraw, Life, SetStatus, Open, Terminal, Absent
    <3>2. QED
      BY <2>1, <3>1 DEF LifeStep
  <2>27. QED
    BY <1>3, <2>3, <2>4, <2>5, <2>6, <2>7, <2>8, <2>9, <2>10, <2>11, <2>12, <2>13, <2>14, <2>15, <2>16, <2>17, <2>18, <2>19, <2>20, <2>21, <2>22, <2>23, <2>24, <2>25, <2>26, <2>28 DEF Request, Execution
<1>4. ASSUME NEW c \in Commands, Store(c) PROVE LifeStep
  <2>1. ASSUME NEW u \in Users, PreviewCommand(c, u) \/ IngestDocument(c, u) PROVE LifeStep
    <3>1. Life(c, {"NONE"}, "PENDING")
      BY <2>1 DEF PreviewCommand, IngestDocument, Life
    <3>2. QED
      BY <3>1 DEF LifeStep
  <2>2. CASE Expire(c) \/ LateCreation(c)
    BY <2>2 DEF Expire, LateCreation, LifeStep
  <2>3. CASE TtlRemoves(c)
    <3>1. Life(c, Stored \ {"NONE", "GONE"}, "GONE")
      BY <2>3 DEF TtlRemoves, Life, StoreTyped, Absent
    <3>2. QED
      BY <3>1 DEF LifeStep
  <2>4. QED
    BY <1>4, <2>1, <2>2, <2>3 DEF Store
<1>5. ASSUME NEW u \in Users, ChangeAccess(u) PROVE LifeStep
  BY <1>5 DEF ChangeAccess, LifeStep
<1>6. CASE Crash
  BY <1>6 DEF Crash, LifeStep
<1>7. QED
  BY <1>1, <1>2, <1>3, <1>4, <1>5, <1>6 DEF Next

(* The executor, the store and the callback endpoint implement the lifecycle,   *)
(* whatever is pressed, repeated, lost, late or interrupted.                    *)
THEOREM Refinement == Spec => ImplementsLifecycle
<1>1. Init => Lifecycle!LInit
  BY DEF Init, Lifecycle!LInit
<1>2. TypeOK /\ IInv /\ KInv /\ [Next]_vars => [Lifecycle!LNext]_(Lifecycle!lvars)
  BY NextLives, LifeStepImplements
<1>3. QED
  BY <1>1, <1>2, TypeCorrect, SafetyInvariant, Knowledge, PTL DEF Spec, Lifecycle!LSpec, ImplementsLifecycle

-----------------------------------------------------------------------------
(***************************************************************************)
(* What the lifecycle promises, and with it every program that implements  *)
(* it: a command has asked Dolibarr only if it was confirmed, and what is  *)
(* over stays over, until the key leaves Redis.                            *)
(***************************************************************************)

LifeInv ==
    \A c \in Commands :
        /\ posts[c] \in {0, 1}
        /\ posts[c] = 1 => status[c] \in {"CONFIRMED", "EXECUTED", "FAILED", "GONE"}
        /\ status[c] = "EXECUTED" => posts[c] = 1

\* Where a command can go from where it is.
After ==
    [s \in {"CONFIRMED", "EXECUTED", "FAILED", "CANCELLED", "CORRECTION_REQUESTED", "GONE"} |->
        CASE s = "CONFIRMED" -> {"CONFIRMED", "EXECUTED", "FAILED", "GONE"}
          [] s = "GONE"      -> {"GONE"}
          [] OTHER           -> {s, "GONE"}]

OverIsOver ==
    [][\A c \in Commands : status[c] \in DOMAIN After => status'[c] \in After[status[c]]]_<<status, posts>>

(* A move of one command leaves the others where they are.                     *)
LEMMA MoveOfOne ==
    ASSUME status \in [Commands -> Stored], NEW c \in Commands, NEW from, NEW to, Lifecycle!Move(c, from, to)
    PROVE  /\ status[c] \in from /\ posts' = posts
           /\ status'[c] = to /\ \A d \in Commands \ {c} : status'[d] = status[d]
  BY DEF Lifecycle!Move

(* The steps of the lifecycle keep its promises.                               *)
LEMMA LifeKeeps ==
    ASSUME status \in [Commands -> Stored], posts \in [Commands -> Nat], LifeInv,
           [Lifecycle!LNext]_(Lifecycle!lvars)
    PROVE  /\ LifeInv'
           /\ \A c \in Commands : status[c] \in DOMAIN After => status'[c] \in After[status[c]]
<1>. USE DEF LifeInv, After
<1>1. CASE UNCHANGED Lifecycle!lvars
  BY <1>1 DEF Lifecycle!lvars
<1>2. ASSUME NEW c \in Commands,
             \/ Lifecycle!Propose(c) \/ Lifecycle!Take(c) \/ Lifecycle!Withdraw(c) \/ Lifecycle!GiveUp(c)
             \/ Lifecycle!Finish(c) \/ Lifecycle!Forget(c) \/ Lifecycle!SendOnce(c)
      PROVE  /\ LifeInv'
             /\ \A d \in Commands : status[d] \in DOMAIN After => status'[d] \in After[status[d]]
  <2>1. CASE Lifecycle!Propose(c)
    BY <2>1, MoveOfOne DEF Lifecycle!Propose
  <2>2. CASE Lifecycle!Take(c)
    BY <2>2, MoveOfOne DEF Lifecycle!Take
  <2>3. CASE Lifecycle!Withdraw(c)
    BY <2>3, MoveOfOne DEF Lifecycle!Withdraw, Lifecycle!Withdrawn
  <2>4. CASE Lifecycle!GiveUp(c)
    BY <2>4, MoveOfOne DEF Lifecycle!GiveUp
  <2>5. CASE Lifecycle!Finish(c)
    BY <2>5, MoveOfOne DEF Lifecycle!Finish
  <2>6. CASE Lifecycle!Forget(c)
    BY <2>6, MoveOfOne DEF Lifecycle!Forget, Lifecycle!Lives
  <2>7. CASE Lifecycle!SendOnce(c)
    BY <2>7 DEF Lifecycle!SendOnce
  <2>8. QED
    BY <1>2, <2>1, <2>2, <2>3, <2>4, <2>5, <2>6, <2>7
<1>3. QED
  BY <1>1, <1>2 DEF Lifecycle!LNext

(* What is over stays over: a withdrawn command is never taken up again, though *)
(* update_status would overwrite CORRECTION_REQUESTED; one that ran, or failed, *)
(* or has left Redis, never runs again; and what was executed was asked for     *)
(* once (store.py, executor.py). It follows from the refinement.                *)
THEOREM OverStaysOver == Spec => []LifeInv /\ OverIsOver
<1>1. Lifecycle!LInit => LifeInv
  BY DEF Lifecycle!LInit, LifeInv
<1>2. TypeOK => status \in [Commands -> Stored] /\ posts \in [Commands -> Nat]
  BY Parts DEF StoreTyped, ErpTyped
<1>3. TypeOK /\ LifeInv /\ [Lifecycle!LNext]_(Lifecycle!lvars) => LifeInv'
  BY <1>2, LifeKeeps
<1>4. TypeOK /\ LifeInv /\ [Lifecycle!LNext]_(Lifecycle!lvars)
        => [\A c \in Commands : status[c] \in DOMAIN After => status'[c] \in After[status[c]]]_<<status, posts>>
  BY <1>2, LifeKeeps
<1>5. QED
  BY <1>1, <1>3, <1>4, Refinement, TypeCorrect, PTL DEF ImplementsLifecycle, Lifecycle!LSpec, OverIsOver

-----------------------------------------------------------------------------
(***************************************************************************)
(* The program as it is written: log_from_context does not take the        *)
(* arguments the executor passes, so that every call raises.               *)
(***************************************************************************)

WiredAsWritten == \A w \in Wirings : ~w.audited

\* What a press is answered: that it was refused, or nothing.
Refusals == {"none", "unauthorized", "not_found", "forbidden", "invalid_state"}

Unexecuted ==
    /\ posts = [c \in Commands |-> 0] /\ created = [c \in Commands |-> 0] /\ adrift = {}
    /\ \A c \in Commands : status[c] # "EXECUTED"

WrittenInv ==
    /\ Unexecuted
    /\ \A p \in Presses : pc[p] \notin Executing \ {"confirmed"} /\ {answer[p], told[p]} \subseteq Refusals

(* Every step keeps it: the audit of the confirmation stands before the         *)
(* request, that of a withdrawal before its answer.                             *)
LEMMA WrittenInductive ==
    ASSUME WiredAsWritten, ConstantsAssumption, TypeOK, WrittenInv, [Next]_vars PROVE WrittenInv'
<1>. USE DEF storeVars, erpVars, requestVars, fixedVars
<1>. StoreTyped /\ ErpTyped /\ WorldTyped /\ RequestTyped
  BY Parts
<1>. ~wiring.audited
  BY DEF WorldTyped, WiredAsWritten
<1>. USE DEF StoreTyped, RequestTyped, WrittenInv, Unexecuted
<1>1. CASE UNCHANGED vars
  BY <1>1 DEF vars
<1>2. ASSUME NEW p \in Presses, Delivery(p) PROVE WrittenInv'
  BY <1>2 DEF Delivery, PressButton, Deliver, DeliverDuplicate, KeyExpires, Executing
<1>3. ASSUME NEW p \in Presses, Request(p) PROVE WrittenInv'
  <2>1. Cmd(p) \in Commands
    BY DEF Cmd, WorldTyped
  <2>. USE <2>1 DEF Executing, Goto, Answer, Finished, Raise, AuditThenAnswer, SetStatus, Refusals
  <2>2. CASE AskDolibarr(p) \/ ResolveUser(p) \/ RefuseUser(p) \/ ResolverRaises(p)
    BY <2>2 DEF AskDolibarr, ResolveUser, RefuseUser, ResolverRaises
  <2>3. CASE ConfirmTaken(p)
    BY <2>3 DEF ConfirmTaken
  <2>4. CASE ConfirmRefused(p)
    BY <2>4 DEF ConfirmRefused, Refusal
  <2>5. CASE NoHandler(p) \/ PermissionRevoked(p) \/ AuditConfirmRaises(p)
    BY <2>5 DEF NoHandler, PermissionRevoked, AuditConfirmRaises
  <2>6. ~NoIdentity(p) /\ ~SendRequest(p)
    BY DEF NoIdentity, SendRequest, ReadyToExecute
  <2>7. /\ ~DolibarrCreates(p) /\ ~AnswerOk(p) /\ ~AnswerError(p) /\ ~AnswerConflict(p) /\ ~RecordResult(p)
        /\ ~SearchFinds(p) /\ ~SearchFindsNothing(p) /\ ~SearchRaises(p)
    BY DEF DolibarrCreates, AnswerOk, AnswerError, AnswerConflict, RecordResult, SearchFinds,
       SearchFindsNothing, SearchRaises
  <2>8. CASE Cancel(p) \/ Correct(p)
    BY <2>8 DEF Cancel, Correct
  <2>9. CASE WithdrawRefused(p)
    BY <2>9 DEF WithdrawRefused, Refusal
  <2>10. CASE ShowAnswer(p) \/ Acknowledge(p) \/ TelegramFails(p)
    BY <2>10 DEF ShowAnswer, Acknowledge, TelegramFails
  <2>11. QED
    BY <1>3, <2>2, <2>3, <2>4, <2>5, <2>6, <2>7, <2>8, <2>9, <2>10 DEF Request, Execution
<1>4. ASSUME NEW c \in Commands, Store(c) PROVE WrittenInv'
  BY <1>4 DEF Store, PreviewCommand, IngestDocument, Expire, TtlRemoves, LateCreation
<1>5. ASSUME NEW u \in Users, ChangeAccess(u) PROVE WrittenInv'
  BY <1>5 DEF ChangeAccess
<1>6. CASE Crash
  BY <1>6 DEF Crash, Executing, Refusals
<1>7. QED
  BY <1>1, <1>2, <1>3, <1>4, <1>5, <1>6 DEF Next

(* As the program is written, no command ever reaches Dolibarr, whatever is     *)
(* pressed, repeated or changed, and nobody is told anything but a refusal, not *)
(* even of what was cancelled (executor.py, log_from_context of audit.py).      *)
THEOREM NothingRunsAsWritten ==
    ASSUME WiredAsWritten
    PROVE  Spec => [](Unexecuted /\ \A p \in Presses : told[p] \in Refusals)
<1>1. Init => WrittenInv
  BY DEF Init, WrittenInv, Unexecuted, Refusals, Executing
<1>2. TypeOK /\ WrittenInv /\ [Next]_vars => WrittenInv'
  BY WrittenInductive, ConstantsAssumption, WiredAsWritten
<1>3. WrittenInv => Unexecuted /\ \A p \in Presses : told[p] \in Refusals
  BY DEF WrittenInv
<1>4. QED
  BY <1>1, <1>2, <1>3, TypeCorrect, PTL DEF Spec

=============================================================================
