-------------------------- MODULE CommandExecution --------------------------
(***************************************************************************)
(* The command layer of Hermes: previews kept in Redis                     *)
(* (commands/store.py), the executor that confirms, cancels, corrects and  *)
(* executes them (commands/executor.py), the callback endpoint that runs   *)
(* one request per press of an inline button (main.py, commands/           *)
(* telegram.py), and their environment: Telegram, which redelivers a       *)
(* callback until it gets a 200, Dolibarr, which may apply a request whose *)
(* answer is lost, administrators who change a user's access, and crashes  *)
(* of the single Hermes worker.                                            *)
(*                                                                         *)
(* A request is a program counter pc[p] over the points where the code     *)
(* awaits or where a crash leaves a distinguishable state; a store         *)
(* operation is one step (WATCH/MULTI/EXEC).                               *)
(***************************************************************************)
EXTENDS Naturals, FiniteSets

CONSTANTS
    Commands,          \* command ids
    Users,             \* Telegram users of the instance
    Presses,           \* callback query ids, one per press of a button
    Handled,           \* commands whose type has a registered handler
    Invoices,          \* CREATE_SUPPLIER_INVOICE commands, stored by the webhook
    Guarded,           \* commands whose handler declares a required_permission
    Wirings,           \* the wirings under which the program may have been started
    Levels,            \* bound: the access levels users take in an instance
    MaxCrashes         \* bound: crashes of the worker

ASSUME ConstantsAssumption ==
    /\ Handled \subseteq Commands
    /\ Invoices \subseteq Commands
    /\ Guarded \subseteq Commands
    /\ Wirings \subseteq [injected : BOOLEAN, audited : BOOLEAN, faulty : BOOLEAN]
    /\ Levels \subseteq {"deleted", "disabled", "barred", "basic", "full"}
    /\ MaxCrashes \in Nat

VARIABLES
    status,   \* status[c]: CommandStatus in Redis; NONE before, GONE after the key
    owner,    \* owner[c]: telegram_user_id of the preview, NoUser before
    result,   \* result[c]: what the stored result of an EXECUTED command is about
    late,     \* commands whose expires_at is in the past
    posts,    \* posts[c]: create requests sent to Dolibarr for c
    created,  \* created[c]: resources Dolibarr created for c
    adrift,   \* commands whose request is on the wire with nobody waiting for it
    access,   \* access[u]: what the identity store and Dolibarr grant u now; "barred"
              \* is an enabled row without an API key, or with one Dolibarr rejects
    press,    \* press[p]: the button pressed, on which command, by whom
    wiring,   \* injected: get_user_context receives a CompanyContext; audited: log_from_context
              \* accepts the executor's id arguments; faulty: the search after a 409 may fail
    queue,    \* queue[p]: whether Telegram still has to deliver p
    key,      \* key[p]: the Redis key telegram:callback:{p}
    pc,       \* pc[p]: where the request of p is
    seen,     \* seen[p]: the access the request resolved
    answer,   \* answer[p]: the text the request is about to show
    told,     \* told[p]: the last text shown in the chat for p
    crashes   \* crashes of the worker so far

vars == <<status, owner, result, late, posts, created, adrift, access,
          press, wiring, queue, key, pc, seen, answer, told, crashes>>

storeVars   == <<status, owner, result, late>>
erpVars     == <<posts, created, adrift>>
requestVars == <<key, pc, seen, answer, told>>
fixedVars   == <<press, wiring>>

NoUser    == "nobody"
Terminal  == {"EXECUTED", "CANCELLED", "EXPIRED", "FAILED"}
Absent    == {"NONE", "GONE"}
Statuses  == {"PENDING", "CONFIRMED", "CORRECTION_REQUESTED"} \cup Terminal \cup Absent
Usable    == {"basic", "full"}
Ops       == {"confirm", "cancel", "correct"}
Outcomes  == {"none", "ok", "failed", "existing"}
Answers   == {"none", "unauthorized", "not_found", "forbidden", "invalid_state",
              "already", "revoked", "error", "created", "failed",
              "cancelled", "corrected"}

\* Answers that say the command did not and will not reach Dolibarr.
NotRun    == {"cancelled", "corrected", "revoked", "error"}

\* Points of the request between store.confirm and the write of its outcome.
Executing == {"confirmed", "posting", "created", "ok", "failed", "searching"}
Points    == {"idle", "resolving", "asking", "resolved", "answering", "acknowledging"}
                \cup Executing

-----------------------------------------------------------------------------
Init ==
    /\ status  = [c \in Commands |-> "NONE"]
    /\ owner   = [c \in Commands |-> NoUser]
    /\ result  = [c \in Commands |-> "none"]
    /\ late    = {}
    /\ posts   = [c \in Commands |-> 0]
    /\ created = [c \in Commands |-> 0]
    /\ adrift  = {}
    /\ access  \in [Users -> Levels]
    /\ press   \in [Presses -> [cmd : Commands, by : Users, op : Ops]]
    /\ wiring  \in Wirings
    /\ queue   = [p \in Presses |-> "unsent"]
    /\ key     = [p \in Presses |-> "absent"]
    /\ pc      = [p \in Presses |-> "idle"]
    /\ seen    = [p \in Presses |-> "none"]
    /\ answer  = [p \in Presses |-> "none"]
    /\ told    = [p \in Presses |-> "none"]
    /\ crashes = 0

\* The command a press is about.
Cmd(p) == press[p].cmd

\* PendingCommandStore.update_status: refused when the key is missing or the
\* status terminal, any other status is overwritten.
Open(c) == status[c] \notin Terminal \cup Absent

SetStatus(c, s) ==
    status' = [status EXCEPT ![c] = IF Open(c) THEN s ELSE @]

SetResult(c, r) ==
    result' = [result EXCEPT ![c] = IF Open(c) THEN r ELSE @]

\* The request goes on to another point.
Goto(p, point) ==
    /\ pc' = [pc EXCEPT ![p] = point]
    /\ UNCHANGED <<key, seen, answer, told>>

\* The handler of the callback has its text and is about to edit the message.
Answer(p, text) ==
    /\ pc' = [pc EXCEPT ![p] = "answering"]
    /\ answer' = [answer EXCEPT ![p] = text]
    /\ UNCHANGED <<key, seen, told>>

\* The request is over and its local state with it.
Finished(p) ==
    /\ pc'     = [pc EXCEPT ![p] = "idle"]
    /\ seen'   = [seen EXCEPT ![p] = "none"]
    /\ answer' = [answer EXCEPT ![p] = "none"]

\* The except clause of telegram_callback: delete the key and answer 500, so
\* that Telegram delivers the callback again.
Raise(p) ==
    /\ Finished(p)
    /\ key' = [key EXCEPT ![p] = "absent"]
    /\ UNCHANGED told

\* The answer, unless the audit call made just before raises TypeError.
AuditThenAnswer(p, text) ==
    \/ wiring.audited /\ Answer(p, text)
    \/ ~wiring.audited /\ Raise(p)

-----------------------------------------------------------------------------
(* Previews. *)

\* CommandExecutor.preview: handler, permission, then store.create.
PreviewCommand(c, u) ==
    /\ c \in Handled \ Invoices
    /\ status[c] = "NONE"
    /\ access[u] \in Usable
    /\ c \in Guarded => access[u] = "full"
    /\ status' = [status EXCEPT ![c] = "PENDING"]
    /\ owner'  = [owner EXCEPT ![c] = u]
    /\ UNCHANGED <<result, late, erpVars, access, fixedVars, queue, requestVars, crashes>>

\* The document branch of telegram_webhook stores the pending command itself
\* and never asks the registry for a handler.
IngestDocument(c, u) ==
    /\ c \in Invoices
    /\ status[c] = "NONE"
    /\ access[u] \in Usable
    /\ status' = [status EXCEPT ![c] = "PENDING"]
    /\ owner'  = [owner EXCEPT ![c] = u]
    /\ UNCHANGED <<result, late, erpVars, access, fixedVars, queue, requestVars, crashes>>

-----------------------------------------------------------------------------
(* Delivery of a callback. *)

\* Somebody in the chat presses a button under a preview.
PressButton(p) ==
    /\ queue[p] = "unsent"
    /\ status[Cmd(p)] # "NONE"
    /\ queue' = [queue EXCEPT ![p] = "queued"]
    /\ UNCHANGED <<storeVars, erpVars, access, fixedVars, requestVars, crashes>>

\* SET NX EX succeeds: this request processes the callback.
Deliver(p) ==
    /\ queue[p] = "queued"
    /\ key[p] = "absent"
    /\ key' = [key EXCEPT ![p] = "processing"]
    /\ pc'  = [pc EXCEPT ![p] = "resolving"]
    /\ UNCHANGED <<storeVars, erpVars, access, fixedVars, queue, seen, answer, told, crashes>>

\* Slip: a duplicate is answered with an error, so Telegram sends it again.
RejectDuplicate(p) ==
    /\ queue[p] = "queued"
    /\ key[p] # "absent"
    /\ UNCHANGED vars

\* SET NX EX fails: the redelivery is answered 200 and Telegram is done with it.
DeliverDuplicate(p) ==
    /\ queue[p] = "queued"
    /\ key[p] # "absent"
    /\ queue' = [queue EXCEPT ![p] = "acked"]
    /\ UNCHANGED <<storeVars, erpVars, access, fixedVars, requestVars, crashes>>

\* get_user_context read an enabled row and asks Dolibarr for the user.
AskDolibarr(p) ==
    /\ pc[p] = "resolving"
    /\ wiring.injected
    /\ access[press[p].by] \in Usable \cup {"barred"}
    /\ Goto(p, "asking")
    /\ UNCHANGED <<storeVars, erpVars, access, fixedVars, queue, crashes>>

\* Dolibarr confirmed the user and the groups, and the row was written back as it was
\* read: a change of it since then is undone (IdentityResolution has that write).
ResolveUser(p) ==
    /\ pc[p] = "asking"
    /\ access[press[p].by] \in Usable
    /\ pc'   = [pc EXCEPT ![p] = "resolved"]
    /\ seen' = [seen EXCEPT ![p] = access[press[p].by]]
    /\ UNCHANGED <<storeVars, erpVars, access, fixedVars, queue, key, answer, told, crashes>>

\* An HTTPException of the resolver (no row, disabled, user unknown or inactive in
\* Dolibarr, Dolibarr down) is swallowed and the user is told "No autorizado".
RefuseUser(p) ==
    /\ \/ /\ pc[p] = "resolving"
          /\ wiring.injected
          /\ access[press[p].by] \in {"deleted", "disabled"}
       \/ pc[p] = "asking"
    /\ pc'     = [pc EXCEPT ![p] = "acknowledging"]
    /\ answer' = [answer EXCEPT ![p] = "unauthorized"]
    /\ UNCHANGED <<storeVars, erpVars, access, fixedVars, queue, key, seen, told, crashes>>

\* What is no HTTPException ends the request. Without its dependency get_user_context
\* finds a Depends marker where it expects the context (AttributeError). With it, no
\* API key or a 401 or 403 of Dolibarr, a failure of the request for the groups, or
\* the update of a row deleted meanwhile: none is in its except clauses.
ResolverRaises(p) ==
    /\ \/ pc[p] = "resolving" /\ ~wiring.injected
       \/ pc[p] = "asking"
    /\ Raise(p)
    /\ UNCHANGED <<storeVars, erpVars, access, fixedVars, queue, crashes>>

-----------------------------------------------------------------------------
(* CommandExecutor.confirm. *)

\* Slip: no status check.
CanConfirmAgain(p) ==
    /\ owner[Cmd(p)] = press[p].by
    /\ status[Cmd(p)] \in {"PENDING", "CONFIRMED"}
    /\ Cmd(p) \notin late

CanConfirm(p) ==
    /\ owner[Cmd(p)] = press[p].by
    /\ status[Cmd(p)] = "PENDING"
    /\ Cmd(p) \notin late

\* store.confirm: PENDING to CONFIRMED.
ConfirmTaken(p) ==
    /\ pc[p] = "resolved"
    /\ press[p].op = "confirm"
    /\ CanConfirm(p)
    /\ status' = [status EXCEPT ![Cmd(p)] = "CONFIRMED"]
    /\ Goto(p, "confirmed")
    /\ UNCHANGED <<owner, result, late, erpVars, access, fixedVars, queue, crashes>>

\* What the executor answers to a press the store refused.
Refusal(p) ==
    CASE status[Cmd(p)] \in Absent      -> "not_found"
      [] owner[Cmd(p)] # press[p].by    -> "forbidden"
      [] OTHER                          -> "invalid_state"

ConfirmRefused(p) ==
    /\ pc[p] = "resolved"
    /\ press[p].op = "confirm"
    /\ ~CanConfirm(p)
    /\ Answer(p, IF status[Cmd(p)] = "EXECUTED" /\ owner[Cmd(p)] = press[p].by
                 THEN "already" ELSE Refusal(p))
    /\ UNCHANGED <<storeVars, erpVars, access, fixedVars, queue, crashes>>

MayRun(p) == Cmd(p) \in Guarded => seen[p] = "full"

\* registry.get_handler returned None: AttributeError outside the try, after
\* the store already says CONFIRMED.
NoHandler(p) ==
    /\ pc[p] = "confirmed"
    /\ Cmd(p) \notin Handled
    /\ Raise(p)
    /\ UNCHANGED <<storeVars, erpVars, access, fixedVars, queue, crashes>>

\* The recheck of the permission against the context this request resolved.
PermissionRevoked(p) ==
    /\ pc[p] = "confirmed"
    /\ Cmd(p) \in Handled
    /\ ~MayRun(p)
    /\ SetStatus(Cmd(p), "FAILED")
    /\ AuditThenAnswer(p, "revoked")
    /\ UNCHANGED <<owner, result, late, erpVars, access, fixedVars, queue, crashes>>

\* _audit_confirmed passes arguments log_from_context passes too: TypeError,
\* outside the try.
AuditConfirmRaises(p) ==
    /\ pc[p] = "confirmed"
    /\ Cmd(p) \in Handled
    /\ MayRun(p)
    /\ ~wiring.audited
    /\ Raise(p)
    /\ UNCHANGED <<storeVars, erpVars, access, fixedVars, queue, crashes>>

ReadyToExecute(p) ==
    /\ pc[p] = "confirmed"
    /\ Cmd(p) \in Handled
    /\ MayRun(p)
    /\ wiring.audited

\* The handler reloads the identity; without one, or without its API key, it has
\* no client.
NoIdentity(p) ==
    /\ ReadyToExecute(p)
    /\ access[press[p].by] \in {"deleted", "barred"}
    /\ SetStatus(Cmd(p), "FAILED")
    /\ Answer(p, "error")
    /\ UNCHANGED <<owner, result, late, erpVars, access, fixedVars, queue, crashes>>

\* The handler sends the create request with the user's key. IdentityStore.get
\* does not look at the enabled flag.
SendRequest(p) ==
    /\ ReadyToExecute(p)
    /\ access[press[p].by] # "deleted"
    /\ posts' = [posts EXCEPT ![Cmd(p)] = @ + 1]
    /\ Goto(p, "posting")
    /\ UNCHANGED <<storeVars, created, adrift, access, fixedVars, queue, crashes>>

DolibarrCreates(p) ==
    /\ pc[p] = "posting"
    /\ access[press[p].by] # "barred"
    /\ created' = [created EXCEPT ![Cmd(p)] = @ + 1]
    /\ Goto(p, "created")
    /\ UNCHANGED <<storeVars, posts, adrift, access, fixedVars, queue, crashes>>

AnswerOk(p) ==
    /\ pc[p] = "created"
    /\ Goto(p, "ok")
    /\ UNCHANGED <<storeVars, erpVars, access, fixedVars, queue, crashes>>

\* An error answer, a timeout or no id: the handler returns success=False. The
\* request may have been applied, be rejected, or still be on the wire.
AnswerError(p) ==
    /\ pc[p] \in {"posting", "created"}
    /\ \/ adrift' = adrift
       \/ pc[p] = "posting" /\ adrift' = adrift \cup {Cmd(p)}
    /\ Goto(p, "failed")
    /\ UNCHANGED <<storeVars, posts, created, access, fixedVars, queue, crashes>>

AnswerConflict(p) ==
    /\ pc[p] = "posting"
    /\ Goto(p, "searching")
    /\ UNCHANGED <<storeVars, erpVars, access, fixedVars, queue, crashes>>

\* Dolibarr applies a request nobody waits for any more.
LateCreation(c) ==
    /\ c \in adrift
    /\ adrift'  = adrift \ {c}
    /\ created' = [created EXCEPT ![c] = @ + 1]
    /\ UNCHANGED <<storeVars, posts, access, fixedVars, queue, requestVars, crashes>>

\* Slip: the answer does not look at the result.
RecordAsCreated(p) ==
    /\ pc[p] \in {"ok", "failed"}
    /\ SetStatus(Cmd(p), "EXECUTED")
    /\ SetResult(Cmd(p), pc[p])
    /\ Answer(p, "created")
    /\ UNCHANGED <<owner, late, erpVars, access, fixedVars, queue, crashes>>

\* execute returned a result: whatever its success flag says, the command is
\* stored EXECUTED and audited as a success.
RecordResult(p) ==
    /\ pc[p] \in {"ok", "failed"}
    /\ SetStatus(Cmd(p), "EXECUTED")
    /\ SetResult(Cmd(p), pc[p])
    /\ Answer(p, IF pc[p] = "ok" THEN "created" ELSE "failed")
    /\ UNCHANGED <<owner, late, erpVars, access, fixedVars, queue, crashes>>

\* The 409 path found the resource. Its CommandResult has no data, and
\* handle_command_callback reads result.data.get: AttributeError.
SearchFinds(p) ==
    /\ pc[p] = "searching"
    /\ SetStatus(Cmd(p), "EXECUTED")
    /\ SetResult(Cmd(p), "existing")
    /\ Raise(p)
    /\ UNCHANGED <<owner, late, erpVars, access, fixedVars, queue, crashes>>

SearchFindsNothing(p) ==
    /\ pc[p] = "searching"
    /\ SetStatus(Cmd(p), "FAILED")
    /\ Answer(p, "failed")
    /\ UNCHANGED <<owner, result, late, erpVars, access, fixedVars, queue, crashes>>

\* An error of the search is raised inside the except clause that called it,
\* where no other clause of the same try catches it.
SearchRaises(p) ==
    /\ pc[p] = "searching"
    /\ wiring.faulty
    /\ Raise(p)
    /\ UNCHANGED <<storeVars, erpVars, access, fixedVars, queue, crashes>>

-----------------------------------------------------------------------------
(* CommandExecutor.cancel and CommandExecutor.correct. *)

\* Slips: cancel and correct also take what is confirmed, or anything.
CanWithdrawConfirmed(p) ==
    /\ owner[Cmd(p)] = press[p].by
    /\ status[Cmd(p)] \in {"PENDING", "CONFIRMED"}
CanWithdrawAlways(p) == owner[Cmd(p)] = press[p].by

CanWithdraw(p) ==
    /\ owner[Cmd(p)] = press[p].by
    /\ status[Cmd(p)] = "PENDING"

Cancel(p) ==
    /\ pc[p] = "resolved"
    /\ press[p].op = "cancel"
    /\ CanWithdraw(p)
    /\ status' = [status EXCEPT ![Cmd(p)] = "CANCELLED"]
    /\ AuditThenAnswer(p, "cancelled")
    /\ UNCHANGED <<owner, result, late, erpVars, access, fixedVars, queue, crashes>>

Correct(p) ==
    /\ pc[p] = "resolved"
    /\ press[p].op = "correct"
    /\ CanWithdraw(p)
    /\ SetStatus(Cmd(p), "CORRECTION_REQUESTED")
    /\ AuditThenAnswer(p, "corrected")
    /\ UNCHANGED <<owner, result, late, erpVars, access, fixedVars, queue, crashes>>

WithdrawRefused(p) ==
    /\ pc[p] = "resolved"
    /\ press[p].op \in {"cancel", "correct"}
    /\ ~CanWithdraw(p)
    /\ Answer(p, Refusal(p))
    /\ UNCHANGED <<storeVars, erpVars, access, fixedVars, queue, crashes>>

-----------------------------------------------------------------------------
(* The end of a request. *)

ShowAnswer(p) ==
    /\ pc[p] = "answering"
    /\ pc'   = [pc EXCEPT ![p] = "acknowledging"]
    /\ told' = [told EXCEPT ![p] = answer[p]]
    /\ UNCHANGED <<storeVars, erpVars, access, fixedVars, queue, key, seen, answer, crashes>>

Acknowledge(p) ==
    /\ pc[p] = "acknowledging"
    /\ Finished(p)
    /\ key'   = [key EXCEPT ![p] = "completed"]
    /\ queue' = [queue EXCEPT ![p] = "acked"]
    /\ UNCHANGED <<storeVars, erpVars, access, fixedVars, told, crashes>>

\* edit_message_text or answer_callback_query raises.
TelegramFails(p) ==
    /\ pc[p] \in {"answering", "acknowledging"}
    /\ Raise(p)
    /\ UNCHANGED <<storeVars, erpVars, access, fixedVars, queue, crashes>>

-----------------------------------------------------------------------------
(* The environment. *)

ChangeAccess(u) ==
    /\ \E a \in Levels : access' = [access EXCEPT ![u] = a]
    /\ UNCHANGED <<storeVars, erpVars, fixedVars, queue, requestVars, crashes>>

\* expires_at passes.
Expire(c) ==
    /\ status[c] = "PENDING"
    /\ late' = late \cup {c}
    /\ UNCHANGED <<status, owner, result, erpVars, access, fixedVars, queue, requestVars, crashes>>

\* Slip: a confirmed command is written without a TTL.
TtlRemovesOpen(c) ==
    /\ status[c] \notin Absent \cup {"CONFIRMED"}
    /\ status[c] = "PENDING" => c \in late
    /\ status' = [status EXCEPT ![c] = "GONE"]
    /\ UNCHANGED <<owner, result, late, erpVars, access, fixedVars, queue, requestVars, crashes>>

\* The key leaves Redis. Its TTL is set to 24 hours by every write, far longer
\* than a request lives: never while a request executes the command.
TtlRemoves(c) ==
    /\ status[c] \notin Absent
    /\ status[c] = "PENDING" => c \in late
    /\ \A p \in Presses : Cmd(p) = c => pc[p] \notin Executing
    /\ status' = [status EXCEPT ![c] = "GONE"]
    /\ UNCHANGED <<owner, result, late, erpVars, access, fixedVars, queue, requestVars, crashes>>

\* The 24 hours of a callback key are over.
KeyExpires(p) ==
    /\ key[p] # "absent"
    /\ pc[p] = "idle"
    /\ key' = [key EXCEPT ![p] = "absent"]
    /\ UNCHANGED <<storeVars, erpVars, access, fixedVars, queue, pc, seen, answer, told, crashes>>

\* The worker dies: its requests are lost, Redis and the wire are not.
Crash ==
    /\ crashes < MaxCrashes
    /\ crashes' = crashes + 1
    /\ pc'     = [p \in Presses |-> "idle"]
    /\ seen'   = [p \in Presses |-> "none"]
    /\ answer' = [p \in Presses |-> "none"]
    /\ adrift' = adrift \cup {Cmd(p) : p \in {q \in Presses : pc[q] = "posting"}}
    /\ UNCHANGED <<storeVars, posts, created, access, fixedVars, queue, key, told>>

-----------------------------------------------------------------------------
Execution(p) ==
    \/ NoHandler(p) \/ PermissionRevoked(p) \/ AuditConfirmRaises(p)
    \/ NoIdentity(p) \/ SendRequest(p)
    \/ DolibarrCreates(p) \/ AnswerOk(p) \/ AnswerError(p) \/ AnswerConflict(p)
    \/ RecordResult(p)
    \/ SearchFinds(p) \/ SearchFindsNothing(p) \/ SearchRaises(p)

Request(p) ==
    \/ AskDolibarr(p) \/ ResolveUser(p) \/ RefuseUser(p) \/ ResolverRaises(p)
    \/ ConfirmTaken(p) \/ ConfirmRefused(p)
    \/ Execution(p)
    \/ Cancel(p) \/ Correct(p) \/ WithdrawRefused(p)
    \/ ShowAnswer(p) \/ Acknowledge(p) \/ TelegramFails(p)

Delivery(p) == PressButton(p) \/ Deliver(p) \/ DeliverDuplicate(p) \/ KeyExpires(p)

Store(c) ==
    \/ \E u \in Users : PreviewCommand(c, u) \/ IngestDocument(c, u)
    \/ Expire(c) \/ TtlRemoves(c) \/ LateCreation(c)

Next ==
    \/ \E p \in Presses : Delivery(p) \/ Request(p)
    \/ \E c \in Commands : Store(c)
    \/ \E u \in Users : ChangeAccess(u)
    \/ Crash

Spec == Init /\ [][Next]_vars

\* The event loop runs every request to its next await, and each HTTP call ends
\* (30 s timeouts).
FairRequests == Spec /\ \A p \in Presses : WF_vars(Request(p))

\* Telegram delivers again what was not answered 200; neither Telegram nor Dolibarr,
\* asked for a user it accepts, fails at every attempt; Redis drops what is past its TTL.
FairSpec ==
    /\ FairRequests
    /\ \A p \in Presses :
        /\ WF_vars(Deliver(p) \/ DeliverDuplicate(p))
        /\ SF_vars(ResolveUser(p))
        /\ SF_vars(ShowAnswer(p))
        /\ SF_vars(Acknowledge(p))
    /\ \A c \in Commands : WF_vars(TtlRemoves(c))

-----------------------------------------------------------------------------
(* Properties. *)

TypeOK ==
    /\ status  \in [Commands -> Statuses \ {"EXPIRED"}]
    /\ owner   \in [Commands -> Users \cup {NoUser}]
    /\ result  \in [Commands -> Outcomes]
    /\ late    \subseteq Commands
    /\ posts   \in [Commands -> Nat]
    /\ created \in [Commands -> Nat]
    /\ adrift  \subseteq Commands
    /\ access  \in [Users -> Levels]
    /\ press   \in [Presses -> [cmd : Commands, by : Users, op : Ops]]
    /\ wiring  \in Wirings
    /\ queue   \in [Presses -> {"unsent", "queued", "acked"}]
    /\ key     \in [Presses -> {"absent", "processing", "completed"}]
    /\ pc      \in [Presses -> Points]
    /\ seen    \in [Presses -> Usable \cup {"none"}]
    /\ answer  \in [Presses -> Answers]
    /\ told    \in [Presses -> Answers]
    /\ crashes \in 0 .. MaxCrashes

\* "Confirm mismo command 2x -> 1 sola creacion": however often the button is
\* pressed, redelivered or retried, and wherever the worker dies, Dolibarr is
\* asked once and creates at most one resource per command.
AtMostOneCreation == \A c \in Commands : posts[c] <= 1 /\ created[c] <= 1

\* Who was told that an operation is cancelled, will be corrected, or was refused
\* for lack of permission or identity is told the truth for ever: nothing was
\* sent to Dolibarr for it, and no later press will send anything.
NotRunIsTrue ==
    \A p \in Presses :
        told[p] \in NotRun => posts[Cmd(p)] = 0 /\ created[Cmd(p)] = 0

\* Who reads "creado" can find the resource, and the command will not run again.
CreatedIsTrue ==
    \A p \in Presses :
        told[p] = "created" => created[Cmd(p)] = 1 /\ status[Cmd(p)] \in {"EXECUTED", "GONE"}

\* A command only reaches Dolibarr through a press of Confirm by the user the
\* preview belongs to.
OwnerConfirmed ==
    \A c \in Commands : posts[c] > 0 =>
        \E p \in Presses :
            press[p] = [cmd |-> c, by |-> owner[c], op |-> "confirm"] /\ queue[p] # "unsent"

\* A command nobody is carrying out any more, though it is CONFIRMED: its worker
\* died, or a step outside the try of confirm raised.
Orphan(c) ==
    status[c] = "CONFIRMED" /\ \A p \in Presses : Cmd(p) = c => pc[p] \notin Executing

\* "No fallar la request principal por error de auditoria": unless the worker dies,
\* a CONFIRMED command is being executed by some request.
NoOrphanConfirmed == crashes = 0 => \A c \in Commands : ~Orphan(c)

\* What was left half way is never taken up again, by whatever is pressed, repeated
\* or changed: no request is sent for it and no outcome written, until its key is gone.
OrphansStay ==
    [][\A c \in Commands :
          Orphan(c) => posts'[c] = posts[c] /\ (Orphan(c)' \/ status'[c] = "GONE")]_vars

\* "Ya confirmado" is only said of a command whose execution succeeded.
AlreadyIsTrue ==
    \A p \in Presses : told[p] = "already" => result[Cmd(p)] \in {"ok", "existing"}

\* Every callback Telegram holds is eventually answered with a 200, unless its user
\* is one the resolver raises on at every redelivery (no key, or one Dolibarr rejects),
\* or the resolver is called without its dependency.
PressAnswered ==
    \A p \in Presses :
        queue[p] = "queued" ~>
            queue[p] = "acked" \/ access[press[p].by] = "barred" \/ ~wiring.injected

\* No confirmed command stays so for ever, whatever raises and wherever the worker
\* dies: it is executed, it fails, or its TTL, which every write sets, takes it away.
ConfirmedEnds ==
    \A c \in Commands : status[c] = "CONFIRMED" ~> status[c] \in {"EXECUTED", "FAILED", "GONE"}

\* The abstract lifecycle this module implements.
Lifecycle == INSTANCE CommandLifecycle WITH life <- status, sent <- posts

ImplementsLifecycle == Lifecycle!LSpec
=============================================================================
