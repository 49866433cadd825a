-------------------------- MODULE TelegramWebhook --------------------------
(***************************************************************************)
(* The webhook of one instance (telegram_webhook, main.py): Telegram sends *)
(* an update and sends it again until it is answered with 200; Redis holds *)
(* one key per update, set with NX while the update is processed and after *)
(* it; each request resolves its sender as IdentityResolution says and     *)
(* then answers, stores a pending command and shows its preview, or takes  *)
(* in a document.                                                          *)
(*                                                                         *)
(* A request in progress is a program counter over the awaits of the       *)
(* handler. Keys live for a day, longer than Telegram repeats an update:   *)
(* they do not expire in the model.                                        *)
(***************************************************************************)
EXTENDS IdentityResolution

CONSTANTS
    Updates,     \* updates Telegram has for the bot
    MaxFailures, \* bound: requests that end in 500
    MaxTimeouts, \* bound: answers Telegram does not wait for
    MaxCrashes   \* bound: crashes of the worker

ASSUME WebhookAssumption ==
    /\ MaxFailures \in Nat /\ MaxTimeouts \in Nat /\ MaxCrashes \in Nat
    /\ None \notin Updates
    /\ {"queued", "done"} \cap Requests = {}

Kinds == {"query", "command", "document", "other"}

VARIABLES
    update,      \* update[u]: its kind and its sender
    telegram,    \* telegram[u]: "queued", "done", or the request it waits for
    redis,       \* redis[u]: the key of the update
    step,        \* step[r]: where the handler of request r is
    serving,     \* serving[r]: the update it handles
    handled,     \* updates some request has handled to its end
    commands,    \* commands[u]: pending commands stored for the update
    stranded,    \* stranded[u]: requests that stored a command for u and then ended in 500
    interrupted, \* updates sent again before their request had answered
    failures, timeouts, crashes

hookVars == <<update, telegram, redis, step, serving, handled, commands, stranded,
              interrupted, failures, timeouts, crashes>>
vars == <<hookVars, idVars>>

bounds == <<failures, timeouts, crashes>>
effects == <<handled, commands, stranded>>

Steps == {"idle", "begun", "resolving", "acting", "sending"}

Init ==
    /\ IdentityInit
    /\ update \in [Updates -> [kind: Kinds, from: TgUsers]]
    /\ telegram    = [u \in Updates |-> "queued"]
    /\ redis       = [u \in Updates |-> "none"]
    /\ step        = [r \in Requests |-> "idle"]
    /\ serving     = [r \in Requests |-> None]
    /\ handled     = {}
    /\ commands    = [u \in Updates |-> 0]
    /\ stranded    = [u \in Updates |-> 0]
    /\ interrupted = {}
    /\ failures = 0 /\ timeouts = 0 /\ crashes = 0

-----------------------------------------------------------------------------
(* The beginning and the two ends of a request.                             *)

Kind(r)   == update[serving[r]].kind
Sender(r) == update[serving[r]].from

\* Slip: GET, then SET: the key of another request is no obstacle.
ReceiveAlways(r, u) ==
    /\ step[r] = "idle"
    /\ telegram[u] = "queued"
    /\ redis[u] # "completed"
    /\ redis' = [redis EXCEPT ![u] = "processing"]
    /\ telegram' = [telegram EXCEPT ![u] = r]
    /\ step' = [step EXCEPT ![r] = "begun"]
    /\ serving' = [serving EXCEPT ![r] = u]
    /\ UNCHANGED <<update, effects, interrupted, bounds, idVars>>

\* SET NX of the key: only who creates it handles the update; everyone else
\* answers 200 at once.
Receive(r, u) ==
    /\ step[r] = "idle"
    /\ telegram[u] = "queued"
    /\ \/ /\ redis[u] = "none"
          /\ redis' = [redis EXCEPT ![u] = "processing"]
          /\ telegram' = [telegram EXCEPT ![u] = r]
          /\ step' = [step EXCEPT ![r] = "begun"]
          /\ serving' = [serving EXCEPT ![r] = u]
       \/ /\ redis[u] # "none"
          /\ telegram' = [telegram EXCEPT ![u] = "done"]
          /\ UNCHANGED <<redis, step, serving>>
    /\ UNCHANGED <<update, effects, interrupted, bounds, idVars>>

\* Telegram hears the answer if it still waits for this request.
Answer(r, fate) ==
    telegram' = [telegram EXCEPT ![serving[r]] = IF @ = r THEN fate ELSE @]

Leave(r) ==
    /\ step' = [step EXCEPT ![r] = "idle"]
    /\ serving' = [serving EXCEPT ![r] = None]
    /\ IF pc[r] \in Outcomes THEN Finish(r) ELSE UNCHANGED idVars
    /\ UNCHANGED <<update, interrupted>>

\* The key becomes "completed", the answer is 200.
Complete(r) ==
    /\ redis' = [redis EXCEPT ![serving[r]] = "completed"]
    /\ Answer(r, "done")
    /\ handled' = handled \cup {serving[r]}
    /\ Leave(r)
    /\ UNCHANGED <<commands, bounds>>

\* Slips: the key stays; the answer is 200 all the same.
FailKeepingKey(r) ==
    /\ failures < MaxFailures
    /\ failures' = failures + 1
    /\ Answer(r, "queued")
    /\ Leave(r)
    /\ UNCHANGED <<redis, handled, commands, timeouts, crashes>>
FailSilently(r) ==
    /\ failures < MaxFailures
    /\ failures' = failures + 1
    /\ redis' = [redis EXCEPT ![serving[r]] = "none"]
    /\ Answer(r, "done")
    /\ Leave(r)
    /\ UNCHANGED <<handled, commands, timeouts, crashes>>

\* The outer except clause: the key is deleted, the answer is 500.
Fail(r) ==
    /\ failures < MaxFailures
    /\ failures' = failures + 1
    /\ redis' = [redis EXCEPT ![serving[r]] = "none"]
    /\ Answer(r, "queued")
    /\ Leave(r)
    /\ UNCHANGED <<handled, commands, timeouts, crashes>>

-----------------------------------------------------------------------------
(* The body of the handler.                                                 *)

\* An update without a message.
Ignored(r) == step[r] = "begun" /\ Kind(r) = "other" /\ Complete(r) /\ UNCHANGED stranded

StartResolving(r) ==
    /\ step[r] = "begun"
    /\ Kind(r) # "other"
    /\ Load(r, Sender(r))
    /\ step' = [step EXCEPT ![r] = "resolving"]
    /\ UNCHANGED <<update, telegram, redis, serving, effects, interrupted, bounds>>

Resolve(r) == step[r] = "resolving" /\ Resolving(r) /\ UNCHANGED hookVars

\* What resolve raises and its callers do not catch ends in 500.
ResolutionRaised(r) ==
    step[r] = "resolving" /\ pc[r] = "raised" /\ Fail(r) /\ UNCHANGED stranded

\* A stranger is told so; for a document the refusal itself may fail to be sent.
Refused(r) ==
    /\ step[r] = "resolving" /\ pc[r] = "denied"
    /\ Complete(r) \/ (Kind(r) = "document" /\ Fail(r))
    /\ UNCHANGED stranded

Admitted(r) ==
    /\ step[r] = "resolving" /\ pc[r] = "granted"
    /\ step' = [step EXCEPT ![r] = "acting"]
    /\ UNCHANGED <<update, telegram, redis, serving, effects, interrupted, bounds, idVars>>

\* A query is answered, an unsent answer does not matter; a command is refused or
\* not understood; a document is not taken in and its notice is edited. Or a call
\* raises: the interpreter, the notice, the edit of the notice.
ActionEnds(r) ==
    /\ step[r] = "acting"
    /\ Complete(r) \/ Fail(r)
    /\ UNCHANGED stranded

\* CommandExecutor.preview stores the pending command; so does the branch of the
\* documents after the ingestion.
StoreCommand(r) ==
    /\ step[r] = "acting"
    /\ Kind(r) \in {"command", "document"}
    /\ commands' = [commands EXCEPT ![serving[r]] = @ + 1]
    /\ step' = [step EXCEPT ![r] = "sending"]
    /\ UNCHANGED <<update, telegram, redis, serving, handled, stranded, interrupted, bounds, idVars>>

\* Something raises after the command was stored and reaches the outer except clause:
\* the sending of a command's preview, which Telegram may have delivered all the
\* same, or a second call inside an except clause, the audit of the error or the
\* edit of the notice of a document.
PreviewFails(r) ==
    /\ step[r] = "sending"
    /\ Fail(r)
    /\ stranded' = [stranded EXCEPT ![serving[r]] = @ + 1]

\* The preview is sent; or what raised was caught and answered, the preview of a
\* document, what follows it, or the audit row of a command.
PreviewEnds(r) == step[r] = "sending" /\ Complete(r) /\ UNCHANGED stranded

Handle(r) ==
    \/ Ignored(r) \/ StartResolving(r) \/ Resolve(r) \/ ResolutionRaised(r)
    \/ Refused(r) \/ Admitted(r) \/ ActionEnds(r) \/ StoreCommand(r)
    \/ PreviewFails(r) \/ PreviewEnds(r)

-----------------------------------------------------------------------------
(* Telegram and the worker.                                                 *)

\* Telegram gives up waiting for an answer and will send the update again; the
\* request goes on.
TimeOut(u) ==
    /\ timeouts < MaxTimeouts
    /\ telegram[u] \in Requests
    /\ telegram' = [telegram EXCEPT ![u] = "queued"]
    /\ timeouts' = timeouts + 1
    /\ interrupted' = interrupted \cup {u}
    /\ UNCHANGED <<update, redis, step, serving, effects, failures, crashes, idVars>>

\* The worker dies; the keys in Redis stay.
Crash ==
    /\ crashes < MaxCrashes
    /\ crashes' = crashes + 1
    /\ step' = [r \in Requests |-> "idle"]
    /\ serving' = [r \in Requests |-> None]
    /\ telegram' = [u \in Updates |-> IF telegram[u] \in Requests THEN "queued" ELSE telegram[u]]
    /\ interrupted' = interrupted \cup {u \in Updates : redis[u] = "processing"}
    /\ WorkerDies
    /\ UNCHANGED <<update, redis, effects, failures, timeouts>>

Next ==
    \/ \E r \in Requests, u \in Updates : Receive(r, u)
    \/ \E r \in Requests : Handle(r)
    \/ \E u \in Updates : TimeOut(u)
    \/ Crash
    \/ Operate /\ UNCHANGED hookVars

Spec == Init /\ [][Next]_vars

(* Telegram sends a queued update sooner or later, and calls end: those to    *)
(* Dolibarr and Telegram have timeouts.                                       *)
Fairness ==
    /\ \A u \in Updates : SF_vars(\E r \in Requests : Receive(r, u))
    /\ \A r \in Requests : WF_vars(Handle(r))

FairSpec == Spec /\ Fairness

-----------------------------------------------------------------------------
HookTypeOK ==
    /\ update \in [Updates -> [kind: Kinds, from: TgUsers]]
    /\ telegram \in [Updates -> {"queued", "done"} \cup Requests]
    /\ redis \in [Updates -> {"none", "processing", "completed"}]
    /\ step \in [Requests -> Steps]
    /\ serving \in [Requests -> Updates \cup {None}]
    /\ \A r \in Requests :
        /\ (step[r] = "idle") <=> (serving[r] = None)
        /\ (step[r] \in {"idle", "begun"}) => (pc[r] = "idle")
        /\ (step[r] \in {"acting", "sending"}) => (pc[r] = "granted")
    /\ handled \subseteq Updates
    /\ commands \in [Updates -> Nat]
    /\ stranded \in [Updates -> Nat]
    /\ interrupted \subseteq Updates
    /\ failures \in 0..MaxFailures /\ timeouts \in 0..MaxTimeouts /\ crashes \in 0..MaxCrashes

TypeOK == IdentityTypeOK /\ HookTypeOK

\* However often Telegram sends an update, one request at a time handles it, and
\* never one that was handled already.
OneHandler ==
    \A r \in Requests : step[r] # "idle" =>
        /\ redis[serving[r]] = "processing" /\ serving[r] \notin handled
        /\ \A q \in Requests \ {r} : serving[q] # serving[r]

\* An update leaves a second pending command only where the request that stored the
\* one before ended in 500, whether its preview reached the user or not: no time
\* limit of Telegram, no repeated update and no crash is a source of one.
SecondFollowsFailure ==
    \A u \in Updates : commands[u] <= 1 + stranded[u]

\* Telegram is told that an update is done only after it was handled, unless
\* Telegram sent it again before its request had answered.
AckedIsHandled ==
    \A u \in Updates : telegram[u] = "done" => u \in handled \cup interrupted

\* Every update is handled at last, with the same exception, if its requests do
\* not fail again and again.
HandledAtLast ==
    \A u \in Updates : <>(u \in handled \cup interrupted \/ failures = MaxFailures)

\* An update whose request fails is tried again: none is done and forgotten.
NoneForgotten ==
    \A u \in Updates : telegram[u] = "done" =>
        u \in handled \/ \E r \in Requests : serving[r] = u
=============================================================================
