---------------------------- MODULE QueryReading ----------------------------
(***************************************************************************)
(* From a message to what Dolibarr answers (main.py, tools/). A message is *)
(* a command with a slash or free text. What it asks for is carried out by *)
(* a tool: those of third parties and products read with the key of the    *)
(* user, fetched when the tool runs; those of invoices with the key of the *)
(* instance, for users whose context has the role "admin".                 *)
(*                                                                         *)
(* Between the arrival, the interpretation and the request the operator    *)
(* and the administrator of Dolibarr go on working. Messages share nothing *)
(* but what they read, so that one at a time shows all of it; the updates  *)
(* they come in are in TelegramWebhook, the pages other parts of Hermes    *)
(* read in PagedReading, which runs when no message is under way.          *)
(***************************************************************************)
EXTENDS QueryIntent, PagedReading

CONSTANTS
    UserKeys,      \* keys of users of Dolibarr
    MaxHeld,       \* bound: rows that fit what a message asks for
    MaxDeliveries, \* bound: times Telegram sends a message
    MaxChanges     \* bound: changes while a message is under way

ASSUME ReadingAssumption ==
    /\ {"none", "instance"} \cap UserKeys = {}
    /\ MaxHeld \in Nat /\ MaxDeliveries \in Nat \ {0} /\ MaxChanges \in Nat

VARIABLES
    link,    \* the Telegram user's row, and the role Dolibarr's groups give him
    held,    \* rows in Dolibarr of the kind a message asks for
    msg,     \* the message
    changes

readingVars == <<link, held, msg, changes>>
vars == <<pagedVars, readingVars>>

NoLink == [on |-> FALSE, key |-> "none", role |-> "user"]
Links  == {NoLink} \cup [on : BOOLEAN, key : UserKeys \cup {"none"}, role : {"user", "admin"}]

\* Those for help, third parties, invoices of customers or suppliers, products or services.
Slashes == {"/start", "/terceros", "/facturas", "/productos"}

\* "who": the context it was received with; "key": what the request bears; "seen": rows there were
\* when it was answered; "says": the answer and its number.
NoMessage == [stage |-> "idle", text |-> "none", who |-> "none", call |-> "none", page |-> 0, key |-> "none",
              seen |-> 0, says |-> <<"none", 0>>, sent |-> 0]

Init ==
    /\ PagedInit
    /\ link = NoLink /\ held = 0 /\ changes = 0
    /\ msg = NoMessage

TypeOK ==
    /\ wrapped \in BOOLEAN /\ link \in Links /\ held \in 0..MaxHeld /\ changes \in 0..MaxChanges
    /\ msg.stage \in {"idle", "known", "called", "asked", "again", "answered"}
    /\ msg.text \in Texts \cup Slashes \cup {"none"} /\ msg.who \in {"none", "user", "admin"}
    /\ msg.key \in UserKeys \cup {"none", "instance"} /\ msg.sent \in 0..MaxDeliveries

-----------------------------------------------------------------------------
(* The message.                                                            *)

At(stage) == msg.stage = stage
Says(m, what, n) == [m EXCEPT !.stage = "answered", !.says = <<what, n>>]
Only(m) == msg' = m /\ UNCHANGED <<link, held, changes>>

\* The user's context is made of the row, if there is one that is switched on; without a key that raises.
Received(m) ==
    IF ~link.on THEN [m EXCEPT !.stage = "known", !.who = "none"]
    ELSE IF link.key = "none" THEN [m EXCEPT !.stage = "again"]
    ELSE [m EXCEPT !.stage = "known", !.who = link.role]

Receive ==
    /\ At("idle")
    /\ \E text \in Texts \cup Slashes : Only(Received([NoMessage EXCEPT !.text = text, !.sent = 1]))

\* An exception: the key of the update is deleted, the answer is 500, and Telegram sends it again.
Raised(m) == [NoMessage EXCEPT !.stage = "again", !.text = m.text, !.sent = m.sent]

SendAgain ==
    /\ At("again") /\ msg.sent < MaxDeliveries
    /\ Only(Received([NoMessage EXCEPT !.text = msg.text, !.sent = msg.sent + 1]))

Calls(m, call, page) == [m EXCEPT !.stage = "called", !.call = call, !.page = page]

\* Commands with a slash. Pages of invoices and of products are counted from 1.
ThirdpartyPage(m) == Calls(m, "parties", 0)
InvoicePage(m)    == Calls(m, "invoice_page", 1)
ProductPage(m)    == Calls(m, "products", 1)

\* All but those for help need a user.
SlashCommand ==
    /\ At("known") /\ msg.text \in Slashes
    /\ Only(IF msg.text = "/start" THEN Says(msg, "help", 0)
            ELSE IF msg.who = "none" THEN Says(msg, "refused", 0)
            ELSE CASE msg.text = "/terceros"  -> ThirdpartyPage(msg)
                   [] msg.text = "/facturas"  -> InvoicePage(msg)
                   [] msg.text = "/productos" -> ProductPage(msg))

\* Whether the instance has a model, and the policy for it.
Configs == [model : BOOLEAN, policy : {"LOCAL_ONLY", "CLOUD"}]

\* Free text. What an interpreter raises, and what the conversion of an intent into a call raises, is
\* not caught.
FreeText ==
    /\ At("known") /\ msg.text \in Texts
    /\ IF msg.who = "none" THEN Only(Says(msg, "refused", 0))
       ELSE \E config \in Configs : \E i \in Interpret(msg.text, config) :
              Only(CASE i.status = "raises" \/ i.call = "raises" -> Raised(msg)
                     [] i.status = "matched" /\ i.call # "raises" -> Calls(msg, i.call, i.page)
                     [] OTHER -> Says(msg, "not_understood", 0))

-----------------------------------------------------------------------------
(* The tools.                                                              *)

OfUser == {"parties", "party", "count_parties", "products"}

\* Authorization knows no permission of invoices: only the role "admin" is let through.
Can(who, call) == call \in {"invoices", "invoice", "invoice_page", "count_invoices", "insight"} => who = "admin"

\* Mutated: without a key of his own a user reads with the key of the instance.
ClientKeyLenient(call) == IF call \in OfUser /\ link.key # "none" THEN link.key ELSE "instance"

\* create_dolibarr_client_for_user and create_dolibarr_client. The row is read when the tool runs;
\* whether it is switched on is not asked again.
ClientKey(call) == IF call \in OfUser THEN link.key ELSE "instance"

\* execute_customer_insight and execute_supplier_insight: the list they read refuses "pagination_data",
\* and what they raise of it becomes an answer.
InsightRefused(call) == call = "insight"

\* The argument "offset" of a list of invoices is refused, dates are refused where a count has any.
Refuses(call) == call = "invoices" \/ InsightRefused(call)
MayRefuse(call) == call = "count_invoices"

\* ToolRegistry.execute_tool: a failure of any kind becomes an answer.
ExecuteTool ==
    /\ At("called") /\ msg.call \notin {"create", "unsupported"}
    /\ \/ /\ ~Can(msg.who, msg.call) \/ Refuses(msg.call) \/ MayRefuse(msg.call) \/ ClientKey(msg.call) = "none"
          /\ Only(Says(msg, "error", 0))
       \/ /\ Can(msg.who, msg.call) /\ ~Refuses(msg.call) /\ ClientKey(msg.call) # "none"
          /\ Only([msg EXCEPT !.stage = "asked", !.key = ClientKey(msg.call)])

\* A command shows its preview, and then nothing is answered; nor is it if the preview is denied or
\* fails, or if the action is not supported: the text for it is overwritten with the empty one.
Command ==
    /\ At("called") /\ msg.call \in {"create", "unsupported"}
    /\ \/ msg.call = "create" /\ Only(Says(msg, "preview", 0))
       \/ Only(Says(msg, "silence", 0))

\* The rows of a page, counted from 0; a list that is not wrapped reads as empty.
OnPage(page) ==
    IF ~wrapped \/ held <= page * PageSize THEN 0
    ELSE IF held - page * PageSize < PageSize THEN held - page * PageSize ELSE PageSize

ListThirdpartiesTool   == <<"rows", OnPage(msg.page)>>
SearchThirdpartiesTool == ListThirdpartiesTool  \* of those that fit

\* An id that does not exist is answered with an empty object, and shown as a third party without name.
GetThirdpartyTool == IF held = 0 THEN <<"blank", 0>> ELSE <<"detail", 1>>

\* Mutated: the first request, for one row, is taken for the count.
CountOfOne == IF OnPage(0) = 0 THEN <<"count", 0>> ELSE <<"count", 1>>

\* If the first request, for one row, has it, the next have an argument the client does not take.
CountThirdpartiesTool == IF OnPage(0) = 0 THEN <<"count", 0>> ELSE <<"error", 0>>

\* The rows are dictionaries, and asked for attributes.
ListProductsTool == IF OnPage(msg.page) = 0 THEN <<"rows", 0>> ELSE <<"error", 0>>

\* What was read is answered together with an attribute the parameters have not.
ListCustomerInvoicesTool == <<"error", 0>>
ListSupplierInvoicesTool == ListCustomerInvoicesTool

GetCustomerInvoiceTool == GetThirdpartyTool
GetSupplierInvoiceTool == GetCustomerInvoiceTool

\* The total of the answer's pagination.
CountCustomerInvoicesTool == <<"count", IF wrapped THEN held ELSE 0>>
CountSupplierInvoicesTool == CountCustomerInvoicesTool

Result(call) ==
    CASE call = "parties"        -> ListThirdpartiesTool
      [] call = "party"          -> GetThirdpartyTool
      [] call = "count_parties"  -> CountThirdpartiesTool
      [] call = "products"       -> ListProductsTool
      [] call = "invoice_page"   -> ListCustomerInvoicesTool
      [] call = "invoice"        -> GetCustomerInvoiceTool
      [] call = "count_invoices" -> CountCustomerInvoicesTool

\* What the tool has read is put into words; of an error, its message.
Shown(m, result) == [m EXCEPT !.stage = "answered", !.says = result, !.seen = held]

\* Dolibarr answers, refuses the key or the user, or does not answer.
Answered ==
    /\ At("asked")
    /\ \E result \in {Result(msg.call), <<"error", 0>>} :
          Only(Shown(msg, result))

\* The answer is sent, or Telegram has given up.
Over ==
    /\ At("answered") \/ (At("again") /\ msg.sent = MaxDeliveries)
    /\ msg' = NoMessage /\ changes' = 0 /\ link' = NoLink /\ held' = 0

-----------------------------------------------------------------------------
(* The operator and Dolibarr.                                              *)

Changes == changes < MaxChanges /\ changes' = changes + 1 /\ UNCHANGED msg

\* Links, unlinks, switches on or off, a key that is rotated, groups that change.
ChangeLink ==
    /\ Changes
    /\ link' \in Links \ {link}
    /\ UNCHANGED held

ChangeHeld ==
    /\ Changes
    /\ held' \in (0..MaxHeld) \ {held}
    /\ UNCHANGED link

MessageNext ==
    \/ Receive \/ SendAgain \/ SlashCommand \/ FreeText \/ ExecuteTool \/ Command \/ Answered \/ Over
    \/ ChangeLink \/ ChangeHeld

Quiet == msg = NoMessage /\ changes = 0

Next ==
    \/ reader = Unread /\ MessageNext /\ UNCHANGED pagedVars
    \/ Quiet /\ PagedNext /\ UNCHANGED readingVars

Spec == Init /\ [][Next]_vars

-----------------------------------------------------------------------------
(* Properties. *)

\* A request bears the key the user's row has at that moment, also when the row changed since the message
\* arrived, and without a row or a key there is none; the key of the instance reads invoices only, and
\* only for who was an administrator when the message arrived (execute_tool, create_dolibarr_client_for_user).
ReadsAreBacked ==
    [][msg'.stage = "asked" /\ msg.stage # "asked" =>
          \/ msg'.key = link.key /\ msg'.call \in OfUser
          \/ msg'.key = "instance" /\ msg'.call \notin OfUser /\ msg'.who = "admin"]_vars

\* What an answer says there is, there was in Dolibarr when it was read, if the server wraps its lists:
\* a count is right, and "none" is true, or true of the page that was asked for: the second, for free
\* texts and products (tools/thirdparty_tools.py, tools/product_tools.py, tools/invoices/).
AnswersAreTrue ==
    msg.stage = "answered" /\ wrapped =>
        /\ msg.says[1] = "count" => msg.says[2] = msg.seen
        /\ msg.says = <<"rows", 0>> => msg.seen <= msg.page * PageSize
        /\ msg.says[1] = "rows" => msg.says[2] <= msg.seen
=============================================================================
