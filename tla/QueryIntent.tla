---------------------------- MODULE QueryIntent ----------------------------
(***************************************************************************)
(* What Hermes takes a free text for (query_layer.py, query/). Patterns    *)
(* are tried first; a text they do not know goes to the model of the       *)
(* instance, if there is one, whose answer is JSON.                        *)
(*                                                                         *)
(* The arguments of an answer are a dictionary. Pydantic chooses their     *)
(* class without regard to the action: of the classes that take the        *)
(* dictionary, the first in the union. A dictionary is the set of its      *)
(* keys here, and a class the keys it requires and the keys it allows      *)
(* besides. The two keys for sorting, which every class of a list or a     *)
(* search has, are left out; a status is a state of an invoice, an         *)
(* integer (a "code") or any other string ("word").                        *)
(***************************************************************************)
EXTENDS Naturals, Sequences, FiniteSets

Args(required, optional) == [req |-> required, opt |-> optional]

-----------------------------------------------------------------------------
(* The classes of arguments, in the order of the union. *)

ListThirdpartiesArgs   == Args({}, {"limit", "offset", "party_type"})
SearchThirdpartiesArgs == Args({"query"}, {"party_type", "limit", "offset"})
GetThirdpartyArgs      == Args({"thirdparty_id"}, {})
CountThirdpartiesArgs  == Args({}, {"party_type"})

InvoiceDates == {"date_from", "date_to", "due_from", "due_to"}

\* Those of suppliers have the same keys and come later.
ListCustomerInvoicesArgs   == Args({}, {"limit", "offset", "status", "thirdparty_id", "thirdparty_name"} \cup InvoiceDates)
SearchCustomerInvoicesArgs == Args({"query"}, {"limit", "offset", "status", "thirdparty_id"} \cup InvoiceDates)
GetCustomerInvoiceArgs     == Args({"invoice_id"}, {})
CountCustomerInvoicesArgs  == Args({}, {"status", "thirdparty_id"} \cup InvoiceDates)
ListSupplierInvoicesArgs   == ListCustomerInvoicesArgs
SearchSupplierInvoicesArgs == SearchCustomerInvoicesArgs
GetSupplierInvoiceArgs     == GetCustomerInvoiceArgs
CountSupplierInvoicesArgs  == CountCustomerInvoicesArgs

FinancialPeriodArgs == {"period", "date_from", "date_to"}

CustomerInvoiceSummaryArgs         == Args({}, FinancialPeriodArgs \cup {"status", "word", "thirdparty_id"})
CustomerOutstandingSummaryArgs     == Args({}, FinancialPeriodArgs \cup {"status", "word"})
CustomerOutstandingByThirdpartyArgs == Args({}, FinancialPeriodArgs \cup {"status", "word", "limit"})
CustomerInvoiceSummaryByThirdpartyArgs == Args({"thirdparty_id"}, FinancialPeriodArgs \cup {"status", "word"})
SupplierInvoiceSummaryArgs          == CustomerInvoiceSummaryArgs
SupplierOutstandingSummaryArgs      == CustomerOutstandingSummaryArgs
SupplierOutstandingByThirdpartyArgs == CustomerOutstandingByThirdpartyArgs
SupplierInvoiceSummaryByThirdpartyArgs == CustomerInvoiceSummaryByThirdpartyArgs

ListProductsArgs   == Args({}, {"limit", "page", "product_type", "code"})
SearchProductsArgs == Args({"query"}, {"limit", "page", "product_type", "code"})
GetProductArgs     == Args({}, {"product_id", "ref"})
CountProductsArgs  == Args({}, {"product_type", "code"})

\* One of the two flags has to be set.
CreateThirdpartyArgs == Args({"name", "flag"}, {"vat_number", "contact"})
CreateProductArgs    == Args({"ref", "label"}, {"description", "price"})
CreateServiceArgs    == CreateProductArgs
CreateProposalArgs   == Args({"cliente", "lineas"}, {"fecha", "validez_dias", "serie", "notas_privadas"})
CreateInvoiceArgs    == Args({"cliente", "lineas"}, {"fecha", "fecha_vencimiento", "serie", "notas_privadas"})
CreateInvoiceFromProposalArgs == Args({"proposal_id"}, {"fecha", "fecha_vencimiento", "serie", "notas_privadas"})
CreateSupplierInvoiceArgs == Args({"proveedor", "lineas"}, {"fecha", "fecha_vencimiento", "serie", "notas"})
CreateOrderArgs         == Args({"cliente", "lineas"}, {"fecha", "serie", "almacen", "notas"})
CreateSupplierOrderArgs == Args({"proveedor", "lineas"}, {"fecha", "serie", "almacen", "notas"})
CreatePaymentArgs       == Args({"cliente", "importe"}, {"fecha", "cuenta_bancaria", "facturas"})
CreateCollectionArgs    == Args({"proveedor", "importe"}, {"fecha", "cuenta_bancaria", "facturas"})
CreateStockMovementArgs == Args({"tipo", "almacen_origen", "lineas"}, {"almacen_destino", "fecha", "notas"})
CreateProjectArgs       == Args({"nombre"}, {"cliente", "presupuesto", "estado"})
AddProjectTaskArgs      == Args({"project_id", "nombre"}, {"horas_estimadas"})
ImportBC3Args           == Args({"file_data", "nombre_proyecto"}, {"vincular_productos"})
ExportBC3Args           == Args({"project_id"}, {})

Union == <<
    ListThirdpartiesArgs, SearchThirdpartiesArgs, GetThirdpartyArgs, CountThirdpartiesArgs,
    ListCustomerInvoicesArgs, SearchCustomerInvoicesArgs, GetCustomerInvoiceArgs, CountCustomerInvoicesArgs,
    ListSupplierInvoicesArgs, SearchSupplierInvoicesArgs, GetSupplierInvoiceArgs, CountSupplierInvoicesArgs,
    CustomerInvoiceSummaryArgs, CustomerOutstandingSummaryArgs, CustomerOutstandingByThirdpartyArgs,
    CustomerInvoiceSummaryByThirdpartyArgs,
    SupplierInvoiceSummaryArgs, SupplierOutstandingSummaryArgs, SupplierOutstandingByThirdpartyArgs,
    SupplierInvoiceSummaryByThirdpartyArgs,
    ListProductsArgs, SearchProductsArgs, GetProductArgs, CountProductsArgs,
    CreateThirdpartyArgs, CreateProductArgs, CreateServiceArgs, CreateProposalArgs, CreateInvoiceArgs,
    CreateInvoiceFromProposalArgs, CreateSupplierInvoiceArgs, CreateOrderArgs, CreateSupplierOrderArgs,
    CreatePaymentArgs, CreateCollectionArgs, CreateStockMovementArgs, CreateProjectArgs, AddProjectTaskArgs,
    ImportBC3Args, ExportBC3Args >>

Keys(class) == class.req \cup class.opt
Takes(class, dict) == class.req \subseteq dict /\ dict \subseteq Keys(class)

\* The class of the arguments, if any class takes them.
Chosen(dict) ==
    LET fit == {i \in 1..Len(Union) : Takes(Union[i], dict)} IN
    IF fit = {} THEN {} ELSE {Union[CHOOSE i \in fit : \A j \in fit : i <= j]}

\* Dictionaries: what a class requires, with one key or with every key it allows besides.
Dicts == UNION {{c.req, Keys(c)} \cup {c.req \cup {k} : k \in c.opt} : c \in {Union[i] : i \in 1..Len(Union)}}

-----------------------------------------------------------------------------
(* The actions. "requires": keys without which an answer is refused.       *)
(* "reads": attributes the call of the tool is made of. *)

Action(family, requires, reads) == [family |-> family, requires |-> requires, reads |-> reads]
Reads(class) == Keys(class) \ {"word"}

ListThirdparties   == Action("parties", {}, Reads(ListThirdpartiesArgs))
SearchThirdparties == Action("parties", {"query"}, Reads(SearchThirdpartiesArgs))
GetThirdparty      == Action("party", {"thirdparty_id"}, {"thirdparty_id"})
CountThirdparties  == Action("count_parties", {}, {"party_type"})
ListInvoices       == Action("invoices", {}, Reads(ListCustomerInvoicesArgs))
SearchInvoices     == Action("invoices", {"query"}, Reads(SearchCustomerInvoicesArgs))
GetInvoice         == Action("invoice", {"invoice_id"}, {"invoice_id"})
CountInvoices      == Action("count_invoices", {}, Reads(CountCustomerInvoicesArgs))

\* An insight gets all the attributes, and has a class of its own for them.
Summary             == Action("insight", {}, Keys(CustomerInvoiceSummaryArgs))
Outstanding         == Action("insight", {}, Keys(CustomerOutstandingSummaryArgs))
OutstandingByParty  == Action("insight", {}, Keys(CustomerOutstandingByThirdpartyArgs))
SummaryOfParty      == Action("insight", {"thirdparty_id"}, Keys(CustomerInvoiceSummaryByThirdpartyArgs))

CreateThirdparty == Action("create", {"name"}, {})
CreateProduct    == Action("create", {"ref", "label"}, {})

\* Nothing is done for these: products, sums and the other commands.
Unsupported == Action("unsupported", {}, {})

Actions == {ListThirdparties, SearchThirdparties, GetThirdparty, CountThirdparties, ListInvoices, SearchInvoices,
            GetInvoice, CountInvoices, Summary, Outstanding, OutstandingByParty, SummaryOfParty,
            CreateThirdparty, CreateProduct, Unsupported}

\* How an intent is carried out: by its family, or not at all, because an attribute is missing or
\* (for an insight) one is too much.
Carried(action, class) ==
    CASE action.family = "insight" -> IF Keys(class) \subseteq action.reads /\ action.requires \subseteq Keys(class)
                                      THEN "insight" ELSE "raises"
      [] action.family \in {"create", "unsupported"} -> action.family
      [] OTHER -> IF action.reads \subseteq Keys(class) THEN action.family ELSE "raises"

-----------------------------------------------------------------------------
(* What the interpreters make of a text: an intent with the page it asks   *)
(* for, or what else they answer. *)

Intent(call, page) == [status |-> "matched", call |-> call, page |-> page]
Other(status)      == [status |-> status, call |-> "none", page |-> 0]

\* Texts, told apart by what the patterns find in them. "long": a command beyond the bounds of its
\* class. "zero": the id 0. "long_query": a search for more than 200 characters.
Texts == {"crea", "crea_long", "presupuesto", "cuantos", "lista", "busca", "long_query", "ver_id", "zero", "else", "blank"}

\* The commands, tried first; what their classes refuse is not caught.
ParseCommand(text) ==
    CASE text = "crea"        -> {Intent("create", 0)}
      [] text = "crea_long"   -> {Other("raises")}
      [] text = "presupuesto" -> {Intent("unsupported", 0)}
      [] OTHER                -> {}

\* The page of an offset of 0, counted from 1.
FirstPage == 1

Parse(text) ==
    CASE text = "cuantos"              -> {Intent("count_parties", 0)}
      [] text = "lista"                -> {Intent("parties", FirstPage)}
      [] text \in {"busca", "long_query"} -> {Intent("parties", FirstPage)}
      [] text = "ver_id"               -> {Intent("party", 0)}
      [] OTHER                         -> {}

\* The conversion of what the patterns found; here a query out of bounds is caught.
LegacyToStructured(text, intents) == IF text = "long_query" THEN {Other("invalid_output")} ELSE intents

Deterministic(text) ==
    IF text = "blank" THEN {Other("no_match")}
    ELSE IF ParseCommand(text) # {} THEN ParseCommand(text)
    ELSE IF Parse(text) # {} THEN LegacyToStructured(text, Parse(text))
    ELSE {Other("no_match")}

\* The model names an action and gives arguments, with those the action needs.
OfModel(a) ==
    {Intent(Carried(a, c), p) : c \in UNION {Chosen(d) : d \in {x \in Dicts : a.requires \subseteq x}},
                                p \in {FirstPage, FirstPage + 1}}

\* The model answers anything. What does not validate counts as an error of the provider.
Ollama ==
    {Other(s) : s \in {"no_match", "needs_clarification", "invalid_output", "provider_error"}}
    \cup UNION {OfModel(a) : a \in Actions}

\* A model of the instance, if one is configured and the policy is to stay local.
OllamaOf(config) == IF config.model /\ config.policy = "LOCAL_ONLY" THEN Ollama ELSE {}

\* The text is matched, or the model is asked; an error of the model becomes a question.
Interpret(text, config) ==
    LET det == Deterministic(text) IN
    IF (\E i \in det : i.status \in {"matched", "raises"}) \/ OllamaOf(config) = {} THEN det
    ELSE IF text = "blank" THEN {Other("no_match")}
    ELSE {IF i.status \in {"provider_error", "invalid_output"} THEN Other("needs_clarification") ELSE i :
              i \in OllamaOf(config)}
=============================================================================
