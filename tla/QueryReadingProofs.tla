------------------------- MODULE QueryReadingProofs -------------------------
(***************************************************************************)
(* Proofs about QueryReading and PagedReading, for any keys, pages and     *)
(* bounds.                                                                 *)
(***************************************************************************)
EXTENDS QueryReading, FiniteSetTheorems, SequenceTheorems, WellFoundedInduction, TLAPS

-----------------------------------------------------------------------------
(***************************************************************************)
(* The message. What the interpreters make of a text is one of the calls   *)
(* there is something for, and asks for a page; a tool is asked only for   *)
(* calls it knows.                                                         *)
(***************************************************************************)

Known == {"parties", "party", "count_parties", "invoices", "invoice", "count_invoices", "insight", "create", "unsupported"}
Asked == {"parties", "party", "count_parties", "products", "invoice_page", "invoice", "count_invoices"}

Stages == {"idle", "known", "called", "asked", "again", "answered"}

Said == {"none", "help", "refused", "not_understood", "error", "preview", "silence", "rows", "count", "blank", "detail"}

Messages == [stage : Stages, text : Texts \cup Slashes \cup {"none"}, who : {"none", "user", "admin"},
             call : Known \cup Asked \cup {"none"}, page : Nat, key : UserKeys \cup {"none", "instance"}, seen : Nat,
             says : Said \X Nat, sent : 0..MaxDeliveries]

\* An intent the message can be carried on with.
Fine(i) == i.status = "matched" => i.call \in Known \cup {"raises"} /\ i.page \in Nat

LEMMA DeterministicIsFine == ASSUME NEW text, NEW i \in Deterministic(text) PROVE Fine(i)
  BY DEF Deterministic, ParseCommand, Parse, LegacyToStructured, Intent, Other, Fine, Known, FirstPage

LEMMA FamiliesAreKnown == ASSUME NEW a \in Actions PROVE a.family \in Known
  BY DEF Actions, Known, ListThirdparties, SearchThirdparties, GetThirdparty, CountThirdparties, ListInvoices,
         SearchInvoices, GetInvoice, CountInvoices, Summary, Outstanding, OutstandingByParty, SummaryOfParty,
         CreateThirdparty, CreateProduct, Unsupported, Action

LEMMA ModelIsFine == ASSUME NEW i \in Ollama PROVE Fine(i)
<1>1. CASE i \in UNION {OfModel(a) : a \in Actions}
  <2>1. PICK a \in Actions : i \in OfModel(a)
    BY <1>1
  <2>2. PICK c \in UNION {Chosen(d) : d \in {x \in Dicts : a.requires \subseteq x}}, p \in {FirstPage, FirstPage + 1} : i = Intent(Carried(a, c), p)
    BY <2>1 DEF OfModel
  <2>3. Carried(a, c) \in Known \cup {"raises"}
    <3>1. a.family \in Known
      BY FamiliesAreKnown
    <3>2. Carried(a, c) \in {a.family, "insight", "raises"}
      <4>1. CASE a.family = "insight"
        BY <4>1 DEF Carried
      <4>2. CASE a.family \in {"create", "unsupported"}
        BY <4>2 DEF Carried
      <4>3. CASE a.family \notin {"insight", "create", "unsupported"}
        BY <4>3 DEF Carried
      <4>4. QED
        BY <4>1, <4>2, <4>3
    <3>3. QED
      BY <3>1, <3>2 DEF Known
  <2>4. QED
    BY <2>2, <2>3 DEF Fine, Intent, FirstPage
<1>2. CASE i \in {Other(s) : s \in {"no_match", "needs_clarification", "invalid_output", "provider_error"}}
  BY <1>2 DEF Other, Fine
<1>3. QED
  BY <1>1, <1>2 DEF Ollama

LEMMA InterpretIsFine == ASSUME NEW text, NEW config, NEW i \in Interpret(text, config) PROVE Fine(i)
<1>1. \A j \in OllamaOf(config) : Fine(j)
  BY ModelIsFine DEF OllamaOf
<1>2. Fine(Other("no_match")) /\ Fine(Other("needs_clarification"))
  BY DEF Other, Fine
<1>3. QED
  BY <1>1, <1>2, DeterministicIsFine DEF Interpret

MessageInv ==
    /\ wrapped \in BOOLEAN /\ link \in Links /\ held \in 0..MaxHeld /\ changes \in 0..MaxChanges
    /\ msg \in Messages
    /\ At("called") => msg.call \in Known \cup Asked
    /\ At("asked") => msg.call \in Asked
    /\ AnswersAreTrue


\* What a step does to the message, if it leaves everything else alone.
Carries(m) == m \in Messages
              /\ (m.stage = "called" => m.call \in Known \cup Asked)
              /\ (m.stage = "asked" => m.call \in Asked)
              /\ (m.stage = "answered" =>
                    /\ m.says[1] = "count" => m.says[2] = m.seen
                    /\ m.says = <<"rows", 0>> => m.seen <= m.page * PageSize
                    /\ m.says[1] = "rows" => m.says[2] <= m.seen)

LEMMA OnlyKeeps == ASSUME MessageInv, wrapped' = wrapped, NEW m, Carries(m), Only(m) PROVE MessageInv'
  BY DEF MessageInv, Only, Carries, AnswersAreTrue, At

LEMMA SaysCarries == ASSUME NEW m \in Messages, NEW what \in Said \ {"count", "rows"}
                     PROVE  Carries(Says(m, what, 0))
<1>1. "answered" \in Stages /\ <<what, 0>> \in Said \X Nat
  BY DEF Stages
<1>2. Says(m, what, 0) \in Messages
  BY <1>1 DEF Says, Messages
<1>3. Says(m, what, 0).stage = "answered" /\ Says(m, what, 0).says = <<what, 0>>
  BY DEF Says, Messages
<1>4. QED
  BY <1>2, <1>3 DEF Carries


LEMMA NoMessageIsOne == NoMessage \in Messages /\ NoMessage.stage = "idle"
<1>1. "idle" \in Stages /\ <<"none", 0>> \in Said \X Nat /\ 0 \in 0..MaxDeliveries
  BY ReadingAssumption DEF Stages, Said
<1>2. QED
  BY <1>1 DEF Messages, NoMessage

LEMMA FirstMessage ==
    ASSUME NEW text \in Texts \cup Slashes \cup {"none"}, NEW n \in 0..MaxDeliveries
    PROVE  [NoMessage EXCEPT !.text = text, !.sent = n] \in Messages
  BY NoMessageIsOne DEF Messages

LEMMA StageCarries ==
    ASSUME NEW m \in Messages, NEW stage \in Stages \ {"called", "asked", "answered"}
    PROVE  Carries([m EXCEPT !.stage = stage])
<1>1. [m EXCEPT !.stage = stage] \in Messages /\ [m EXCEPT !.stage = stage].stage = stage
  BY DEF Messages
<1>2. QED
  BY <1>1 DEF Carries

LEMMA RaisedCarries == ASSUME NEW m \in Messages PROVE Carries(Raised(m))
<1> DEFINE n == [NoMessage EXCEPT !.text = m.text, !.sent = m.sent]
<1>1. n \in Messages
  BY FirstMessage DEF Messages
<1>2. Raised(m) = [n EXCEPT !.stage = "again"]
  BY <1>1 DEF Raised, NoMessage, Messages
<1> HIDE DEF n
<1>3. QED
  BY <1>1, <1>2, StageCarries DEF Stages

LEMMA ReceivedCarries == ASSUME link \in Links, NEW m \in Messages PROVE Carries(Received(m))
<1>1. link.role \in {"user", "admin"}
  BY DEF Links, NoLink
<1>2. CASE link.on /\ link.key = "none"
  BY <1>2, StageCarries DEF Received, Stages
<1>3. ASSUME NEW who \in {"none", "user", "admin"}
      PROVE  Carries([m EXCEPT !.stage = "known", !.who = who])
  <2>1. [m EXCEPT !.who = who] \in Messages
    BY DEF Messages
  <2>2. [m EXCEPT !.stage = "known", !.who = who] = [[m EXCEPT !.who = who] EXCEPT !.stage = "known"]
    BY DEF Messages
  <2>3. QED
    BY <2>1, <2>2, StageCarries DEF Stages
<1>4. QED
  BY <1>1, <1>2, <1>3 DEF Received

LEMMA CallsCarries ==
    ASSUME NEW m \in Messages, NEW call \in Known \cup Asked, NEW page \in Nat
    PROVE  Carries(Calls(m, call, page))
<1>1. "called" \in Stages
  BY DEF Stages
<1>2. Calls(m, call, page) \in Messages
  BY <1>1 DEF Calls, Messages
<1>3. Calls(m, call, page).stage = "called" /\ Calls(m, call, page).call = call
  BY DEF Calls, Messages
<1>4. QED
  BY <1>2, <1>3 DEF Carries

LEMMA OnPageBounds ==
    ASSUME held \in 0..MaxHeld, NEW page \in Nat
    PROVE  /\ OnPage(page) \in Nat /\ OnPage(page) <= held
           /\ wrapped /\ OnPage(page) = 0 => held <= page * PageSize
<1>1. page * PageSize \in Nat
  BY PagedAssumption
<1>2. QED
  BY <1>1, PagedAssumption, ReadingAssumption DEF OnPage

\* What the tools say of the rows there are.
LEMMA ResultIsTrue ==
    ASSUME held \in 0..MaxHeld, msg \in Messages, msg.call \in Asked, NEW result \in {Result(msg.call), <<"error", 0>>}
    PROVE  /\ result \in Said \X Nat
           /\ wrapped => /\ result[1] = "count" => result[2] = held
                         /\ result = <<"rows", 0>> => held <= msg.page * PageSize
                         /\ result[1] = "rows" => result[2] <= held
<1>1. msg.page \in Nat /\ held \in Nat
  BY ReadingAssumption DEF Messages
<1>2. PICK n \in Nat : n = OnPage(msg.page) /\ n <= held /\ (wrapped /\ n = 0 => held <= msg.page * PageSize)
  BY <1>1, OnPageBounds
<1>3. PICK z \in Nat : z = OnPage(0) /\ z <= held /\ (wrapped /\ z = 0 => held <= 0)
  BY <1>1, OnPageBounds, PagedAssumption
<1>4. CASE msg.call = "parties"
  BY <1>1, <1>2, <1>4 DEF Result, ListThirdpartiesTool, Said
<1>5. CASE msg.call \in {"party", "invoice", "invoice_page"}
  BY <1>1, <1>5 DEF Result, GetThirdpartyTool, GetCustomerInvoiceTool, ListCustomerInvoicesTool, Said
<1>6. CASE msg.call = "count_parties"
  BY <1>1, <1>3, <1>6 DEF Result, CountThirdpartiesTool, Said
<1>7. CASE msg.call = "products"
  BY <1>1, <1>2, <1>7 DEF Result, ListProductsTool, Said
<1>8. CASE msg.call = "count_invoices"
  BY <1>1, <1>8 DEF Result, CountCustomerInvoicesTool, Said
<1>9. QED
  BY <1>4, <1>5, <1>6, <1>7, <1>8 DEF Asked

\* A step of the message.
LEMMA MessageInductive == ASSUME MessageInv, wrapped' = wrapped, MessageNext PROVE MessageInv'
<1>. msg \in Messages /\ link \in Links /\ held \in 0..MaxHeld
  BY DEF MessageInv
<1>1. CASE Receive
  <2>1. PICK text \in Texts \cup Slashes : Only(Received([NoMessage EXCEPT !.text = text, !.sent = 1]))
    BY <1>1 DEF Receive
  <2>2. [NoMessage EXCEPT !.text = text, !.sent = 1] \in Messages
    <3>1. 1 \in 0..MaxDeliveries
      BY ReadingAssumption
    <3>2. QED
      BY <3>1, FirstMessage
  <2>3. QED
    BY <2>1, <2>2, ReceivedCarries, OnlyKeeps
<1>2. CASE SendAgain
  <2>1. Only(Received([NoMessage EXCEPT !.text = msg.text, !.sent = msg.sent + 1]))
    BY <1>2 DEF SendAgain
  <2>2. msg.text \in Texts \cup Slashes \cup {"none"} /\ msg.sent + 1 \in 0..MaxDeliveries
    BY <1>2, ReadingAssumption DEF Messages, SendAgain
  <2>3. [NoMessage EXCEPT !.text = msg.text, !.sent = msg.sent + 1] \in Messages
    BY <2>2, FirstMessage
  <2>4. QED
    BY <2>1, <2>3, ReceivedCarries, OnlyKeeps
<1>3. CASE SlashCommand
  <2>1. /\ Carries(Says(msg, "help", 0)) /\ Carries(Says(msg, "refused", 0))
        /\ Carries(ThirdpartyPage(msg)) /\ Carries(InvoicePage(msg)) /\ Carries(ProductPage(msg))
    BY SaysCarries, CallsCarries DEF Said, ThirdpartyPage, InvoicePage, ProductPage, Known, Asked
  <2>2. PICK m \in {Says(msg, "help", 0), Says(msg, "refused", 0), ThirdpartyPage(msg), InvoicePage(msg), ProductPage(msg)} :
            Only(m)
    BY <1>3 DEF SlashCommand, Slashes
  <2>3. QED
    BY <2>1, <2>2, OnlyKeeps
<1>4. CASE FreeText
  <2>1. Carries(Says(msg, "refused", 0)) /\ Carries(Says(msg, "not_understood", 0)) /\ Carries(Raised(msg))
    BY SaysCarries, RaisedCarries DEF Said
  <2>2. CASE Only(Says(msg, "refused", 0))
    BY <2>1, <2>2, OnlyKeeps
  <2>3. ASSUME NEW config \in Configs, NEW i \in Interpret(msg.text, config),
               Only(CASE i.status = "raises" \/ i.call = "raises" -> Raised(msg)
                      [] i.status = "matched" /\ i.call # "raises" -> Calls(msg, i.call, i.page)
                      [] OTHER -> Says(msg, "not_understood", 0))
        PROVE  MessageInv'
    <3>1. i.status = "matched" /\ i.call # "raises" => Carries(Calls(msg, i.call, i.page))
      BY InterpretIsFine, CallsCarries DEF Fine
    <3>2. CASE i.status = "raises" \/ i.call = "raises"
      BY <2>1, <2>3, <3>2, OnlyKeeps
    <3>3. CASE i.status = "matched" /\ i.call # "raises"
      BY <2>3, <3>1, <3>3, OnlyKeeps
    <3>4. CASE ~(i.status = "raises" \/ i.call = "raises") /\ ~(i.status = "matched" /\ i.call # "raises")
      BY <2>1, <2>3, <3>4, OnlyKeeps
    <3>5. QED
      BY <3>2, <3>3, <3>4
  <2>4. QED
    BY <1>4, <2>2, <2>3 DEF FreeText
<1>5. CASE ExecuteTool
  <2>1. CASE Only(Says(msg, "error", 0))
    BY <2>1, SaysCarries, OnlyKeeps DEF Said
  <2>2. CASE /\ Can(msg.who, msg.call) /\ ~Refuses(msg.call) /\ ClientKey(msg.call) # "none"
             /\ Only([msg EXCEPT !.stage = "asked", !.key = ClientKey(msg.call)])
    <3> DEFINE m == [msg EXCEPT !.stage = "asked", !.key = ClientKey(msg.call)]
    <3>1. msg.call \in Asked
      BY <1>5, <2>2 DEF ExecuteTool, MessageInv, Known, Asked, Refuses, InsightRefused
    <3>2. ClientKey(msg.call) \in UserKeys \cup {"none", "instance"} /\ "asked" \in Stages
      BY DEF ClientKey, Links, NoLink, Stages
    <3>3. m \in Messages /\ m.stage = "asked" /\ m.call = msg.call
      BY <3>2 DEF Messages
    <3>4. Carries(m)
      BY <3>1, <3>3 DEF Carries
    <3>5. QED
      BY <2>2, <3>4, OnlyKeeps
  <2>3. QED
    BY <1>5, <2>1, <2>2 DEF ExecuteTool
<1>6. CASE Command
  BY <1>6, SaysCarries, OnlyKeeps DEF Command, Said
<1>7. CASE Answered
  <2>1. PICK result \in {Result(msg.call), <<"error", 0>>} : Only(Shown(msg, result))
    BY <1>7 DEF Answered
  <2>2. msg.call \in Asked
    BY <1>7 DEF Answered, MessageInv
  <2>3. /\ result \in Said \X Nat
        /\ wrapped => /\ result[1] = "count" => result[2] = held
                      /\ result = <<"rows", 0>> => held <= msg.page * PageSize
                      /\ result[1] = "rows" => result[2] <= held
    BY <2>2, ResultIsTrue
  <2>4. "answered" \in Stages /\ held \in Nat
    BY ReadingAssumption DEF Stages
  <2>5. /\ msg' \in Messages /\ msg'.stage = "answered" /\ msg'.says = result /\ msg'.seen = held /\ msg'.page = msg.page
        /\ link' = link /\ held' = held /\ changes' = changes
    BY <2>1, <2>3, <2>4 DEF Only, Shown, Messages
  <2>6. QED
    BY <2>3, <2>5 DEF MessageInv, AnswersAreTrue, At
<1>8. CASE Over
  <2>1. NoMessage \in Messages /\ NoMessage.stage = "idle"
    BY NoMessageIsOne
  <2>2. msg' = NoMessage /\ changes' = 0 /\ link' = NoLink /\ held' = 0
    BY <1>8 DEF Over
  <2>3. QED
    BY <2>1, <2>2, ReadingAssumption DEF MessageInv, AnswersAreTrue, At, Links
<1>9. CASE ChangeLink
  BY <1>9, ReadingAssumption DEF ChangeLink, Changes, MessageInv, AnswersAreTrue, At
<1>10. CASE ChangeHeld
  BY <1>10, ReadingAssumption DEF ChangeHeld, Changes, MessageInv, AnswersAreTrue, At
<1>11. QED
  BY <1>1, <1>2, <1>3, <1>4, <1>5, <1>6, <1>7, <1>8, <1>9, <1>10 DEF MessageNext

LEMMA PagesKeepLists == ASSUME PagedNext PROVE wrapped' = wrapped
  BY DEF PagedNext, Begin, Find, ReadInvoices, SearchInvoice, Insert, Delete, Edits, Close

LEMMA MessageInvariant == Spec => []MessageInv
<1>1. Init => MessageInv
  BY NoMessageIsOne, ReadingAssumption DEF Init, PagedInit, MessageInv, AnswersAreTrue, At, Links
<1>2. ASSUME MessageInv, [Next]_vars PROVE MessageInv'
  <2>1. CASE UNCHANGED <<wrapped, readingVars>>
    BY <1>2, <2>1 DEF MessageInv, AnswersAreTrue, At, readingVars
  <2>2. CASE MessageNext /\ UNCHANGED pagedVars
    BY <1>2, <2>2, MessageInductive DEF pagedVars
  <2>3. QED
    BY <1>2, <2>1, <2>2, PagesKeepLists DEF Next, vars, pagedVars
<1>3. QED
  BY <1>1, <1>2, PTL DEF Spec

(* The rows, the link and the message have their types.                        *)
THEOREM TypeCorrect == Spec => []TypeOK
<1>1. MessageInv => TypeOK
  BY DEF MessageInv, TypeOK, Messages, Stages
<1>2. QED
  BY <1>1, MessageInvariant, PTL

(* What an answer says there is, there was, for tools of any page size and     *)
(* lists of any length that change at any moment (tools/).                     *)
THEOREM AnswersHold == Spec => []AnswersAreTrue
<1>1. MessageInv => AnswersAreTrue
  BY DEF MessageInv
<1>2. QED
  BY <1>1, MessageInvariant, PTL

LEMMA ReceivedAsksNothing ==
    ASSUME NEW text, NEW n PROVE Received([NoMessage EXCEPT !.text = text, !.sent = n]).stage # "asked"
  BY DEF Received, NoMessage

(* A request bears the key of the row as it is, or that of the instance for an *)
(* administrator, whatever the operator changed since the message arrived      *)
(* (create_dolibarr_client_for_user, create_dolibarr_client).                  *)
THEOREM KeysAreTheirs == Spec => ReadsAreBacked
<1> DEFINE Backed == msg'.stage = "asked" /\ msg.stage # "asked" =>
                        \/ msg'.key = link.key /\ msg'.call \in OfUser
                        \/ msg'.key = "instance" /\ msg'.call \notin OfUser /\ msg'.who = "admin"
<1>1. ASSUME MessageInv, [Next]_vars PROVE Backed
  <2>. msg \in Messages /\ link \in Links
    BY <1>1 DEF MessageInv
  <2>1. SUFFICES ASSUME msg'.stage = "asked", msg.stage # "asked"
                 PROVE  \/ msg'.key = link.key /\ msg'.call \in OfUser
                        \/ msg'.key = "instance" /\ msg'.call \notin OfUser /\ msg'.who = "admin"
    OBVIOUS
  <2>2. \/ Receive \/ SendAgain \/ SlashCommand \/ FreeText \/ ExecuteTool \/ Command \/ Answered \/ Over
    BY <1>1, <2>1 DEF Next, vars, readingVars, MessageNext, ChangeLink, ChangeHeld, Changes
  <2>3. CASE ExecuteTool
    <3>1. Only([msg EXCEPT !.stage = "asked", !.key = ClientKey(msg.call)]) /\ Can(msg.who, msg.call) /\ ~Refuses(msg.call)
      BY <2>1, <2>3 DEF ExecuteTool, Only, Says, Messages
    <3>2. msg'.key = ClientKey(msg.call) /\ msg'.call = msg.call /\ msg'.who = msg.who
      BY <3>1 DEF Only, Messages
    <3>3. msg.call \in Asked
      BY <1>1, <2>3, <3>1 DEF ExecuteTool, MessageInv, Known, Asked, Refuses, InsightRefused
    <3>4. QED
      BY <3>1, <3>2, <3>3 DEF ClientKey, Can, OfUser, Asked
  <2>4. ~(Receive \/ SendAgain)
    BY <2>1, ReceivedAsksNothing DEF Receive, SendAgain, Only
  <2>5. ~(SlashCommand \/ FreeText \/ Command)
    BY <2>1 DEF SlashCommand, FreeText, Command, Only, Says, Raised, Calls, ThirdpartyPage, InvoicePage, ProductPage,
                NoMessage, Messages, Slashes
  <2>6. ~(Answered \/ Over)
    <3>1. ASSUME NEW result PROVE Shown(msg, result).stage = "answered"
      BY DEF Shown, Messages
    <3>2. QED
      BY <2>1, <3>1, NoMessageIsOne DEF Answered, Over, Only
  <2>7. QED
    BY <2>2, <2>3, <2>4, <2>5, <2>6
<1>2. QED
  BY <1>1, MessageInvariant, PTL DEF Spec, ReadsAreBacked

-----------------------------------------------------------------------------
(***************************************************************************)
(* Sums. Total is a recursive function, which the provers do not unfold by *)
(* themselves; what it computes is shown by induction on the length, over  *)
(* the set of the lengths the fact holds for.                              *)
(***************************************************************************)

\* Induction, over a set of numbers.
LEMMA Counting ==
    ASSUME NEW S, 0 \in S, \A n \in Nat : n \in S => n + 1 \in S
    PROVE  \A n \in Nat : n \in S
<1> DEFINE T == {n \in Nat : n \notin S}
<1>1. SUFFICES ASSUME T # {} PROVE FALSE
  OBVIOUS
<1>2. PICK x \in T : \A y \in T : ~ (<<y, x>> \in OpToRel(<, Nat))
  <2>1. T \subseteq Nat
    OBVIOUS
  <2>2. QED
    BY <1>1, <2>1, NatLessThanWellFounded, WFMin, Zenon
<1>3. x \in Nat /\ x # 0 /\ x \notin S
  OBVIOUS
<1>4. x - 1 \in Nat /\ x - 1 \in T
  <2>1. x - 1 \in Nat /\ (x - 1) + 1 = x
    BY <1>3
  <2>2. QED
    BY <2>1, <1>3
<1>5. <<x - 1, x>> \in OpToRel(<, Nat)
  <2>1. x - 1 < x
    BY <1>3
  <2>2. QED
    BY <1>3, <1>4, <2>1, Zenon DEF OpToRel
<1>6. QED
  BY <1>2, <1>4, <1>5

\* g has the sums of the first amounts, up to k of them.
SumsTo(g, v, k) == g[0] = 0 /\ \A n \in 1..k : g[n] = g[n - 1] + v[n]
Sums(g, v)      == SumsTo(g, v, Len(v))
HasSums(v, k)   == \E g \in [0..k -> Int] : SumsTo(g, v, k)

LEMMA SumsExist == ASSUME NEW v \in Seq(Int) PROVE \E g \in [0..Len(v) -> Int] : Sums(g, v)
<1>1. PICK N \in Nat : N = Len(v)
  OBVIOUS
<1>2. \A n \in 1..N : v[n] \in Int
  BY <1>1
<1>3. HasSums(v, 0)
  <2>1. PICK g : g = [i \in 0..0 |-> 0]
    OBVIOUS
  <2>2. g \in [0..0 -> Int] /\ g[0] = 0
    BY <2>1
  <2>3. QED
    BY <2>2 DEF HasSums, SumsTo
<1>4. ASSUME NEW k \in Nat, HasSums(v, k), k + 1 <= N PROVE HasSums(v, k + 1)
  <2>1. PICK g \in [0..k -> Int] : SumsTo(g, v, k)
    BY <1>4 DEF HasSums
  <2>2. k + 1 \in 1..N /\ v[k + 1] \in Int
    BY <1>2, <1>4
  <2>3. PICK h : h = [i \in 0..(k + 1) |-> IF i = k + 1 THEN g[k] + v[k + 1] ELSE g[i]]
    OBVIOUS
  <2>4. h \in [0..(k + 1) -> Int]
    BY <2>1, <2>2, <2>3
  <2>5. h[0] = 0
    BY <2>1, <2>3 DEF SumsTo
  <2>6. ASSUME NEW n \in 1..(k + 1) PROVE h[n] = h[n - 1] + v[n]
    <3>1. n - 1 \in 0..k /\ h[n - 1] = g[n - 1]
      BY <2>3
    <3>2. CASE n = k + 1
      BY <2>3, <3>1, <3>2
    <3>3. CASE n \in 1..k
      BY <2>1, <2>3, <3>1, <3>3 DEF SumsTo
    <3>4. QED
      BY <3>2, <3>3
  <2>7. QED
    BY <2>4, <2>5, <2>6 DEF HasSums, SumsTo
<1> DEFINE S == {k \in Nat : k <= N => HasSums(v, k)}
<1>5. 0 \in S /\ \A k \in Nat : k \in S => k + 1 \in S
  BY <1>3, <1>4
<1>6. N \in S
  <2>1. \A n \in Nat : n \in S
    <3> HIDE DEF S
    <3>1. QED
      BY <1>5, Counting
  <2>2. QED
    BY <2>1
<1>7. QED
  BY <1>1, <1>6 DEF Sums, HasSums

\* What Total computes: the function it is defined with has those sums.
LEMMA TotalIsSum ==
    ASSUME NEW v \in Seq(Int), NEW g \in [0..Len(v) -> Int], Sums(g, v)
    PROVE  Total(v) = g[Len(v)]
<1> DEFINE Def(f) == [n \in 0..Len(v) |-> IF n = 0 THEN 0 ELSE f[n - 1] + v[n]]
           u == CHOOSE f : f = Def(f)
<1>1. PICK N \in Nat : N = Len(v)
  OBVIOUS
<1>2. g = Def(g)
  BY <1>1 DEF Sums, SumsTo
<1>3. u = Def(u)
  BY <1>2
<1>4. Total(v) = u[N]
  BY <1>1 DEF Total
<1>5. u[0] = 0 /\ \A n \in 1..N : u[n] = u[n - 1] + v[n]
  <2> HIDE DEF u
  <2>1. QED
    BY <1>1, <1>3
<1> DEFINE S == {k \in Nat : k <= N => u[k] = g[k]}
<1>6. 0 \in S
  BY <1>5 DEF Sums, SumsTo
<1>7. ASSUME NEW k \in Nat, k \in S PROVE k + 1 \in S
  <2> HIDE DEF u
  <2>1. SUFFICES ASSUME k + 1 <= N PROVE u[k + 1] = g[k + 1]
    OBVIOUS
  <2>2. k + 1 \in 1..N /\ (k + 1) - 1 = k /\ u[k] = g[k]
    BY <1>7, <1>1, <2>1
  <2>3. u[k + 1] = u[k] + v[k + 1] /\ g[k + 1] = g[k] + v[k + 1]
    BY <1>1, <1>5, <2>2 DEF Sums, SumsTo
  <2>4. QED
    BY <2>2, <2>3
<1>8. N \in S
  <2>1. \A n \in Nat : n \in S
    <3> HIDE DEF S
    <3>1. QED
      BY <1>6, <1>7, Counting
  <2>2. QED
    BY <2>1
<1>9. QED
  BY <1>1, <1>4, <1>8

LEMMA TotalHasSums ==
    ASSUME NEW v \in Seq(Int)
    PROVE  \E g \in [0..Len(v) -> Int] : Sums(g, v) /\ Total(v) = g[Len(v)] /\ Total(v) \in Int
<1>1. PICK g \in [0..Len(v) -> Int] : Sums(g, v)
  BY SumsExist
<1>2. Total(v) = g[Len(v)]
  BY <1>1, TotalIsSum
<1>3. Len(v) \in 0..Len(v)
  OBVIOUS
<1>4. QED
  BY <1>1, <1>2, <1>3

\* A list of sums is itself summed up: the sum of two lists, of a list in which one amount counts, of a
\* list with one amount more.
LEMMA TotalAdds ==
    ASSUME NEW u \in Seq(Int), NEW v \in Seq(Int), NEW w \in Seq(Int), Len(u) = Len(w), Len(v) = Len(w),
           \A n \in 1..Len(w) : w[n] = u[n] + v[n]
    PROVE  Total(w) = Total(u) + Total(v)
<1>1. PICK N \in Nat : N = Len(w)
  OBVIOUS
<1>2. PICK g \in [0..N -> Int] : SumsTo(g, u, N) /\ Total(u) = g[N]
  BY <1>1, TotalHasSums DEF Sums
<1>3. PICK h \in [0..N -> Int] : SumsTo(h, v, N) /\ Total(v) = h[N]
  BY <1>1, TotalHasSums DEF Sums
<1>4. PICK f \in [0..N -> Int] : \A n \in 0..N : f[n] = g[n] + h[n]
  <2>1. [n \in 0..N |-> g[n] + h[n]] \in [0..N -> Int]
    BY <1>2, <1>3
  <2>2. QED
    BY <2>1
<1>5. SumsTo(f, w, N)
  <2>1. f[0] = 0
    BY <1>2, <1>3, <1>4 DEF SumsTo
  <2>2. ASSUME NEW n \in 1..N PROVE f[n] = f[n - 1] + w[n]
    <3>1. n \in 0..N /\ n - 1 \in 0..N
      OBVIOUS
    <3>2. f[n] = g[n] + h[n] /\ f[n - 1] = g[n - 1] + h[n - 1]
      BY <1>4, <3>1
    <3>3. g[n] = g[n - 1] + u[n] /\ h[n] = h[n - 1] + v[n] /\ w[n] = u[n] + v[n]
      BY <1>1, <1>2, <1>3 DEF SumsTo
    <3>4. PICK a \in Int, b \in Int, c \in Int, d \in Int : a = u[n] /\ b = v[n] /\ c = g[n - 1] /\ d = h[n - 1]
      <4>1. u[n] \in Int
        BY <1>1
      <4>2. v[n] \in Int
        BY <1>1
      <4>3. g[n - 1] \in Int /\ h[n - 1] \in Int
        BY <3>1
      <4>4. QED
        BY <4>1, <4>2, <4>3
    <3>5. f[n] = (c + a) + (d + b) /\ f[n - 1] = c + d /\ w[n] = a + b
      BY <3>2, <3>3, <3>4, Zenon
    <3>6. (c + a) + (d + b) = (c + d) + (a + b)
      OBVIOUS
    <3>7. QED
      BY <3>5, <3>6, Zenon
  <2>3. QED
    BY <2>1, <2>2 DEF SumsTo
<1>6. Total(w) = f[N]
  BY <1>1, <1>4, <1>5, TotalIsSum DEF Sums
<1>7. N \in 0..N
  OBVIOUS
<1>8. QED
  BY <1>2, <1>3, <1>4, <1>6, <1>7

LEMMA TotalOfOne ==
    ASSUME NEW v \in Seq(Int), NEW k \in Nat, NEW x \in Int,
           \A n \in 1..Len(v) : v[n] = IF n = k THEN x ELSE 0
    PROVE  Total(v) = IF k \in 1..Len(v) THEN x ELSE 0
<1>1. PICK N \in Nat : N = Len(v)
  OBVIOUS
<1>2. PICK f \in [0..N -> Int] : \A n \in 0..N : f[n] = IF k \in 1..n THEN x ELSE 0
  <2>1. [n \in 0..N |-> IF k \in 1..n THEN x ELSE 0] \in [0..N -> Int]
    OBVIOUS
  <2>2. QED
    BY <2>1
<1>3. SumsTo(f, v, N)
  <2>1. f[0] = 0
    BY <1>2
  <2>2. ASSUME NEW n \in 1..N PROVE f[n] = f[n - 1] + v[n]
    <3>1. n \in 0..N /\ n - 1 \in 0..N /\ v[n] = IF n = k THEN x ELSE 0
      BY <1>1
    <3>2. (k \in 1..n) <=> (k \in 1..(n - 1) \/ n = k)
      OBVIOUS
    <3>3. n = k => k \notin 1..(n - 1)
      OBVIOUS
    <3>4. QED
      BY <1>2, <3>1, <3>2, <3>3
  <2>3. QED
    BY <2>1, <2>2 DEF SumsTo
<1>4. Total(v) = f[N]
  BY <1>1, <1>3, TotalIsSum DEF Sums
<1>5. QED
  BY <1>1, <1>2, <1>4

LEMMA TotalExtends ==
    ASSUME NEW v \in Seq(Int), NEW w \in Seq(Int), Len(w) = Len(v) + 1, \A n \in 1..Len(v) : w[n] = v[n]
    PROVE  Total(w) = Total(v) + w[Len(w)]
<1>1. PICK N \in Nat : N = Len(v) /\ N + 1 = Len(w)
  OBVIOUS
<1>2. PICK g \in [0..N -> Int] : SumsTo(g, v, N) /\ Total(v) = g[N]
  BY <1>1, TotalHasSums DEF Sums
<1>3. w[N + 1] \in Int
  BY <1>1
<1>4. PICK f \in [0..(N + 1) -> Int] : \A n \in 0..(N + 1) : f[n] = IF n = N + 1 THEN g[N] + w[N + 1] ELSE g[n]
  <2>1. [n \in 0..(N + 1) |-> IF n = N + 1 THEN g[N] + w[N + 1] ELSE g[n]] \in [0..(N + 1) -> Int]
    BY <1>3
  <2>2. QED
    BY <2>1
<1>5. SumsTo(f, w, N + 1)
  <2>1. f[0] = 0
    BY <1>2, <1>4 DEF SumsTo
  <2>2. ASSUME NEW n \in 1..(N + 1) PROVE f[n] = f[n - 1] + w[n]
    <3>1. n \in 0..(N + 1) /\ n - 1 \in 0..(N + 1) /\ f[n - 1] = g[n - 1]
      BY <1>4
    <3>2. CASE n = N + 1
      BY <1>4, <3>1, <3>2
    <3>3. CASE n \in 1..N
      BY <1>1, <1>2, <1>4, <3>1, <3>3 DEF SumsTo
    <3>4. QED
      BY <3>2, <3>3
  <2>3. QED
    BY <2>1, <2>2 DEF SumsTo
<1>6. Total(w) = f[N + 1]
  BY <1>1, <1>5, TotalIsSum DEF Sums
<1>7. QED
  BY <1>1, <1>2, <1>4, <1>6

\* The greater amounts have the greater sum.
LEMMA TotalIsMonotone ==
    ASSUME NEW u \in Seq(Int), NEW v \in Seq(Int), Len(u) = Len(v), \A n \in 1..Len(v) : u[n] <= v[n]
    PROVE  Total(u) <= Total(v)
<1>1. PICK N \in Nat : N = Len(v)
  OBVIOUS
<1>2. PICK g \in [0..N -> Int] : SumsTo(g, u, N) /\ Total(u) = g[N]
  BY <1>1, TotalHasSums DEF Sums
<1>3. PICK h \in [0..N -> Int] : SumsTo(h, v, N) /\ Total(v) = h[N]
  BY <1>1, TotalHasSums DEF Sums
<1> DEFINE S == {k \in Nat : k <= N => g[k] <= h[k]}
<1>4. 0 \in S
  BY <1>2, <1>3 DEF SumsTo
<1>5. ASSUME NEW k \in Nat, k \in S PROVE k + 1 \in S
  <2>1. SUFFICES ASSUME k + 1 <= N PROVE g[k + 1] <= h[k + 1]
    OBVIOUS
  <2>2. k \in 0..N /\ k + 1 \in 1..N /\ (k + 1) - 1 = k
    BY <2>1
  <2>3. g[k + 1] = g[k] + u[k + 1] /\ h[k + 1] = h[k] + v[k + 1] /\ u[k + 1] <= v[k + 1]
    BY <1>1, <1>2, <1>3, <2>2 DEF SumsTo
  <2>4. PICK a \in Int, b \in Int, c \in Int, d \in Int :
            a = g[k] /\ b = h[k] /\ c = u[k + 1] /\ d = v[k + 1] /\ a <= b
    <3>1. u[k + 1] \in Int
      BY <1>1, <2>2
    <3>2. v[k + 1] \in Int
      BY <1>1, <2>2
    <3>3. g[k] \in Int /\ h[k] \in Int /\ g[k] <= h[k]
      BY <1>5, <2>2
    <3>4. QED
      BY <3>1, <3>2, <3>3
  <2>5. g[k + 1] = a + c /\ h[k + 1] = b + d /\ c <= d
    BY <2>3, <2>4, Zenon
  <2>6. a + c <= b + d
    <3>1. a <= b /\ c <= d
      BY <2>4, <2>5
    <3>2. QED
      BY <3>1
  <2>7. QED
    BY <2>5, <2>6, Zenon
<1>6. \A n \in Nat : n \in S
  <2> HIDE DEF S
  <2>1. QED
    BY <1>4, <1>5, Counting
<1>7. QED
  BY <1>2, <1>3, <1>6

\* A table of amounts, summed up by its rows or by its columns.
Row(t, k, n)     == [i \in 1..n |-> t[k][i]]
Column(t, i, m)  == [k \in 1..m |-> t[k][i]]
ByRows(t, m, n)  == Total([k \in 1..m |-> Total(Row(t, k, n))])
ByCols(t, m, n)  == Total([i \in 1..n |-> Total(Column(t, i, m))])

LEMMA TotalOfTable ==
    ASSUME NEW m \in Nat, NEW n \in Nat, NEW t \in [1..m -> [1..n -> Int]]
    PROVE  ByRows(t, m, n) = ByCols(t, m, n)
<1> DEFINE S == {k \in Nat : k <= m => ByRows(t, k, n) = ByCols(t, k, n)}
<1>1. \A k \in 1..m : Row(t, k, n) \in Seq(Int) /\ Total(Row(t, k, n)) \in Int
  <2>1. \A k \in 1..m : Row(t, k, n) \in Seq(Int)
    BY DEF Row
  <2>2. QED
    BY <2>1, TotalHasSums
<1>2. \A k \in 0..m : \A i \in 1..n : /\ Column(t, i, k) \in Seq(Int) /\ Len(Column(t, i, k)) = k
                                      /\ Total(Column(t, i, k)) \in Int
  <2>1. ASSUME NEW k \in 0..m, NEW i \in 1..n PROVE Column(t, i, k) \in Seq(Int) /\ Len(Column(t, i, k)) = k
    BY DEF Column
  <2>2. QED
    BY <2>1, TotalHasSums
<1>3. ASSUME NEW k \in 0..m
      PROVE  /\ [j \in 1..k |-> Total(Row(t, j, n))] \in Seq(Int)
             /\ Len([j \in 1..k |-> Total(Row(t, j, n))]) = k
             /\ [i \in 1..n |-> Total(Column(t, i, k))] \in Seq(Int)
             /\ Len([i \in 1..n |-> Total(Column(t, i, k))]) = n
  <2>1. \A j \in 1..k : Total(Row(t, j, n)) \in Int
    BY <1>1
  <2>2. \A i \in 1..n : Total(Column(t, i, k)) \in Int
    BY <1>2
  <2>3. QED
    BY <2>1, <2>2
<1>4. 0 \in S
  <2>1. 0 \in 0..m /\ 0 \in Nat /\ 0 \in Int
    OBVIOUS
  <2>2. ByRows(t, 0, n) = 0
    <3>1. PICK r \in Seq(Int) : r = [j \in 1..0 |-> Total(Row(t, j, n))] /\ Len(r) = 0
      BY <1>3, <2>1
    <3>2. \A i \in 1..Len(r) : r[i] = IF i = 0 THEN 0 ELSE 0
      BY <3>1
    <3>3. Total(r) = 0
      BY <2>1, <3>2, TotalOfOne
    <3>4. QED
      BY <3>1, <3>3 DEF ByRows
  <2>3. \A i \in 1..n : Total(Column(t, i, 0)) = 0
    <3>1. ASSUME NEW i \in 1..n PROVE Total(Column(t, i, 0)) = 0
      <4>1. Column(t, i, 0) \in Seq(Int) /\ Len(Column(t, i, 0)) = 0
        BY <1>2, <2>1
      <4>2. QED
        BY <2>1, <4>1, TotalOfOne
    <3>2. QED
      BY <3>1
  <2>4. ByCols(t, 0, n) = 0
    <3>1. PICK c \in Seq(Int) : c = [i \in 1..n |-> Total(Column(t, i, 0))] /\ Len(c) = n
      BY <1>3, <2>1
    <3>2. \A i \in 1..Len(c) : c[i] = IF i = 0 THEN 0 ELSE 0
      BY <2>3, <3>1
    <3>3. Total(c) = 0
      BY <2>1, <3>1, <3>2, TotalOfOne
    <3>4. QED
      BY <3>1, <3>3 DEF ByCols
  <2>5. QED
    BY <2>2, <2>4
<1>5. ASSUME NEW k \in Nat, k \in S PROVE k + 1 \in S
  <2>1. SUFFICES ASSUME k + 1 <= m PROVE ByRows(t, k + 1, n) = ByCols(t, k + 1, n)
    OBVIOUS
  <2>2. k \in 0..m /\ k + 1 \in 0..m /\ k + 1 \in 1..m
    BY <2>1
  <2>3. PICK row \in Seq(Int) : row = Row(t, k + 1, n) /\ Len(row) = n /\ \A i \in 1..n : row[i] = t[k + 1][i]
    <3>1. Row(t, k + 1, n) \in Seq(Int)
      BY <1>1, <2>2
    <3>2. Len(Row(t, k + 1, n)) = n /\ \A i \in 1..n : Row(t, k + 1, n)[i] = t[k + 1][i]
      BY DEF Row
    <3>3. QED
      BY <3>1, <3>2
  <2>4. ByRows(t, k + 1, n) = ByRows(t, k, n) + Total(row)
    <3>1. PICK r \in Seq(Int) : r = [j \in 1..k |-> Total(Row(t, j, n))] /\ Len(r) = k
      BY <1>3, <2>2
    <3>2. PICK s \in Seq(Int) : s = [j \in 1..(k + 1) |-> Total(Row(t, j, n))] /\ Len(s) = k + 1
      BY <1>3, <2>2
    <3>3. (\A j \in 1..k : s[j] = r[j]) /\ s[k + 1] = Total(row)
      BY <2>3, <3>1, <3>2
    <3>4. Total(s) = Total(r) + s[k + 1]
      BY <3>1, <3>2, <3>3, TotalExtends
    <3>5. QED
      BY <3>1, <3>2, <3>3, <3>4 DEF ByRows
  <2>5. ByCols(t, k + 1, n) = ByCols(t, k, n) + Total(row)
    <3>1. PICK c \in Seq(Int) : c = [i \in 1..n |-> Total(Column(t, i, k))] /\ Len(c) = n
      BY <1>3, <2>2
    <3>2. PICK d \in Seq(Int) : d = [i \in 1..n |-> Total(Column(t, i, k + 1))] /\ Len(d) = n
      BY <1>3, <2>2
    <3>3. ASSUME NEW i \in 1..n PROVE d[i] = c[i] + row[i]
      <4>1. PICK a \in Seq(Int) : a = Column(t, i, k) /\ Len(a) = k
        BY <1>2, <2>2
      <4>2. PICK b \in Seq(Int) : b = Column(t, i, k + 1) /\ Len(b) = k + 1
        BY <1>2, <2>2
      <4>3. (\A j \in 1..k : b[j] = a[j]) /\ b[k + 1] = t[k + 1][i]
        BY <4>1, <4>2 DEF Column
      <4>4. Total(b) = Total(a) + b[k + 1]
        BY <4>1, <4>2, <4>3, TotalExtends
      <4>5. QED
        BY <2>3, <3>1, <3>2, <4>1, <4>2, <4>3, <4>4
    <3>4. Total(d) = Total(c) + Total(row)
      <4>1. Len(c) = Len(d) /\ Len(row) = Len(d) /\ \A i \in 1..Len(d) : d[i] = c[i] + row[i]
        BY <2>3, <3>1, <3>2, <3>3
      <4>2. QED
        BY <4>1, TotalAdds
    <3>5. QED
      BY <3>1, <3>2, <3>4 DEF ByCols
  <2>6. ByRows(t, k, n) = ByCols(t, k, n)
    BY <1>5, <2>2
  <2>7. QED
    BY <2>4, <2>5, <2>6
<1>6. \A k \in Nat : k \in S
  <2> HIDE DEF S
  <2>1. QED
    BY <1>4, <1>5, Counting
<1>7. QED
  BY <1>6

-----------------------------------------------------------------------------
(***************************************************************************)
(* The pages. "from" is the number of rows before the next page, "skip"    *)
(* of those before the first.                                              *)
(***************************************************************************)

Items == [id : Nat, row : Parties \cup Invoices \cup Booked]

\* A page of a list.
IsPage(list, page, from, size) ==
    /\ Len(page) = IF from >= Len(list) THEN 0 ELSE IF from + size <= Len(list) THEN size ELSE Len(list) - from
    /\ \A j \in 1..Len(page) : page[j] = list[from + j]

\* What was read is the list from the first page to the last one.
Copied(list, got, skip, from) ==
    /\ Len(got) = IF from < Len(list) THEN from - skip ELSE IF skip < Len(list) THEN Len(list) - skip ELSE 0
    /\ \A j \in 1..Len(got) : got[j] = list[skip + j]

\* The numbers of rows rise, and those of rows to come are higher than those of rows read.
Rising(list) == \A i, j \in 1..Len(list) : i < j => list[i].id < list[j].id
Ahead(list, got, from) == \A i \in 1..Len(list), j \in 1..Len(got) : i > from => got[j].id < list[i].id

\* "all" is one list after another.
Joined(list, more, all) ==
    /\ Len(all) = Len(list) + Len(more)
    /\ \A i \in 1..Len(list) : all[i] = list[i]
    /\ \A i \in 1..Len(more) : all[Len(list) + i] = more[i]

LEMMA Joins == ASSUME NEW list \in Seq(Items), NEW more \in Seq(Items)
               PROVE  \E all \in Seq(Items) : all = list \o more /\ Joined(list, more, all)
<1>1. PICK a \in Nat, b \in Nat : a = Len(list) /\ b = Len(more)
  OBVIOUS
<1>2. PICK all \in Seq(Items) : all = list \o more
  BY ConcatProperties
<1>3. Len(all) = a + b /\ \A i \in 1..(a + b) : all[i] = IF i <= a THEN list[i] ELSE more[i - a]
  BY <1>1, <1>2, ConcatProperties
<1>4. ASSUME NEW i \in 1..a PROVE all[i] = list[i]
  BY <1>3
<1>5. ASSUME NEW i \in 1..b PROVE all[a + i] = more[i]
  <2>1. a + i \in 1..(a + b)
    OBVIOUS
  <2>2. all[a + i] = more[(a + i) - a]
    BY <1>3, <2>1
  <2>3. (a + i) - a = i
    OBVIOUS
  <2>4. QED
    BY <2>2, <2>3
<1>6. QED
  BY <1>1, <1>2, <1>3, <1>4, <1>5 DEF Joined

LEMMA PageIsPage ==
    ASSUME rows \in Seq(Items), NEW p \in Nat, NEW base \in {0, 1}, p >= base
    PROVE  /\ (p - base) * PageSize \in Nat
           /\ PageAt(p, base) \in Seq(Items)
           /\ IsPage(rows, PageAt(p, base), (p - base) * PageSize, PageSize)
<1>1. PICK n \in Nat : n = Len(rows)
  OBVIOUS
<1>2. PICK first \in Nat : first = (p - base) * PageSize
  BY PagedAssumption
<1>3. PICK last \in Nat : last = IF first + PageSize < n THEN first + PageSize ELSE n
  BY PagedAssumption
<1>4. PICK next \in Int : next = first + 1
  OBVIOUS
<1>5. PICK page : page = SubSeq(rows, next, last)
  OBVIOUS
<1>6. PageAt(p, base) = page
  BY <1>1, <1>2, <1>3, <1>4, <1>5 DEF PageAt
<1>7. /\ page \in Seq(Items)
      /\ Len(page) = IF next <= last THEN last - next + 1 ELSE 0
      /\ \A i \in 1..(last - next + 1) : page[i] = rows[next + i - 1]
  <2>1. \A i \in next..last : rows[i] \in Items
    BY <1>1, <1>3, <1>4, PagedAssumption
  <2>2. QED
    BY <1>5, <2>1, SubSeqProperties
<1>8. ASSUME NEW j \in 1..Len(page) PROVE page[j] = rows[first + j]
  <2>1. j \in 1..(last - next + 1) /\ next + j - 1 = first + j
    BY <1>4, <1>7
  <2>2. QED
    BY <1>7, <2>1
<1>9. Len(page) = IF first >= n THEN 0 ELSE IF first + PageSize <= n THEN PageSize ELSE n - first
  BY <1>3, <1>4, <1>7, PagedAssumption
<1>10. IsPage(rows, page, first, PageSize)
  BY <1>1, <1>8, <1>9 DEF IsPage
<1>11. QED
  BY <1>2, <1>6, <1>7, <1>10

LEMMA CopyGrows ==
    ASSUME NEW list \in Seq(Items), NEW got \in Seq(Items), NEW page \in Seq(Items), NEW all, Joined(got, page, all),
           NEW skip \in Nat, NEW from \in Nat, NEW size \in Nat \ {0}, skip <= from,
           Copied(list, got, skip, from), IsPage(list, page, from, size)
    PROVE  Copied(list, all, skip, from + size)
<1>1. PICK n \in Nat, g \in Nat, k \in Nat : n = Len(list) /\ g = Len(got) /\ k = Len(page)
  OBVIOUS
<1>2. /\ g = IF from < n THEN from - skip ELSE IF skip < n THEN n - skip ELSE 0
      /\ k = IF from >= n THEN 0 ELSE IF from + size <= n THEN size ELSE n - from
  BY <1>1 DEF Copied, IsPage
<1>3. Len(all) = g + k
  BY <1>1 DEF Joined
<1>4. g + k = IF from + size < n THEN (from + size) - skip ELSE IF skip < n THEN n - skip ELSE 0
  BY <1>2
<1>5. ASSUME NEW i \in 1..(g + k) PROVE all[i] = list[skip + i]
  <2>1. CASE i \in 1..g
    BY <1>1, <2>1 DEF Copied, Joined
  <2>2. CASE i \notin 1..g
    <3>1. PICK m \in 1..k : i = g + m
      <4>1. i - g \in 1..k /\ i = g + (i - g)
        BY <2>2
      <4>2. QED
        BY <4>1
    <3>2. from + m = skip + i
      BY <1>2, <3>1
    <3>3. all[g + m] = page[m] /\ page[m] = list[from + m]
      BY <1>1, <3>1 DEF Joined, IsPage
    <3>4. QED
      BY <3>1, <3>2, <3>3
  <2>3. QED
    BY <2>1, <2>2
<1>6. QED
  BY <1>1, <1>3, <1>4, <1>5 DEF Copied

LEMMA RiseGoesOn ==
    ASSUME NEW list \in Seq(Items), NEW got \in Seq(Items), NEW page \in Seq(Items), NEW all, Joined(got, page, all),
           NEW from \in Nat, NEW size \in Nat \ {0},
           Rising(list), Rising(got), Ahead(list, got, from), IsPage(list, page, from, size)
    PROVE  Rising(all) /\ Ahead(list, all, from + size)
<1>1. PICK n \in Nat, g \in Nat, k \in Nat : n = Len(list) /\ g = Len(got) /\ k = Len(page)
  OBVIOUS
<1>2. Len(all) = g + k /\ \A i \in 1..g : all[i] = got[i]
  BY <1>1 DEF Joined
<1>3. k = IF from >= n THEN 0 ELSE IF from + size <= n THEN size ELSE n - from
  BY <1>1 DEF IsPage
<1>4. ASSUME NEW i \in 1..(g + k), i \notin 1..g
      PROVE  \E m \in 1..k : /\ i = g + m /\ from + m \in 1..n /\ from + m <= from + size
                             /\ all[i] = list[from + m]
  <2>1. PICK m \in 1..k : i = g + m
    <3>1. i - g \in 1..k /\ i = g + (i - g)
      BY <1>4
    <3>2. QED
      BY <3>1
  <2>2. from + m \in 1..n /\ from + m <= from + size
    BY <1>3, <2>1
  <2>3. all[g + m] = page[m] /\ page[m] = list[from + m]
    BY <1>1, <2>1 DEF Joined, IsPage
  <2>4. QED
    BY <2>1, <2>2, <2>3
<1>5. ASSUME NEW i \in 1..(g + k), NEW j \in 1..(g + k), i < j
      PROVE  all[i].id < all[j].id
  <2>1. CASE j \in 1..g
    <3>1. i \in 1..g
      BY <1>5, <2>1
    <3>2. got[i].id < got[j].id
      BY <1>1, <1>5, <2>1, <3>1 DEF Rising
    <3>3. QED
      BY <1>2, <2>1, <3>1, <3>2
  <2>2. CASE i \in 1..g /\ j \notin 1..g
    <3>1. PICK m \in 1..k : from + m \in 1..n /\ all[j] = list[from + m]
      BY <1>4, <2>2
    <3>2. from + m > from
      BY <3>1
    <3>3. got[i].id < list[from + m].id
      BY <1>1, <2>2, <3>1, <3>2 DEF Ahead
    <3>4. QED
      BY <1>2, <2>2, <3>1, <3>3
  <2>3. CASE i \notin 1..g
    <3>1. j \notin 1..g
      BY <1>5, <2>3
    <3>2. PICK m \in 1..k : i = g + m /\ from + m \in 1..n /\ all[i] = list[from + m]
      BY <1>4, <2>3
    <3>3. PICK q \in 1..k : j = g + q /\ from + q \in 1..n /\ all[j] = list[from + q]
      BY <1>4, <3>1
    <3>4. from + m < from + q
      <4>1. i = g + m /\ j = g + q
        BY <3>2, <3>3
      <4>2. QED
        BY <1>5, <4>1
    <3>5. QED
      BY <1>1, <3>2, <3>3, <3>4 DEF Rising
  <2>4. QED
    BY <2>1, <2>2, <2>3
<1>6. ASSUME NEW q \in 1..n, NEW i \in 1..(g + k), q > from + size
      PROVE  all[i].id < list[q].id
  <2>1. CASE i \in 1..g
    <3>1. q > from
      BY <1>6
    <3>2. got[i].id < list[q].id
      BY <1>1, <2>1, <3>1 DEF Ahead
    <3>3. QED
      BY <1>2, <2>1, <3>2
  <2>2. CASE i \notin 1..g
    <3>1. PICK m \in 1..k : from + m \in 1..n /\ from + m <= from + size /\ all[i] = list[from + m]
      BY <1>4, <2>2
    <3>2. from + m < q
      BY <1>6, <3>1
    <3>3. QED
      BY <1>1, <3>1, <3>2 DEF Rising
  <2>3. QED
    BY <2>1, <2>2
<1>7. Rising(all)
  BY <1>2, <1>5 DEF Rising
<1>8. Ahead(list, all, from + size)
  BY <1>1, <1>2, <1>6 DEF Ahead
<1>9. QED
  BY <1>7, <1>8

\* A list whose numbers rise has as many of them as rows.
LEMMA RisingCounts ==
    ASSUME NEW got \in Seq(Items), Rising(got) PROVE Cardinality(Listed(got)) = Len(got)
<1>1. PICK n \in Nat : n = Len(got)
  OBVIOUS
<1>2. \A i \in 1..n : got[i] \in Items
  BY <1>1
<1>3. \A i \in 1..n : got[i].id \in Nat
  BY <1>2 DEF Items
<1>4. \A i, j \in 1..n : i # j => got[i].id # got[j].id
  <2>1. ASSUME NEW i \in 1..n, NEW j \in 1..n, i < j PROVE got[i].id # got[j].id
    BY <1>1, <1>3, <2>1 DEF Rising
  <2>2. QED
    BY <2>1
<1>5. PICK f \in [1..n -> Listed(got)] : \A i \in 1..n : f[i] = got[i].id
  <2>1. [i \in 1..n |-> got[i].id] \in [1..n -> Listed(got)]
    BY <1>1 DEF Listed
  <2>2. QED
    BY <2>1
<1>6. f \in Surjection(1..n, Listed(got))
  BY <1>1, <1>5 DEF Surjection, Listed
<1>7. f \in Injection(1..n, Listed(got))
  BY <1>4, <1>5 DEF Injection, IsInjective
<1>8. ExistsBijection(1..n, Listed(got))
  BY <1>6, <1>7 DEF ExistsBijection, Bijection
<1>9. IsFiniteSet(1..n) /\ Cardinality(1..n) = n
  BY FS_Interval
<1>10. QED
  BY <1>1, <1>8, <1>9, FS_Bijection

\* What an insertion and a deletion leave of a list.
LEMMA InsertionKeeps ==
    ASSUME NEW list \in Seq(Items), NEW i \in 1..(Len(list) + 1), NEW item \in Items
    PROVE  /\ InsertAt(list, i, item) \in Seq(Items)
           /\ Len(InsertAt(list, i, item)) = Len(list) + 1
           /\ \A j \in 1..(Len(list) + 1) :
                 InsertAt(list, i, item)[j] = IF j < i THEN list[j] ELSE IF j = i THEN item ELSE list[j - 1]
<1>1. PICK a : a = SubSeq(list, 1, i - 1)
  OBVIOUS
<1>2. a \in Seq(Items) /\ Len(a) = i - 1 /\ \A j \in 1..(i - 1) : a[j] = list[j]
  <2>1. \A j \in 1..(i - 1) : list[j] \in Items
    OBVIOUS
  <2>2. QED
    BY <1>1, <2>1, SubSeqProperties
<1>3. PICK b : b = SubSeq(list, i, Len(list))
  OBVIOUS
<1>4. b \in Seq(Items) /\ Len(b) = Len(list) - i + 1 /\ \A j \in 1..(Len(list) - i + 1) : b[j] = list[i + j - 1]
  <2>1. \A j \in i..Len(list) : list[j] \in Items
    OBVIOUS
  <2>2. QED
    BY <1>3, <2>1, SubSeqProperties
<1>5. PICK one \in Seq(Items) : one = <<item>> /\ Len(one) = 1
  <2>1. <<item>> \in Seq(Items) /\ Len(<<item>>) = 1
    OBVIOUS
  <2>2. QED
    BY <2>1
<1>6. PICK c \in Seq(Items) : c = a \o one /\ Joined(a, one, c)
  BY <1>2, Joins
<1>7. PICK d \in Seq(Items) : d = c \o b /\ Joined(c, b, d)
  BY <1>4, Joins
<1>8. InsertAt(list, i, item) = d
  BY <1>1, <1>3, <1>5, <1>6, <1>7 DEF InsertAt
<1>9. Len(c) = i
  BY <1>2, <1>5, <1>6 DEF Joined
<1>10. Len(d) = Len(list) + 1
  BY <1>4, <1>7, <1>9 DEF Joined
<1>11. ASSUME NEW j \in 1..(Len(list) + 1)
       PROVE  d[j] = IF j < i THEN list[j] ELSE IF j = i THEN item ELSE list[j - 1]
  <2>1. CASE j < i
    <3>1. c[j] = a[j] /\ d[j] = c[j]
      BY <1>2, <1>6, <1>7, <1>9, <2>1 DEF Joined
    <3>2. QED
      BY <1>2, <2>1, <3>1
  <2>2. CASE j = i
    <3>1. c[(i - 1) + 1] = one[1]
      BY <1>2, <1>5, <1>6 DEF Joined
    <3>2. d[j] = c[j] /\ (i - 1) + 1 = j /\ one[1] = item
      BY <1>5, <1>7, <1>9, <2>2 DEF Joined
    <3>3. QED
      BY <2>2, <3>1, <3>2
  <2>3. CASE j > i
    <3>1. PICK m \in 1..(Len(list) - i + 1) : j = i + m
      <4>1. j - i \in 1..(Len(list) - i + 1) /\ j = i + (j - i)
        BY <2>3
      <4>2. QED
        BY <4>1
    <3>2. d[i + m] = b[m] /\ b[m] = list[i + m - 1]
      BY <1>4, <1>7, <1>9 DEF Joined
    <3>3. QED
      BY <2>3, <3>1, <3>2
  <2>4. QED
    BY <2>1, <2>2, <2>3
<1>12. QED
  BY <1>8, <1>10, <1>11

LEMMA DeletionKeeps ==
    ASSUME NEW list \in Seq(Items), NEW i \in 1..Len(list)
    PROVE  /\ RemoveAt(list, i) \in Seq(Items)
           /\ Len(RemoveAt(list, i)) = Len(list) - 1
           /\ \A j \in 1..(Len(list) - 1) : RemoveAt(list, i)[j] = IF j < i THEN list[j] ELSE list[j + 1]
<1>1. PICK a : a = SubSeq(list, 1, i - 1)
  OBVIOUS
<1>2. a \in Seq(Items) /\ Len(a) = i - 1 /\ \A j \in 1..(i - 1) : a[j] = list[j]
  <2>1. \A j \in 1..(i - 1) : list[j] \in Items
    OBVIOUS
  <2>2. QED
    BY <1>1, <2>1, SubSeqProperties
<1>3. PICK b : b = SubSeq(list, i + 1, Len(list))
  OBVIOUS
<1>4. b \in Seq(Items) /\ Len(b) = Len(list) - i /\ \A j \in 1..(Len(list) - i) : b[j] = list[i + j]
  <2>1. \A j \in (i + 1)..Len(list) : list[j] \in Items
    OBVIOUS
  <2>2. QED
    BY <1>3, <2>1, SubSeqProperties
<1>5. PICK c \in Seq(Items) : c = a \o b /\ Joined(a, b, c)
  BY <1>2, <1>4, Joins
<1>6. RemoveAt(list, i) = c
  BY <1>1, <1>3, <1>5 DEF RemoveAt
<1>7. Len(c) = Len(list) - 1
  BY <1>2, <1>4, <1>5 DEF Joined
<1>8. ASSUME NEW j \in 1..(Len(list) - 1) PROVE c[j] = IF j < i THEN list[j] ELSE list[j + 1]
  <2>1. CASE j < i
    BY <1>2, <1>5, <2>1 DEF Joined
  <2>2. CASE ~(j < i)
    <3>1. PICK m \in 1..(Len(list) - i) : j = (i - 1) + m
      <4>1. j - (i - 1) \in 1..(Len(list) - i) /\ j = (i - 1) + (j - (i - 1))
        BY <2>2
      <4>2. QED
        BY <4>1
    <3>2. c[(i - 1) + m] = b[m] /\ b[m] = list[i + m]
      BY <1>2, <1>4, <1>5, <3>1 DEF Joined
    <3>3. i + m = j + 1
      BY <3>1
    <3>4. QED
      BY <2>2, <3>1, <3>2, <3>3
  <2>3. QED
    BY <2>1, <2>2
<1>9. QED
  BY <1>6, <1>7, <1>8

\* A reading that went past the end, or has as many rows as the list, has all of them.
LEMMA CopyIsWhole ==
    ASSUME NEW list \in Seq(Items), NEW got \in Seq(Items), NEW skip \in Nat, NEW from \in Nat,
           Copied(list, got, skip, from), from >= Len(list) \/ Len(got) >= Len(list)
    PROVE  got = SubSeq(list, skip + 1, Len(list))
<1>1. PICK n \in Nat, g \in Nat, next \in Int : n = Len(list) /\ g = Len(got) /\ next = skip + 1
  OBVIOUS
<1>2. g = IF skip < n THEN n - skip ELSE 0
  BY <1>1 DEF Copied
<1>3. PICK part : part = SubSeq(list, next, n)
  OBVIOUS
<1>4. /\ part \in Seq(Items)
      /\ Len(part) = IF next <= n THEN n - next + 1 ELSE 0
      /\ \A i \in 1..(n - next + 1) : part[i] = list[next + i - 1]
  <2>1. \A i \in next..n : list[i] \in Items
    BY <1>1
  <2>2. QED
    BY <1>3, <2>1, SubSeqProperties
<1>5. Len(part) = g
  BY <1>1, <1>2, <1>4
<1>6. ASSUME NEW i \in 1..g PROVE got[i] = part[i]
  <2>1. i \in 1..(n - next + 1) /\ next + i - 1 = skip + i
    BY <1>1, <1>2
  <2>2. QED
    BY <1>1, <1>4, <2>1 DEF Copied
<1>7. got = part
  BY <1>1, <1>4, <1>5, <1>6, SeqEqual
<1>8. QED
  BY <1>1, <1>3, <1>7

-----------------------------------------------------------------------------
(***************************************************************************)
(* The reading.                                                            *)
(***************************************************************************)

Readers == [kind : {"none", "find", "insight", "match", "more"} \cup Ends, base : {0, 1}, page : Nat, was : Seq(Items),
            got : Seq(Items), total : Nat, edits : Seq({"insert", "delete"})]

Skip == (1 - reader.base) * PageSize
From == (reader.page - reader.base) * PageSize

\* Third parties on the pages before this one are not wanted, and nobody left the list.
Finding ==
    /\ reader.page + 1 <= MaxPages
    /\ ~Edited("delete") =>
          /\ Len(reader.was) <= Len(rows)
          /\ \A i \in 1..Len(reader.was) : rows[i] = reader.was[i]
          /\ wrapped => \A i \in 1..Len(reader.was) : reader.was[i].row.wanted => i > PageSize * reader.page

\* Invoices read are those of the pages before this one.
Progress ==
    /\ reader.page >= 1
    /\ Reading("insight") => reader.page = 1 /\ reader.got = <<>>
    /\ reader.edits = <<>> => /\ rows = reader.was
                              /\ Reading("more") => reader.total = Len(rows)
                              /\ Copied(rows, reader.got, Skip, From)
    /\ ~Edited("insert") => Rising(rows) /\ Rising(reader.got) /\ Ahead(rows, reader.got, From)

PagedInv ==
    /\ rows \in Seq(Items) /\ reader \in Readers
    /\ Reading("find") => Finding
    /\ Reading("insight") \/ Reading("more") => Progress
    /\ ReadingIsWhole

\* A reading that has ended without an answer about the list.
LEMMA EndKeeps ==
    ASSUME PagedInv, rows' = rows, NEW kind \in {"found", "failed"}, reader' = Is(kind, reader)
    PROVE  PagedInv'
<1>1. reader' \in Readers /\ reader'.kind = kind
  BY DEF PagedInv, Is, Readers, Ends
<1>2. QED
  BY <1>1 DEF PagedInv, Reading, ReadingIsWhole

LEMMA NumberedIsTyped ==
    ASSUME NEW n \in Nat, NEW kind \in {"find", "insight", "match"}, NEW list \in [1..n -> Rows(kind)]
    PROVE  /\ Numbered(list) \in Seq(Items) /\ Len(Numbered(list)) = n
           /\ \A i \in 1..n : Numbered(list)[i].id = i /\ Numbered(list)[i].row \in Rows(kind)
<1>1. Len(list) = n
  OBVIOUS
<1>2. Rows(kind) \subseteq Parties \cup Invoices \cup Booked
  BY DEF Rows
<1>3. Numbered(list) = [i \in 1..n |-> [id |-> i, row |-> list[i]]]
  BY <1>1 DEF Numbered
<1>4. \A i \in 1..n : [id |-> i, row |-> list[i]] \in Items
  BY <1>2 DEF Items
<1>5. Numbered(list) \in [1..n -> Items] /\ \A i \in 1..n : Numbered(list)[i].id = i /\ Numbered(list)[i].row \in Rows(kind)
  BY <1>3, <1>4
<1>6. QED
  BY <1>5

LEMMA BeginKeeps == ASSUME PagedInv, NEW kind \in {"find", "insight", "match"}, Begin(kind) PROVE PagedInv'
<1>1. PICK n \in 0..MostRows(kind), base \in {0, 1} : \E list \in [1..n -> Rows(kind)] :
          /\ rows'   = Numbered(list)
          /\ reader' = [Unread EXCEPT !.kind = kind, !.base = IF kind = "find" THEN 0 ELSE base, !.was = Numbered(list),
                                      !.page = IF kind = "find" THEN 0 ELSE 1]
  BY DEF Begin
<1>2. n \in Nat
  BY PagedAssumption DEF MostRows
<1>3. PICK all \in Seq(Items) : /\ rows' = all /\ Len(all) = n /\ \A i \in 1..n : all[i].id = i
                                /\ reader' = [Unread EXCEPT !.kind = kind, !.base = IF kind = "find" THEN 0 ELSE base,
                                                            !.was = all, !.page = IF kind = "find" THEN 0 ELSE 1]
  <2>1. PICK list \in [1..n -> Rows(kind)] :
            /\ rows'   = Numbered(list)
            /\ reader' = [Unread EXCEPT !.kind = kind, !.base = IF kind = "find" THEN 0 ELSE base, !.was = Numbered(list),
                                        !.page = IF kind = "find" THEN 0 ELSE 1]
    BY <1>1
  <2>2. Numbered(list) \in Seq(Items) /\ Len(Numbered(list)) = n /\ \A i \in 1..n : Numbered(list)[i].id = i
    BY <1>2, NumberedIsTyped
  <2>3. QED
    BY <2>1, <2>2
<1>4. PICK b \in {0, 1}, p \in {0, 1} : /\ reader' = [kind |-> kind, base |-> b, page |-> p, was |-> all, got |-> <<>>,
                                                      total |-> 0, edits |-> <<>>]
                                        /\ kind = "find" => p = 0
                                        /\ kind # "find" => p = 1
  BY <1>3 DEF Unread
<1>5. <<>> \in Seq(Items) /\ <<>> \in Seq({"insert", "delete"}) /\ Len(<<>>) = 0
  OBVIOUS
<1>6. reader' \in Readers
  BY <1>4, <1>5 DEF Readers
<1>7. Reading("find")' => Finding'
  BY <1>3, <1>4, <1>5, PagedAssumption DEF Reading, Finding
<1>8. Reading("insight")' => Progress'
  <2>1. SUFFICES ASSUME kind = "insight" PROVE Progress'
    BY <1>4 DEF Reading
  <2>2. Rising(all)
    BY <1>3 DEF Rising
  <2>3. PICK skip \in Nat : skip = Skip' /\ skip = From'
    BY <1>4, <2>1, PagedAssumption DEF Skip, From
  <2>4. PICK none : none = <<>> /\ Len(none) = 0
    BY <1>5
  <2>5. Copied(all, none, skip, skip)
    BY <1>3, <2>4 DEF Copied
  <2>6. Rising(none) /\ Ahead(all, none, skip)
    BY <2>4 DEF Rising, Ahead
  <2>7. /\ rows' = all /\ reader'.was = all /\ reader'.got = none /\ reader'.page = 1
        /\ reader'.kind = "insight"
    <3>1. rows' = all
      BY <1>3
    <3>2. p = 1
      BY <1>4, <2>1
    <3>3. reader'.was = all /\ reader'.got = <<>> /\ reader'.page = p /\ reader'.kind = kind
      BY <1>4
    <3>4. QED
      BY <2>1, <2>4, <3>1, <3>2, <3>3
  <2>8. QED
    BY <2>2, <2>3, <2>5, <2>6, <2>7, <2>4 DEF Progress, Reading
<1>9. QED
  BY <1>3, <1>4, <1>6, <1>7, <1>8 DEF PagedInv, Reading, ReadingIsWhole

LEMMA FindKeeps == ASSUME PagedInv, Find PROVE PagedInv'
<1>1. rows' = rows /\ wrapped' = wrapped /\ reader.kind = "find" /\ reader \in Readers /\ rows \in Seq(Items) /\ Finding
  BY DEF Find, PagedInv, Reading
<1>2. PICK page \in Seq(Items), first \in Nat :
          /\ first = PageSize * reader.page
          /\ page = ThirdpartiesOn
          /\ wrapped => IsPage(rows, page, first, PageSize)
  <2>1. reader.page \in Nat
    BY <1>1 DEF Readers
  <2>2. PICK first \in Nat : first = PageSize * reader.page /\ first = (reader.page - 0) * PageSize
    BY <2>1, PagedAssumption
  <2>3. PageAt(reader.page, 0) \in Seq(Items) /\ IsPage(rows, PageAt(reader.page, 0), first, PageSize)
    <3>1. 0 \in {0, 1} /\ reader.page >= 0
      BY <2>1
    <3>2. /\ PageAt(reader.page, 0) \in Seq(Items)
          /\ IsPage(rows, PageAt(reader.page, 0), (reader.page - 0) * PageSize, PageSize)
      BY <1>1, <2>1, <3>1, PageIsPage
    <3>3. QED
      BY <2>2, <3>2
  <2>4. <<>> \in Seq(Items)
    OBVIOUS
  <2>5. QED
    BY <2>2, <2>3, <2>4 DEF ThirdpartiesOn
<1>3. CASE reader' \in {Is("found", reader), Is("failed", reader)}
  BY <1>1, <1>3, EndKeeps
\* Who is wanted and not on this page stands on a later one.
<1>4. ASSUME wrapped, ~Edited("delete"), ~\E i \in 1..Len(page) : page[i].row.wanted,
             NEW i \in 1..Len(reader.was), reader.was[i].row.wanted
      PROVE  i > first + PageSize /\ i <= Len(rows)
  <2>1. i > first /\ i <= Len(rows) /\ rows[i] = reader.was[i]
    <3>1. Len(reader.was) \in Nat /\ Len(rows) \in Nat
      BY <1>1 DEF Readers
    <3>2. QED
      BY <1>1, <1>2, <1>4, <3>1 DEF Finding
  <2>2. SUFFICES ASSUME i <= first + PageSize PROVE FALSE
    BY <2>1, <1>2, PagedAssumption
  <2>3. PICK m \in Nat : i = first + m /\ m >= 1 /\ m <= PageSize
    <3>1. i - first \in Nat /\ i = first + (i - first) /\ i - first >= 1 /\ i - first <= PageSize
      BY <1>2, <2>1, <2>2, PagedAssumption
    <3>2. QED
      BY <3>1
  <2>4. m \in 1..Len(page)
    BY <1>1, <1>2, <1>4, <2>1, <2>3, PagedAssumption DEF IsPage
  <2>5. page[m] = rows[i]
    BY <1>2, <1>4, <2>3, <2>4 DEF IsPage
  <2>6. QED
    BY <1>4, <2>1, <2>4, <2>5
<1>5. CASE reader' = Is("not_found", reader) /\ (~\E i \in 1..Len(page) : page[i].row.wanted)
           /\ (Len(page) < PageSize \/ reader.page + 1 = MaxPages)
  <2>1. reader' \in Readers /\ reader'.kind = "not_found" /\ reader'.was = reader.was /\ reader'.edits = reader.edits
    BY <1>1, <1>5 DEF Is, Readers, Ends
  <2>2. ASSUME wrapped, ~Edited("delete"), NEW i \in 1..Len(reader.was), reader.was[i].row.wanted
        PROVE  i > PageSize * MaxPages
    <3>1. i > first + PageSize /\ i <= Len(rows)
      BY <1>4, <1>5, <2>2
    <3>2. ~(Len(page) < PageSize)
      BY <1>1, <1>2, <2>2, <3>1, PagedAssumption DEF IsPage
    <3>3. PageSize * MaxPages = first + PageSize
      <4>1. MaxPages = reader.page + 1 /\ reader.page \in Nat
        BY <1>1, <1>5, <3>2 DEF Readers
      <4>2. QED
        BY <1>2, <4>1, PagedAssumption
    <3>4. QED
      BY <3>1, <3>3
  <2>3. QED
    BY <1>1, <2>1, <2>2 DEF PagedInv, Reading, ReadingIsWhole, Edited
<1>6. CASE reader' = [reader EXCEPT !.page = @ + 1] /\ (~\E i \in 1..Len(page) : page[i].row.wanted)
           /\ reader.page + 1 # MaxPages
  <2>1. /\ reader' \in Readers /\ reader'.kind = "find" /\ reader'.was = reader.was /\ reader'.edits = reader.edits
        /\ reader'.page = reader.page + 1 /\ reader.page \in Nat
    <3>1. reader.page \in Nat /\ reader.page + 1 \in Nat
      BY <1>1 DEF Readers
    <3>2. QED
      BY <1>1, <1>6, <3>1 DEF Readers
  <2>2. reader'.page + 1 <= MaxPages
    BY <1>1, <1>6, <2>1, PagedAssumption DEF Finding
  <2>3. PageSize * reader'.page = first + PageSize
    BY <1>2, <2>1, PagedAssumption
  <2>4. Finding'
    BY <1>1, <1>4, <1>6, <2>1, <2>2, <2>3 DEF Finding, Edited
  <2>5. QED
    BY <1>1, <2>1, <2>4 DEF PagedInv, Reading, ReadingIsWhole
<1>7. reader' \in {FindByTaxId(page), Is("failed", reader)}
  BY <1>2 DEF Find
<1>8. QED
  BY <1>3, <1>5, <1>6, <1>7 DEF FindByTaxId

LEMMA Products ==
    ASSUME NEW p \in Nat, p >= 1
    PROVE  /\ p * PageSize \in Nat /\ p * PageSize >= PageSize /\ (p - 1) * PageSize \in Nat
           /\ (p - 1) * PageSize + PageSize = p * PageSize /\ (p + 1) * PageSize = p * PageSize + PageSize
<1>1. PICK q \in Nat : p = q + 1
  <2>1. p - 1 \in Nat /\ p = (p - 1) + 1
    OBVIOUS
  <2>2. QED
    BY <2>1
<1>2. q * PageSize \in Nat /\ p - 1 = q
  BY <1>1, PagedAssumption
<1>3. p * PageSize = q * PageSize + PageSize
  BY <1>1, PagedAssumption
<1>4. (p + 1) * PageSize = p * PageSize + PageSize
  BY PagedAssumption
<1>5. QED
  BY <1>2, <1>3, <1>4, PagedAssumption

\* One more page of invoices.
LEMMA PageKeeps ==
    ASSUME PagedInv, Reading("insight") \/ Reading("more"), UNCHANGED <<wrapped, rows>>,
           NEW page \in Seq(Items), page = PageAt(reader.page, reader.base),
           NEW all \in Seq(Items), Joined(reader.got, page, all),
           NEW total \in Nat, reader.edits = <<>> => total = Len(rows),
           NEW kind \in {"more", "read"}, kind = "read" => Len(page) < PageSize \/ Len(all) >= total,
           reader' = [reader EXCEPT !.got = all, !.total = total, !.page = @ + 1, !.kind = kind]
    PROVE  PagedInv'
<1>1. /\ reader \in Readers /\ rows \in Seq(Items) /\ Progress
      /\ reader.page \in Nat /\ reader.page >= 1 /\ reader.page + 1 \in Nat
      /\ reader.base \in {0, 1} /\ reader.got \in Seq(Items) /\ reader.edits \in Seq({"insert", "delete"})
      /\ reader.was \in Seq(Items)
  <2>1. reader \in Readers /\ rows \in Seq(Items) /\ Progress
    BY DEF PagedInv
  <2>2. QED
    BY <2>1 DEF Readers, Progress
<1>2. /\ reader' \in Readers /\ reader'.kind = kind /\ reader'.got = all /\ reader'.total = total
      /\ reader'.page = reader.page + 1 /\ reader'.base = reader.base /\ reader'.was = reader.was
      /\ reader'.edits = reader.edits
  BY <1>1 DEF Readers, Ends
<1>3. PICK skip \in Nat, from \in Nat : /\ skip = Skip /\ from = From /\ skip <= from
                                        /\ skip = Skip' /\ from + PageSize = From'
  <2>1. Skip = Skip'
    BY <1>2 DEF Skip
  <2>2. CASE reader.base = 0
    <3>1. reader.page * PageSize \in Nat /\ reader.page * PageSize >= PageSize
      BY <1>1, Products
    <3>2. From' = (reader.page + 1) * PageSize /\ From = reader.page * PageSize /\ Skip = PageSize
      BY <1>1, <1>2, <2>2, PagedAssumption DEF Skip, From
    <3>3. (reader.page + 1) * PageSize = reader.page * PageSize + PageSize
      BY <1>1, Products
    <3>4. QED
      BY <2>1, <3>1, <3>2, <3>3, PagedAssumption
  <2>3. CASE reader.base = 1
    <3>1. (reader.page - 1) * PageSize \in Nat
      BY <1>1, Products
    <3>2. From' = reader.page * PageSize /\ From = (reader.page - 1) * PageSize /\ Skip = 0
      <4>1. reader'.page - reader'.base = reader.page
        BY <1>1, <1>2, <2>3
      <4>2. From' = (reader'.page - reader'.base) * PageSize
        BY DEF From
      <4>3. Skip = 0
        BY <2>3, PagedAssumption DEF Skip
      <4>4. QED
        BY <2>3, <4>1, <4>2, <4>3 DEF From
    <3>3. (reader.page - 1) * PageSize + PageSize = reader.page * PageSize
      BY <1>1, Products
    <3>4. QED
      BY <2>1, <3>1, <3>2, <3>3, PagedAssumption
  <2>4. QED
    BY <1>1, <2>2, <2>3
<1>4. IsPage(rows, page, from, PageSize)
  <2>1. reader.page >= reader.base
    BY <1>1
  <2>2. IsPage(rows, PageAt(reader.page, reader.base), (reader.page - reader.base) * PageSize, PageSize)
    BY <1>1, <2>1, PageIsPage
  <2>3. QED
    BY <1>3, <2>2 DEF From
<1>5. reader.edits = <<>> => rows = reader.was /\ Copied(rows, all, skip, from + PageSize)
  <2>1. SUFFICES ASSUME reader.edits = <<>> PROVE rows = reader.was /\ Copied(rows, all, skip, from + PageSize)
    OBVIOUS
  <2>2. rows = reader.was /\ Copied(rows, reader.got, skip, from)
    BY <1>1, <1>3, <2>1 DEF Progress
  <2>3. PageSize \in Nat \ {0}
    BY PagedAssumption
  <2>4. QED
    BY <1>1, <1>3, <1>4, <2>2, <2>3, CopyGrows
<1>6. ~Edited("insert") => Rising(rows) /\ Rising(all) /\ Ahead(rows, all, from + PageSize)
  <2>1. SUFFICES ASSUME ~Edited("insert") PROVE Rising(rows) /\ Rising(all) /\ Ahead(rows, all, from + PageSize)
    OBVIOUS
  <2>2. Rising(rows) /\ Rising(reader.got) /\ Ahead(rows, reader.got, from)
    BY <1>1, <1>3, <2>1 DEF Progress
  <2>3. PageSize \in Nat \ {0}
    BY PagedAssumption
  <2>4. QED
    BY <1>1, <1>4, <2>2, <2>3, RiseGoesOn
<1>7. Edited("insert")' <=> Edited("insert")
  BY <1>2 DEF Edited
<1>8. CASE kind = "more"
  <2>1. Progress'
    <3>1. reader'.page >= 1 /\ ~Reading("insight")'
      BY <1>1, <1>2, <1>8 DEF Reading
    <3>2. reader'.edits = <<>> => /\ rows' = reader'.was /\ reader'.total = Len(rows')
                                  /\ Copied(rows', reader'.got, Skip', From')
      BY <1>2, <1>3, <1>5
    <3>3. ~Edited("insert")' => Rising(rows') /\ Rising(reader'.got) /\ Ahead(rows', reader'.got, From')
      BY <1>2, <1>3, <1>6, <1>7
    <3>4. QED
      BY <3>1, <3>2, <3>3 DEF Progress
  <2>2. QED
    BY <1>1, <1>2, <1>8, <2>1 DEF PagedInv, Reading, ReadingIsWhole
<1>9. CASE kind = "read"
  <2>1. reader.edits = <<>> => all = SubSeq(reader.was, Skip + 1, Len(reader.was))
    <3>1. SUFFICES ASSUME reader.edits = <<>> PROVE all = SubSeq(reader.was, Skip + 1, Len(reader.was))
      OBVIOUS
    <3>2. from + PageSize \in Nat /\ (from + PageSize >= Len(rows) \/ Len(all) >= Len(rows))
      BY <1>1, <1>3, <1>4, <1>9, <3>1, PagedAssumption DEF IsPage
    <3>3. all = SubSeq(rows, skip + 1, Len(rows))
      BY <1>1, <1>5, <3>1, <3>2, CopyIsWhole
    <3>4. QED
      BY <1>3, <1>5, <3>1, <3>3
  <2>2. ~Edited("insert") => Cardinality(Listed(all)) = Len(all)
    BY <1>6, RisingCounts
  <2>3. ReadingIsWhole'
    <3>1. reader'.edits = <<>> => reader'.got = SubSeq(reader'.was, (1 - reader'.base) * PageSize + 1, Len(reader'.was))
      BY <1>2, <2>1 DEF Skip
    <3>2. ~Edited("insert")' => Cardinality(Listed(reader'.got)) = Len(reader'.got)
      BY <1>2, <1>7, <2>2
    <3>3. reader'.kind # "not_found"
      BY <1>2, <1>9
    <3>4. QED
      BY <3>1, <3>2, <3>3 DEF ReadingIsWhole, Reading
  <2>4. QED
    BY <1>1, <1>2, <1>9, <2>3 DEF PagedInv, Reading
<1>10. QED
  BY <1>8, <1>9

LEMMA ReadKeeps == ASSUME PagedInv, ReadInvoices PROVE PagedInv'
<1>1. /\ reader \in Readers /\ rows \in Seq(Items) /\ rows' = rows /\ wrapped' = wrapped
      /\ Reading("insight") \/ Reading("more")
  BY DEF PagedInv, ReadInvoices
<1>2. /\ reader.page \in Nat /\ reader.page >= reader.base /\ reader.base \in {0, 1} /\ reader.got \in Seq(Items)
      /\ reader.total \in Nat
  <2>1. reader.page >= 1
    BY <1>1 DEF PagedInv, Progress
  <2>2. QED
    BY <1>1, <2>1 DEF Readers
<1>3. PICK page \in Seq(Items) : page = PageAt(reader.page, reader.base)
  BY <1>1, <1>2, PageIsPage
<1>4. PICK all \in Seq(Items) : all = reader.got \o page /\ Joined(reader.got, page, all)
  BY <1>2, Joins
<1>5. CASE reader' = Is("failed", reader)
  BY <1>1, <1>5, EndKeeps
<1>6. CASE Reading("insight") /\ reader' = FirstAnswer
  <2>1. reader.page = 1 /\ reader.got = <<>>
    BY <1>6 DEF PagedInv, Progress
  <2>2. all = page
    BY <1>4, <2>1, ConcatEmptySeq
  <2>3. PICK kind \in {"more", "read"} : kind = IF Len(rows) > Len(page) THEN "more" ELSE "read"
    OBVIOUS
  <2>4. reader' = [reader EXCEPT !.got = all, !.total = Len(rows), !.page = @ + 1, !.kind = kind]
    <3>1. page = PageAt(1, reader.base)
      BY <1>3, <2>1
    <3>2. reader' = [reader EXCEPT !.got = page, !.total = Len(rows), !.page = 2, !.kind = kind]
      BY <1>6, <2>3, <3>1 DEF FirstAnswer
    <3>3. reader.page + 1 = 2
      BY <2>1
    <3>4. QED
      BY <2>2, <3>2, <3>3
  <2>5. kind = "read" => Len(all) >= Len(rows)
    BY <1>1, <2>2, <2>3
  <2>6. Len(rows) \in Nat
    BY <1>1
  <2>7. QED
    BY <1>1, <1>3, <1>4, <2>4, <2>5, <2>6, PageKeeps
<1>7. CASE Reading("more") /\ reader' = NextAnswer
  <2>1. PICK kind \in {"more", "read"} :
            kind = IF Len(page) < PageSize \/ Len(all) >= reader.total THEN "read" ELSE "more"
    OBVIOUS
  <2>2. reader' = [reader EXCEPT !.got = all, !.total = reader.total, !.page = @ + 1, !.kind = kind]
    BY <1>1, <1>3, <1>4, <1>7, <2>1 DEF NextAnswer, Readers
  <2>3. reader.edits = <<>> => reader.total = Len(rows)
    BY <1>7 DEF PagedInv, Progress
  <2>4. kind = "read" => Len(page) < PageSize \/ Len(all) >= reader.total
    BY <2>1
  <2>5. QED
    BY <1>1, <1>2, <1>3, <1>4, <2>2, <2>3, <2>4, PageKeeps
<1>8. QED
  BY <1>5, <1>6, <1>7 DEF ReadInvoices

LEMMA SearchKeeps == ASSUME PagedInv, SearchInvoice PROVE PagedInv'
<1>1. reader \in Readers /\ rows \in Seq(Items) /\ rows' = rows /\ reader.base \in {0, 1}
  BY DEF PagedInv, SearchInvoice, Readers
<1>2. CASE reader' = Is("failed", reader)
  BY <1>1, <1>2, EndKeeps
<1>3. CASE reader' = [Is("matched", reader) EXCEPT !.got = IF wrapped THEN PageAt(1, reader.base) ELSE <<>>]
  <2>1. PICK page \in Seq(Items) : page = IF wrapped THEN PageAt(1, reader.base) ELSE <<>>
    <3>1. PageAt(1, reader.base) \in Seq(Items)
      <4>1. 1 \in Nat /\ 1 >= reader.base
        BY <1>1
      <4>2. QED
        BY <1>1, <4>1, PageIsPage
    <3>2. <<>> \in Seq(Items)
      OBVIOUS
    <3>3. QED
      BY <3>1, <3>2
  <2>2. reader' \in Readers /\ reader'.kind = "matched"
    BY <1>1, <1>3, <2>1 DEF Is, Readers, Ends
  <2>3. QED
    BY <1>1, <2>2 DEF PagedInv, Reading, ReadingIsWhole
<1>4. QED
  BY <1>2, <1>3 DEF SearchInvoice

\* What an edit is remembered by.
LEMMA EditsGrow ==
    ASSUME reader \in Readers, NEW what \in {"insert", "delete"}, Edits(what)
    PROVE  /\ reader' \in Readers /\ reader'.edits # <<>>
           /\ reader'.kind = reader.kind /\ reader'.page = reader.page /\ reader'.base = reader.base
           /\ reader'.was = reader.was /\ reader'.got = reader.got
           /\ Edited(what)'
           /\ \A w \in {"insert", "delete"} : Edited(w) => Edited(w)'
<1>1. reader' = [reader EXCEPT !.edits = Append(@, what)] /\ reader.edits \in Seq({"insert", "delete"})
  BY DEF Edits, Readers
<1>2. PICK n \in Nat : n = Len(reader.edits)
  BY <1>1
<1>3. PICK edits \in Seq({"insert", "delete"}) :
          /\ edits = Append(reader.edits, what) /\ Len(edits) = n + 1
          /\ \A i \in 1..n : edits[i] = reader.edits[i]
          /\ edits[n + 1] = what
  BY <1>1, <1>2, AppendProperties
<1>4. /\ reader' \in Readers /\ reader'.edits = edits
      /\ reader'.kind = reader.kind /\ reader'.page = reader.page /\ reader'.base = reader.base
      /\ reader'.was = reader.was /\ reader'.got = reader.got
  BY <1>1, <1>3 DEF Readers
<1>5. edits # <<>>
  BY <1>3
<1>6. Edited(what)'
  BY <1>3, <1>4 DEF Edited
<1>7. ASSUME NEW w \in {"insert", "delete"}, Edited(w) PROVE Edited(w)'
  BY <1>2, <1>3, <1>4, <1>7 DEF Edited
<1>8. QED
  BY <1>4, <1>5, <1>6, <1>7

LEMMA InsertKeeps == ASSUME PagedInv, Insert PROVE PagedInv'
<1>1. reader \in Readers /\ rows \in Seq(Items) /\ Edits("insert") /\ reader.kind \in {"find", "insight", "more"}
  BY DEF PagedInv, Insert, Edits
<1>2. /\ reader' \in Readers /\ reader'.edits # <<>>
      /\ reader'.kind = reader.kind /\ reader'.page = reader.page /\ reader'.was = reader.was /\ reader'.got = reader.got
      /\ Edited("insert")' /\ (Edited("delete") => Edited("delete")') /\ wrapped' = wrapped
  BY <1>1, EditsGrow DEF Edits
<1>3. PICK i \in (IF Reading("find") THEN {Len(rows) + 1} ELSE 1..(Len(rows) + 1)), row \in Rows(reader.kind) :
          rows' = InsertAt(rows, i, [id |-> MaxRows + Len(reader'.edits), row |-> row])
  BY DEF Insert
<1>4. PICK item \in Items : rows' = InsertAt(rows, i, item)
  <2>1. reader'.edits \in Seq({"insert", "delete"})
    BY <1>2 DEF Readers
  <2>2. MaxRows + Len(reader'.edits) \in Nat
    BY <2>1, PagedAssumption
  <2>3. row \in Parties \cup Invoices \cup Booked
    BY DEF Rows
  <2>4. [id |-> MaxRows + Len(reader'.edits), row |-> row] \in Items
    BY <2>2, <2>3 DEF Items
  <2>5. QED
    BY <1>3, <2>4
<1>5. i \in 1..(Len(rows) + 1) /\ (Reading("find") => i = Len(rows) + 1)
  BY <1>1
<1>6. rows' \in Seq(Items) /\ Len(rows') = Len(rows) + 1 /\ \A j \in 1..(i - 1) : rows'[j] = rows[j]
  <2>1. PICK n \in Nat : n = Len(rows) /\ i \in 1..(n + 1)
    BY <1>1, <1>5
  <2>2. /\ InsertAt(rows, i, item) \in Seq(Items) /\ Len(InsertAt(rows, i, item)) = Len(rows) + 1
        /\ \A j \in 1..(Len(rows) + 1) :
              InsertAt(rows, i, item)[j] = IF j < i THEN rows[j] ELSE IF j = i THEN item ELSE rows[j - 1]
    <3>1. rows \in Seq(Items) /\ i \in 1..(Len(rows) + 1)
      BY <1>1, <1>5
    <3>2. QED
      BY <3>1, InsertionKeeps
  <2>3. PICK new : new = InsertAt(rows, i, item)
    OBVIOUS
  <2>4. ASSUME NEW j \in 1..(i - 1) PROVE new[j] = rows[j]
    <3>1. j \in 1..(Len(rows) + 1) /\ j < i
      BY <2>1
    <3>2. QED
      BY <2>2, <2>3, <3>1
  <2>5. rows' = new
    BY <1>4, <2>3
  <2>6. QED
    BY <2>2, <2>3, <2>4, <2>5, Zenon
<1>7. Reading("find")' => Finding'
  <2>1. SUFFICES ASSUME reader.kind = "find" PROVE Finding'
    BY <1>2 DEF Reading
  <2>2. Finding /\ i = Len(rows) + 1
    BY <1>5, <2>1 DEF PagedInv, Reading
  <2>3. PICK n \in Nat, w \in Nat : n = Len(rows) /\ w = Len(reader.was)
    BY <1>1 DEF Readers
  <2>4. ASSUME w <= n, NEW j \in 1..w PROVE j \in 1..(i - 1)
    BY <2>2, <2>3, <2>4
  <2>5. QED
    BY <1>2, <1>6, <2>2, <2>3, <2>4 DEF Finding
<1>8. Reading("insight")' \/ Reading("more")' => Progress'
  <2>1. SUFFICES ASSUME reader.kind \in {"insight", "more"} PROVE Progress'
    BY <1>2 DEF Reading
  <2>2. Progress
    BY <2>1 DEF PagedInv, Reading
  <2>3. QED
    BY <1>2, <2>2 DEF Progress, Reading
<1>9. ReadingIsWhole'
  BY <1>1, <1>2 DEF ReadingIsWhole, Reading
<1>10. QED
  BY <1>2, <1>6, <1>7, <1>8, <1>9 DEF PagedInv

LEMMA DeleteKeeps == ASSUME PagedInv, Delete PROVE PagedInv'
<1>1. reader \in Readers /\ rows \in Seq(Items) /\ Edits("delete") /\ reader.kind \in {"find", "insight", "more"}
  BY DEF PagedInv, Delete, Edits
<1>2. /\ reader' \in Readers /\ reader'.edits # <<>>
      /\ reader'.kind = reader.kind /\ reader'.page = reader.page /\ reader'.base = reader.base /\ reader'.got = reader.got
      /\ Edited("delete")' /\ (Edited("insert") => Edited("insert")')
  BY <1>1, EditsGrow
<1>3. PICK i \in 1..Len(rows) : rows' = RemoveAt(rows, i)
  BY DEF Delete
<1>4. PICK n \in Nat : n = Len(rows)
  BY <1>1
<1>5. /\ rows' \in Seq(Items) /\ Len(rows') = n - 1
      /\ \A j \in 1..(n - 1) : rows'[j] = IF j < i THEN rows[j] ELSE rows[j + 1]
  BY <1>1, <1>3, <1>4, DeletionKeeps
<1>6. ASSUME NEW j \in 1..(n - 1)
      PROVE  \E q \in 1..n : rows'[j] = rows[q] /\ q >= j /\ (q = IF j < i THEN j ELSE j + 1)
  <2>1. CASE j < i
    BY <1>4, <1>5, <2>1
  <2>2. CASE ~(j < i)
    <3>1. j + 1 \in 1..n
      OBVIOUS
    <3>2. QED
      BY <1>5, <2>2, <3>1
  <2>3. QED
    BY <2>1, <2>2
<1>7. Rising(rows) => Rising(rows')
  <2>1. SUFFICES ASSUME Rising(rows), NEW j \in 1..(n - 1), NEW k \in 1..(n - 1), j < k
                 PROVE  rows'[j].id < rows'[k].id
    BY <1>5 DEF Rising
  <2>2. PICK q \in 1..n : rows'[j] = rows[q] /\ q = IF j < i THEN j ELSE j + 1
    BY <1>6
  <2>3. PICK r \in 1..n : rows'[k] = rows[r] /\ r = IF k < i THEN k ELSE k + 1
    BY <1>6
  <2>4. q < r
    <3>1. q = IF j < i THEN j ELSE j + 1
      BY <2>2
    <3>2. r = IF k < i THEN k ELSE k + 1
      BY <2>3
    <3>3. QED
      BY <1>4, <2>1, <3>1, <3>2
  <2>5. QED
    BY <1>4, <2>1, <2>2, <2>3, <2>4 DEF Rising
<1>8. ASSUME NEW from \in Int, Ahead(rows, reader.got, from) PROVE Ahead(rows', reader.got, from)
  <2>1. SUFFICES ASSUME NEW j \in 1..(n - 1), NEW g \in 1..Len(reader.got), j > from
                 PROVE  reader.got[g].id < rows'[j].id
    BY <1>5 DEF Ahead
  <2>2. PICK q \in 1..n : rows'[j] = rows[q] /\ q >= j
    BY <1>6
  <2>3. q > from
    BY <2>1, <2>2
  <2>4. QED
    BY <1>4, <1>8, <2>2, <2>3 DEF Ahead
<1>9. Reading("find")' => Finding'
  BY <1>2 DEF PagedInv, Finding, Reading
<1>10. Reading("insight")' \/ Reading("more")' => Progress'
  <2>1. SUFFICES ASSUME reader.kind \in {"insight", "more"} PROVE Progress'
    BY <1>2 DEF Reading
  <2>2. Progress
    BY <2>1 DEF PagedInv, Reading
  <2>3. From \in Int /\ From' = From
    <3>1. reader.page \in Nat /\ reader.base \in {0, 1}
      BY <1>1 DEF Readers
    <3>2. QED
      BY <1>2, <3>1, PagedAssumption DEF From
  <2>4. ~Edited("insert")' => Rising(rows') /\ Rising(reader'.got) /\ Ahead(rows', reader'.got, From')
    BY <1>2, <1>7, <1>8, <2>2, <2>3 DEF Progress
  <2>5. QED
    BY <1>2, <2>2, <2>4 DEF Progress, Reading
<1>11. ReadingIsWhole'
  BY <1>1, <1>2 DEF ReadingIsWhole, Reading
<1>12. QED
  BY <1>2, <1>5, <1>9, <1>10, <1>11 DEF PagedInv

LEMMA UnreadIsOne == <<>> \in Seq(Items) /\ Unread \in Readers /\ Unread.kind = "none"
<1>1. <<>> \in Seq(Items) /\ <<>> \in Seq({"insert", "delete"})
  OBVIOUS
<1>2. QED
  BY <1>1 DEF Unread, Readers

LEMMA PagedInvariant == Spec => []PagedInv
<1>1. Init => PagedInv
  BY UnreadIsOne DEF Init, PagedInit, PagedInv, Reading, ReadingIsWhole
<1>2. ASSUME PagedInv, PagedNext PROVE PagedInv'
  <2>1. CASE Close
    <3>1. rows' = <<>> /\ reader' = Unread
      BY <2>1 DEF Close
    <3>2. QED
      BY <3>1, UnreadIsOne DEF PagedInv, Reading, ReadingIsWhole
  <2>2. QED
    BY <1>2, <2>1, BeginKeeps, FindKeeps, ReadKeeps, SearchKeeps, InsertKeeps, DeleteKeeps DEF PagedNext
<1>3. ASSUME PagedInv, UNCHANGED pagedVars PROVE PagedInv'
  BY <1>3 DEF PagedInv, pagedVars, Finding, Progress, ReadingIsWhole, Reading, Edited, Skip, From
<1>4. PagedInv /\ [Next]_vars => PagedInv'
  BY <1>2, <1>3 DEF Next, vars
<1>5. QED
  BY <1>1, <1>4, PTL DEF Spec

(* A reading by pages is one list, however long it is and whatever others do to *)
(* it meanwhile, as ReadingIsWhole says it (find_thirdparty_by_tax_id, and the  *)
(* loops of insights/).                                                         *)
THEOREM PagesMakeOneList == Spec => []ReadingIsWhole
<1>1. PagedInv => ReadingIsWhole
  BY DEF PagedInv
<1>2. QED
  BY <1>1, PagedInvariant, PTL

-----------------------------------------------------------------------------
(***************************************************************************)
(* The insights, of any list of invoices. An invoice counts for the one     *)
(* third party it is of, so that a ranking is summed up by invoices as      *)
(* well as by third parties.                                                *)
(***************************************************************************)

OfInvoices(list) == \A i \in 1..Len(list) : list[i].row \in Invoices

\* What an invoice counts for in the ranking, if "debtors" are shown.
Share(r, debtors) == IF Pending(r) /\ r.row.party \in debtors THEN Remaining(r) ELSE 0

Shares(invoices, debtors) == [i \in 1..Len(invoices) |-> Share(invoices[i], debtors)]

LEMMA RemainingIsInt == ASSUME NEW r, r.row \in Invoices PROVE Remaining(r) \in Int
<1>1. (CHOOSE x \in {0} : TRUE) = 0
  OBVIOUS
<1>2. QED
  BY <1>1 DEF Remaining, Invoices

LEMMA SharesAreTyped ==
    ASSUME NEW got \in Seq(Items), OfInvoices(got), NEW debtors
    PROVE  Shares(got, debtors) \in Seq(Int) /\ Len(Shares(got, debtors)) = Len(got)
<1>1. ASSUME NEW i \in 1..Len(got) PROVE Share(got[i], debtors) \in Int
  BY RemainingIsInt DEF OfInvoices, Share
<1>2. QED
  BY <1>1 DEF Shares

\* The more are shown, the more they owe.
LEMMA SharesGrow ==
    ASSUME NEW got \in Seq(Items), OfInvoices(got), NEW more, NEW few \in SUBSET more
    PROVE  Total(Shares(got, few)) <= Total(Shares(got, more))
<1>1. PICK u \in Seq(Int) : u = Shares(got, few) /\ Len(u) = Len(got)
  BY SharesAreTyped
<1>2. PICK v \in Seq(Int) : v = Shares(got, more) /\ Len(v) = Len(got)
  BY SharesAreTyped
<1>3. ASSUME NEW i \in 1..Len(got) PROVE u[i] <= v[i]
  <2>1. u[i] = Share(got[i], few) /\ v[i] = Share(got[i], more)
    BY <1>1, <1>2 DEF Shares
  <2>2. PICK x \in Int : x = Remaining(got[i])
    BY RemainingIsInt DEF OfInvoices
  <2>3. QED
    BY <2>1, <2>2 DEF Share, Pending
<1>4. QED
  BY <1>1, <1>2, <1>3, TotalIsMonotone

\* What one owes, and what all owe.
LEMMA OwesIsShare == ASSUME NEW got, NEW p PROVE Owes(got, p) = Total(Shares(got, {p}))
<1>1. \A i \in 1..Len(got) : (IF Pending(got[i]) /\ got[i].row.party = p THEN Remaining(got[i]) ELSE 0) = Share(got[i], {p})
  BY DEF Share
<1>2. QED
  BY <1>1 DEF Owes, Shares

LEMMA OutstandingIsShare == ASSUME NEW got PROVE OutstandingSummary(got) = Total(Shares(got, Debtors(got)))
<1>1. ASSUME NEW i \in 1..Len(got)
      PROVE  (IF Remaining(got[i]) > 0 THEN Remaining(got[i]) ELSE 0) = Share(got[i], Debtors(got))
  <2>1. Pending(got[i]) => got[i].row.party \in Debtors(got)
    BY DEF Debtors
  <2>2. QED
    BY <2>1 DEF Share, Pending
<1>2. [i \in 1..Len(got) |-> IF Remaining(got[i]) > 0 THEN Remaining(got[i]) ELSE 0] = Shares(got, Debtors(got))
  BY <1>1, Zenon DEF Shares
<1>3. QED
  BY <1>2, Zenon DEF OutstandingSummary

\* The sum of a ranking is the sum of the invoices of those it shows: each invoice is one's.
LEMMA RankingAddsUp ==
    ASSUME NEW got \in Seq(Items), OfInvoices(got), NEW m \in Nat, NEW order, order \in [1..m -> Debtors(got)],
           \A i, j \in 1..m : order[i] = order[j] => i = j
    PROVE  TotalOutstanding(got, order) = Total(Shares(got, {order[k] : k \in 1..m}))
<1> DEFINE shown == {order[k] : k \in 1..m}
           t     == [k \in 1..m |-> [i \in 1..Len(got) |-> Share(got[i], {order[k]})]]
<1>1. PICK n \in Nat : n = Len(got)
  OBVIOUS
<1>2. \A k \in 1..m, i \in 1..n : Share(got[i], {order[k]}) \in Int
  BY <1>1, RemainingIsInt DEF OfInvoices, Share
<1>3. t \in [1..m -> [1..n -> Int]]
  BY <1>1, <1>2
<1>4. ByRows(t, m, n) = TotalOutstanding(got, order)
  <2>1. ASSUME NEW k \in 1..m PROVE Total(Row(t, k, n)) = Owes(got, order[k])
    <3>1. Row(t, k, n) = Shares(got, {order[k]})
      BY <1>1 DEF Row, Shares
    <3>2. QED
      BY <3>1, OwesIsShare
  <2>2. Len(order) = m
    OBVIOUS
  <2>3. [k \in 1..m |-> Total(Row(t, k, n))] = [k \in 1..Len(order) |-> Owes(got, order[k])]
    <3> HIDE DEF t
    <3>1. QED
      BY <2>1, <2>2, Zenon
  <2>4. QED
    <3> HIDE DEF t
    <3>1. QED
      BY <2>3, Zenon DEF ByRows, TotalOutstanding
<1>5. ByCols(t, m, n) = Total(Shares(got, shown))
  <2>1. ASSUME NEW i \in 1..n PROVE Total(Column(t, i, m)) = Share(got[i], shown)
    <3>1. PICK c \in Seq(Int) : c = Column(t, i, m) /\ Len(c) = m /\ \A k \in 1..m : c[k] = Share(got[i], {order[k]})
      <4>1. Column(t, i, m) = [k \in 1..m |-> Share(got[i], {order[k]})]
        BY <1>1 DEF Column
      <4>2. \A k \in 1..m : Share(got[i], {order[k]}) \in Int
        BY <1>2
      <4>3. PICK c : c = [k \in 1..m |-> Share(got[i], {order[k]})]
        OBVIOUS
      <4>4. c \in Seq(Int) /\ Len(c) = m /\ \A k \in 1..m : c[k] = Share(got[i], {order[k]})
        BY <4>2, <4>3
      <4>5. QED
        BY <4>1, <4>3, <4>4
    <3> Len(c) = m
      BY <3>1
    <3>2. CASE Pending(got[i]) /\ got[i].row.party \in shown
      <4>1. PICK q \in 1..m : got[i].row.party = order[q]
        BY <3>2
      <4>2. PICK x \in Int : x = Remaining(got[i])
        BY <1>1, RemainingIsInt DEF OfInvoices
      <4>3. \A k \in 1..m : c[k] = IF k = q THEN x ELSE 0
        BY <3>1, <3>2, <4>1, <4>2 DEF Share
      <4>4. Total(c) = x
        <5>1. q \in Nat /\ q \in 1..Len(c) /\ \A k \in 1..Len(c) : c[k] = IF k = q THEN x ELSE 0
          BY <4>3
        <5>2. Total(c) = IF q \in 1..Len(c) THEN x ELSE 0
          <6> HIDE DEF t, shown
          <6>1. QED
            BY <5>1, TotalOfOne
        <5>3. QED
          BY <5>1, <5>2
      <4>5. QED
        BY <3>1, <3>2, <4>2, <4>4 DEF Share
    <3>3. CASE ~(Pending(got[i]) /\ got[i].row.party \in shown)
      <4>1. \A k \in 1..m : c[k] = IF k = 0 THEN 0 ELSE 0
        BY <3>1, <3>3 DEF Share
      <4>2. Total(c) = 0
        <5>1. 0 \in Nat /\ 0 \in Int /\ \A k \in 1..Len(c) : c[k] = IF k = 0 THEN 0 ELSE 0
          BY <4>1
        <5>2. Total(c) = IF 0 \in 1..Len(c) THEN 0 ELSE 0
          <6> HIDE DEF t, shown
          <6>1. QED
            BY <5>1, TotalOfOne
        <5>3. QED
          BY <5>2
      <4>3. QED
        BY <3>1, <3>3, <4>2 DEF Share
    <3>4. QED
      BY <3>2, <3>3
  <2>2. [i \in 1..n |-> Total(Column(t, i, m))] = Shares(got, shown)
    <3> HIDE DEF t, shown
    <3>1. QED
      BY <1>1, <2>1, Zenon DEF Shares
  <2>3. QED
    <3> HIDE DEF t, shown
    <3>1. QED
      BY <2>2, Zenon DEF ByCols
<1>6. QED
  <2> HIDE DEF t
  <2>1. QED
    BY <1>3, <1>4, <1>5, TotalOfTable

LEMMA DebtorsAreFinite ==
    ASSUME NEW got \in Seq(Items)
    PROVE  /\ IsFiniteSet(Debtors(got)) /\ Cardinality(Debtors(got)) \in Nat
           /\ Ranked(got) \in Nat
           /\ Cardinality(Debtors(got)) <= RankLimit => Ranked(got) = Cardinality(Debtors(got))
<1> DEFINE pending == {j \in 1..Len(got) : Pending(got[j])}
<1>1. IsFiniteSet(pending)
  <2>1. IsFiniteSet(1..Len(got))
    BY FS_Interval
  <2>2. QED
    BY <2>1, FS_Subset
<1>2. PICK f : f = [i \in pending |-> got[i].row.party]
  OBVIOUS
<1>3. f \in Surjection(pending, Debtors(got))
  <2>1. ASSUME NEW p \in Debtors(got) PROVE \E i \in pending : f[i] = p
    <3>1. PICK i \in pending : p = got[i].row.party
      BY DEF Debtors
    <3>2. QED
      BY <1>2, <3>1
  <2>2. f \in [pending -> Debtors(got)]
    BY <1>2 DEF Debtors
  <2>3. QED
    <3> HIDE DEF pending
    <3>1. QED
      BY <2>1, <2>2 DEF Surjection
<1>4. IsFiniteSet(Debtors(got))
  <2> HIDE DEF pending
  <2>1. QED
    BY <1>1, <1>3, FS_Surjection
<1>5. Cardinality(Debtors(got)) \in Nat
  BY <1>4, FS_CardinalityType
<1>6. QED
  BY <1>4, <1>5, PagedAssumption DEF Ranked

\* A ranking as long as there are debtors shows them all.
LEMMA LongRankingIsWhole ==
    ASSUME NEW D, IsFiniteSet(D), NEW m \in Nat, m = Cardinality(D), NEW order \in [1..m -> D],
           \A i, j \in 1..m : order[i] = order[j] => i = j
    PROVE  {order[k] : k \in 1..m} = D
<1>1. order \in Injection(1..m, D)
  BY DEF Injection, IsInjective
<1>2. Cardinality(1..m) = m
  BY FS_Interval
<1>3. order \in Surjection(1..m, D)
  BY <1>1, <1>2, FS_Injection
<1>4. QED
  BY <1>3 DEF Surjection

\* The insights of any list of invoices.
LEMMA SummariesAgree ==
    ASSUME NEW got \in Seq(Items), OfInvoices(got)
    PROVE  /\ \A order \in OutstandingByThirdparty(got) :
                 /\ TotalOutstanding(got, order) <= OutstandingSummary(got)
                 /\ Cardinality(Debtors(got)) <= RankLimit => TotalOutstanding(got, order) = OutstandingSummary(got)
           /\ SummaryOutstanding(got) <= OutstandingSummary(got)
           /\ \A p \in Debtors(got) : SummaryByThirdparty(got, p) <= Owes(got, p)
<1>1. PICK n \in Nat : n = Len(got)
  OBVIOUS
<1>2. \A i \in 1..n : Remaining(got[i]) \in Int
  BY <1>1, RemainingIsInt DEF OfInvoices
<1>3. ASSUME NEW order \in OutstandingByThirdparty(got)
      PROVE  /\ TotalOutstanding(got, order) <= OutstandingSummary(got)
             /\ Cardinality(Debtors(got)) <= RankLimit => TotalOutstanding(got, order) = OutstandingSummary(got)
  <2>1. PICK m \in Nat : m = Ranked(got)
    BY DebtorsAreFinite
  <2>2. order \in [1..m -> Debtors(got)] /\ \A i, j \in 1..m : order[i] = order[j] => i = j
    BY <2>1 DEF OutstandingByThirdparty
  <2>3. PICK shown : shown = {order[k] : k \in 1..m}
    OBVIOUS
  <2>4. TotalOutstanding(got, order) = Total(Shares(got, shown))
    BY <2>2, <2>3, RankingAddsUp
  <2>5. OutstandingSummary(got) = Total(Shares(got, Debtors(got)))
    BY OutstandingIsShare
  <2>6. Total(Shares(got, shown)) <= Total(Shares(got, Debtors(got)))
    <3>1. shown \subseteq Debtors(got)
      BY <2>2, <2>3
    <3>2. QED
      BY <3>1, SharesGrow
  <2>7. Cardinality(Debtors(got)) <= RankLimit => shown = Debtors(got)
    <3>1. SUFFICES ASSUME Cardinality(Debtors(got)) <= RankLimit PROVE shown = Debtors(got)
      OBVIOUS
    <3>2. IsFiniteSet(Debtors(got)) /\ m = Cardinality(Debtors(got))
      BY <2>1, <3>1, DebtorsAreFinite
    <3>3. QED
      BY <2>2, <2>3, <3>2, LongRankingIsWhole
  <2>8. QED
    BY <2>4, <2>5, <2>6, <2>7
<1>4. SummaryOutstanding(got) <= OutstandingSummary(got)
  <2>1. PICK u \in Seq(Int) : /\ u = [i \in 1..Len(got) |-> Remaining(got[i])] /\ Len(u) = n
                              /\ \A i \in 1..n : u[i] = Remaining(got[i])
    <3>1. PICK u : u = [i \in 1..n |-> Remaining(got[i])]
      OBVIOUS
    <3>2. u \in Seq(Int) /\ Len(u) = n /\ \A i \in 1..n : u[i] = Remaining(got[i])
      BY <1>2, <3>1
    <3>3. QED
      BY <1>1, <3>1, <3>2
  <2>2. PICK v \in Seq(Int) : /\ v = [i \in 1..Len(got) |-> IF Remaining(got[i]) > 0 THEN Remaining(got[i]) ELSE 0]
                              /\ Len(v) = n /\ \A i \in 1..n : v[i] = IF Remaining(got[i]) > 0 THEN Remaining(got[i]) ELSE 0
    <3>1. PICK v : v = [i \in 1..n |-> IF Remaining(got[i]) > 0 THEN Remaining(got[i]) ELSE 0]
      OBVIOUS
    <3>2. v \in Seq(Int) /\ Len(v) = n /\ \A i \in 1..n : v[i] = IF Remaining(got[i]) > 0 THEN Remaining(got[i]) ELSE 0
      BY <1>2, <3>1
    <3>3. QED
      BY <1>1, <3>1, <3>2
  <2>3. ASSUME NEW i \in 1..n PROVE u[i] <= v[i]
    BY <1>2, <2>1, <2>2
  <2>4. Total(u) <= Total(v)
    BY <2>1, <2>2, <2>3, TotalIsMonotone
  <2>5. QED
    BY <2>1, <2>2, <2>4 DEF SummaryOutstanding, OutstandingSummary
<1>5. ASSUME NEW p \in Debtors(got) PROVE SummaryByThirdparty(got, p) <= Owes(got, p)
  <2>1. PICK u \in Seq(Int) : /\ u = [i \in 1..Len(got) |-> IF got[i].row.party = p THEN Remaining(got[i]) ELSE 0]
                              /\ Len(u) = n /\ \A i \in 1..n : u[i] = IF got[i].row.party = p THEN Remaining(got[i]) ELSE 0
    <3>1. PICK u : u = [i \in 1..n |-> IF got[i].row.party = p THEN Remaining(got[i]) ELSE 0]
      OBVIOUS
    <3>2. u \in Seq(Int) /\ Len(u) = n /\ \A i \in 1..n : u[i] = IF got[i].row.party = p THEN Remaining(got[i]) ELSE 0
      BY <1>2, <3>1
    <3>3. QED
      BY <1>1, <3>1, <3>2
  <2>2. PICK v \in Seq(Int) : v = Shares(got, {p}) /\ Len(v) = n
    BY <1>1, SharesAreTyped
  <2>3. ASSUME NEW i \in 1..n PROVE u[i] <= v[i]
    <3>1. v[i] = Share(got[i], {p})
      BY <1>1, <2>2 DEF Shares
    <3>2. PICK x \in Int : x = Remaining(got[i])
      BY <1>2
    <3>3. QED
      BY <2>1, <3>1, <3>2 DEF Share, Pending
  <2>4. Total(u) <= Total(v)
    BY <2>1, <2>2, <2>3, TotalIsMonotone
  <2>5. QED
    BY <2>1, <2>2, <2>4, OwesIsShare DEF SummaryByThirdparty
<1>6. QED
  BY <1>3, <1>4, <1>5

-----------------------------------------------------------------------------
(***************************************************************************)
(* Whatever is owed there is a ranking of those who owe: what is said of    *)
(* all rankings is said of some.                                            *)
(***************************************************************************)

\* A ranking of m of those who owe, by what they owe.
Ranks(order, D, w, m) ==
    /\ order \in [1..m -> D]
    /\ \A i, j \in 1..m : order[i] = order[j] => i = j
    /\ \A i \in 1..m, p \in D : w[p] > w[order[i]] => \E j \in 1..(i - 1) : order[j] = p

\* Some of them owe most.
LEMMA SomeOweMost ==
    ASSUME NEW R, R # {}, NEW w, \A p \in R : w[p] \in Int, NEW most \in Int, \A p \in R : w[p] <= most
    PROVE  \E p \in R : \A q \in R : w[q] <= w[p]
<1>1. PICK T : T = {x \in Nat : \E p \in R : w[p] = most - x}
  OBVIOUS
<1>2. \A p \in R : most - w[p] \in T
  <2>1. ASSUME NEW p \in R PROVE most - w[p] \in T
    <3>1. PICK a \in Int : a = w[p] /\ a <= most
      OBVIOUS
    <3>2. most - a \in Nat /\ most - (most - a) = a
      BY <3>1
    <3>3. QED
      BY <1>1, <3>1, <3>2
  <2>2. QED
    BY <2>1
<1>3. T # {} /\ T \subseteq Nat
  BY <1>1, <1>2
<1>4. PICK x \in T : \A y \in T : ~ (<<y, x>> \in OpToRel(<, Nat))
  BY <1>3, NatLessThanWellFounded, WFMin, Zenon
<1>5. PICK p \in R : w[p] = most - x
  BY <1>1
<1>6. ASSUME NEW q \in R PROVE w[q] <= w[p]
  <2>1. PICK a \in Int, b \in Int : a = w[q] /\ b = w[p] /\ b = most - x
    BY <1>5
  <2>2. most - a \in T
    BY <1>2, <2>1, Zenon
  <2>3. most - a \in Nat /\ x \in Nat /\ ~(most - a < x)
    <3>1. most - a \in Nat /\ x \in Nat
      BY <1>3, <2>2
    <3>2. ~(<<most - a, x>> \in OpToRel(<, Nat))
      BY <1>4, <2>2
    <3>3. QED
      BY <3>1, <3>2, Zenon DEF OpToRel
  <2>4. a <= b
    BY <2>1, <2>3
  <2>5. QED
    BY <2>1, <2>4
<1>7. QED
  BY <1>6

LEMMA RanksExist ==
    ASSUME NEW D, IsFiniteSet(D), NEW w, \A p \in D : w[p] \in Int, NEW most \in Int, \A p \in D : w[p] <= most,
           NEW m \in Nat, m <= Cardinality(D)
    PROVE  \E order : Ranks(order, D, w, m)
<1> DEFINE S == {k \in Nat : k <= Cardinality(D) => \E order : Ranks(order, D, w, k)}
<1>1. Cardinality(D) \in Nat
  BY FS_CardinalityType
<1>2. 0 \in S
  <2>1. PICK none : none = [i \in 1..0 |-> 0]
    OBVIOUS
  <2>2. none \in [1..0 -> D]
    BY <2>1
  <2>3. Ranks(none, D, w, 0)
    BY <2>2 DEF Ranks
  <2>4. QED
    BY <2>3
<1>3. ASSUME NEW k \in Nat, k \in S PROVE k + 1 \in S
  <2>1. SUFFICES ASSUME k + 1 <= Cardinality(D) PROVE \E order : Ranks(order, D, w, k + 1)
    OBVIOUS
  <2>2. PICK order : Ranks(order, D, w, k)
    BY <1>1, <1>3, <2>1
  <2>3. order \in [1..k -> D]
    BY <2>2 DEF Ranks
  <2>4. PICK R : R = D \ {order[i] : i \in 1..k}
    OBVIOUS
  <2>5. R # {}
    <3>1. SUFFICES ASSUME R = {} PROVE FALSE
      OBVIOUS
    <3>2. order \in Surjection(1..k, D)
      BY <2>3, <2>4, <3>1 DEF Surjection
    <3>3. IsFiniteSet(1..k) /\ Cardinality(1..k) = k
      BY FS_Interval
    <3>4. Cardinality(D) <= k
      BY <3>2, <3>3, FS_Surjection
    <3>5. QED
      BY <1>1, <2>1, <3>4
  <2>6. PICK p \in R : \A q \in R : w[q] <= w[p]
    <3>1. \A q \in R : w[q] \in Int /\ w[q] <= most
      BY <2>4
    <3>2. QED
      BY <2>5, <3>1, SomeOweMost
  <2>7. p \in D /\ \A i \in 1..k : order[i] # p
    BY <2>4
  <2>8. PICK next : next = [i \in 1..(k + 1) |-> IF i = k + 1 THEN p ELSE order[i]]
    OBVIOUS
  <2>9. next \in [1..(k + 1) -> D] /\ next[k + 1] = p /\ \A i \in 1..k : next[i] = order[i]
    BY <2>3, <2>7, <2>8
  <2>10. ASSUME NEW i \in 1..(k + 1), NEW j \in 1..(k + 1), next[i] = next[j] PROVE i = j
    <3>1. CASE i \in 1..k /\ j \in 1..k
      BY <2>2, <2>9, <2>10, <3>1 DEF Ranks
    <3>2. CASE i = k + 1 /\ j \in 1..k
      BY <2>7, <2>9, <2>10, <3>2
    <3>3. CASE i \in 1..k /\ j = k + 1
      BY <2>7, <2>9, <2>10, <3>3
    <3>4. QED
      BY <3>1, <3>2, <3>3
  <2>11. ASSUME NEW i \in 1..(k + 1), NEW q \in D, w[q] > w[next[i]] PROVE \E j \in 1..(i - 1) : next[j] = q
    <3>1. CASE i \in 1..k
      <4>1. PICK j \in 1..(i - 1) : order[j] = q
        BY <2>2, <2>9, <2>11, <3>1 DEF Ranks
      <4>2. j \in 1..k
        BY <3>1
      <4>3. QED
        BY <2>9, <4>1, <4>2
    <3>2. CASE i = k + 1
      <4>1. w[q] > w[p]
        BY <2>9, <2>11, <3>2
      <4>2. q \notin R
        <5>1. w[q] \in Int /\ w[p] \in Int
          BY <2>7
        <5>2. QED
          BY <2>6, <4>1, <5>1
      <4>3. PICK j \in 1..k : order[j] = q
        BY <2>4, <4>2
      <4>4. j \in 1..(i - 1) /\ next[j] = q
        BY <2>9, <3>2, <4>3
      <4>5. QED
        BY <4>4
    <3>3. QED
      BY <3>1, <3>2
  <2>12. Ranks(next, D, w, k + 1)
    BY <2>9, <2>10, <2>11 DEF Ranks
  <2>13. QED
    BY <2>12
<1>4. \A k \in Nat : k \in S
  <2> HIDE DEF S
  <2>1. QED
    BY <1>2, <1>3, Counting
<1>5. QED
  BY <1>4

(* Of any invoices there is a ranking, as long as it may be, in which nobody    *)
(* comes before who owes more (customer_outstanding_by_thirdparty).             *)
THEOREM RankingExists ==
    ASSUME NEW got \in Seq(Items), OfInvoices(got) PROVE OutstandingByThirdparty(got) # {}
<1>1. PICK D : D = Debtors(got)
  OBVIOUS
<1>2. PICK m \in Nat : m = Ranked(got) /\ m <= Cardinality(D) /\ IsFiniteSet(D)
  BY <1>1, DebtorsAreFinite, PagedAssumption DEF Ranked
<1>3. PICK w : w = [p \in D |-> Owes(got, p)]
  OBVIOUS
<1>4. PICK most \in Int : most = OutstandingSummary(got)
  BY SharesAreTyped, OutstandingIsShare, TotalHasSums
<1>5. ASSUME NEW p \in D PROVE w[p] \in Int /\ w[p] <= most
  <2>1. w[p] = Total(Shares(got, {p})) /\ most = Total(Shares(got, D))
    BY <1>1, <1>3, <1>4, OwesIsShare, OutstandingIsShare
  <2>2. Total(Shares(got, {p})) \in Int
    BY SharesAreTyped, TotalHasSums
  <2>3. {p} \subseteq D
    OBVIOUS
  <2>4. Total(Shares(got, {p})) <= Total(Shares(got, D))
    BY <2>3, SharesGrow
  <2>5. QED
    BY <2>1, <2>2, <2>4
<1>6. PICK order : Ranks(order, D, w, m)
  BY <1>2, <1>5, RanksExist
<1>7. order \in OutstandingByThirdparty(got)
  <2>1. /\ order \in [1..m -> D]
        /\ \A i, j \in 1..m : order[i] = order[j] => i = j
        /\ \A i \in 1..m, p \in D : Owes(got, p) > Owes(got, order[i]) => \E j \in 1..(i - 1) : order[j] = p
    <3>1. \A p \in D : w[p] = Owes(got, p)
      BY <1>3
    <3>2. \A i \in 1..m : order[i] \in D
      BY <1>6 DEF Ranks
    <3>3. QED
      BY <1>6, <3>1, <3>2 DEF Ranks
  <2>2. QED
    BY <1>1, <1>2, <2>1 DEF OutstandingByThirdparty
<1>8. QED
  BY <1>7

-----------------------------------------------------------------------------
(***************************************************************************)
(* The searches for an invoice, of any page of a supplier's invoices.       *)
(***************************************************************************)

\* The rows of a page of a search: invoices beside the one in hand, each with a number of its own.
Distinct(got) ==
    /\ \A i \in 1..Len(got) : got[i].row \in Booked
    /\ \A i, j \in 1..Len(got) : got[i].id = got[j].id => i = j

LEMMA PageIsDistinct ==
    ASSUME NEW was \in Seq(Items), \A i \in 1..Len(was) : was[i].id = i /\ was[i].row \in Booked,
           NEW got \in Seq(Items), NEW from \in Nat, NEW size \in Nat, IsPage(was, got, from, size)
    PROVE  Distinct(got)
<1>1. PICK n \in Nat, k \in Nat : n = Len(was) /\ k = Len(got)
  OBVIOUS
<1>2. k = IF from >= n THEN 0 ELSE IF from + size <= n THEN size ELSE n - from
  BY <1>1 DEF IsPage
<1>3. ASSUME NEW j \in 1..k PROVE got[j].id = from + j /\ got[j].row \in Booked
  <2>1. from + j \in 1..n
    BY <1>2
  <2>2. got[j] = was[from + j]
    BY <1>1 DEF IsPage
  <2>3. QED
    BY <1>1, <2>1, <2>2
<1>4. ASSUME NEW i \in 1..k, NEW j \in 1..k, got[i].id = got[j].id PROVE i = j
  <2>1. from + i = from + j
    BY <1>3, <1>4
  <2>2. QED
    BY <2>1
<1>5. QED
  BY <1>1, <1>3, <1>4 DEF Distinct

LEMMA OfThePage ==
    ASSUME NEW got \in Seq(Items), Distinct(got)
    PROVE  /\ \A r \in ToSet(got) : r.row \in Booked /\ \E i \in 1..Len(got) : got[i] = r
           /\ \A i \in 1..Len(got) : got[i] \in ToSet(got)
           /\ \A r, q \in ToSet(got) : r.id = q.id => r = q
<1>1. DOMAIN got = 1..Len(got)
  OBVIOUS
<1>2. ToSet(got) = {got[i] : i \in 1..Len(got)}
  BY <1>1 DEF ToSet
<1>3. QED
  BY <1>2 DEF Distinct

\* Candidates are invoices of the page; who has the number of the supplier comes before those with a reference.
LEMMA CandidatesAre ==
    ASSUME NEW got
    PROVE  /\ Candidates(got) \subseteq ToSet(got)
           /\ \A r \in Candidates(got) : r.row.number = "same" \/ (r.row.number = "none" /\ r.row.ref)
           /\ \A r \in ToSet(got) : r.row.number = "same" => r \in Candidates(got)
           /\ (\A r \in ToSet(got) : r.row.number # "same") =>
                 \A r \in ToSet(got) : r.row.number = "none" /\ r.row.ref => r \in Candidates(got)
           /\ \A r \in Candidates(got) : r.row.number = "none" => \A q \in ToSet(got) : q.row.number # "same"
  BY DEF Candidates

Numbers == {"same", "none", "other"}

LEMMA BookedHas == ASSUME NEW b \in Booked
                   PROVE  b.number \in Numbers /\ b.ref \in BOOLEAN /\ (b.number = "none" => b.ref)
  BY DEF Booked, Numbers

LEMMA AdoptedIsTheOne ==
    ASSUME NEW got \in Seq(Items), Distinct(got), NEW r \in ToSet(got), Reconciled(got) = <<"unique_match", r.id>>
    PROVE  /\ r \in Candidates(got) /\ Agrees(r)
           /\ \A q \in Candidates(got) : Agrees(q) => q = r
<1> DEFINE valid  == {q \in Candidates(got) : "mismatch" \notin {q.row.date, q.row.total}}
           strong == {q \in valid : Agrees(q)}
<1>1. PICK s \in strong : strong = {s} /\ s.id = r.id
  <2>1. valid # {}
    BY DEF Reconciled
  <2>2. \E s \in strong : strong = {s}
    BY <2>1 DEF Reconciled
  <2>3. PICK s \in strong : strong = {s}
    BY <2>2
  <2>4. (CHOOSE x \in strong : TRUE) = s
    <3> HIDE DEF strong
    <3>1. QED
      BY <2>3
  <2>5. Reconciled(got) = <<"unique_match", (CHOOSE x \in strong : TRUE).id>>
    BY <2>1, <2>2 DEF Reconciled
  <2>6. s.id = r.id
    <3> HIDE DEF strong
    <3>1. <<"unique_match", s.id>> = <<"unique_match", r.id>>
      BY <2>4, <2>5
    <3>2. QED
      BY <3>1
  <2>7. QED
    BY <2>3, <2>6
<1>2. s \in Candidates(got) /\ Agrees(s) /\ s = r
  BY <1>1, CandidatesAre, OfThePage
<1>3. ASSUME NEW q \in Candidates(got), Agrees(q) PROVE q = r
  <2>1. q \in strong
    BY <1>3 DEF Agrees
  <2>2. QED
    BY <1>1, <1>2, <2>1
<1>4. QED
  BY <1>2, <1>3

LEMMA OnlyCandidateIsFirst ==
    ASSUME NEW got \in Seq(Items), Distinct(got), NEW r, Candidates(got) = {r}
    PROVE  DuplicateCheck(got) = <<"match", r.id>>
<1> DEFINE Stands(i) == got[i] \in Candidates(got) /\ \A j \in 1..(i - 1) : got[j] \notin Candidates(got)
           first     == CHOOSE i \in 1..Len(got) : Stands(i)
<1>1. PICK i \in 1..Len(got) : got[i] = r
  BY CandidatesAre, OfThePage
<1>2. ASSUME NEW j \in 1..(i - 1) PROVE got[j] \notin Candidates(got)
  <2>1. j \in 1..Len(got) /\ j # i
    OBVIOUS
  <2>2. got[j].id # got[i].id
    BY <2>1 DEF Distinct
  <2>3. QED
    BY <1>1, <2>2
<1>3. Stands(i)
  BY <1>1, <1>2
<1>4. Stands(first)
  <2> HIDE DEF Stands
  <2>1. QED
    BY <1>3
<1>5. got[first] = r
  <2> HIDE DEF first
  <2>1. QED
    BY <1>4
<1>6. DuplicateCheck(got) = <<"match", got[first].id>>
  BY DEF DuplicateCheck
<1>7. QED
  <2> HIDE DEF first
  <2>1. QED
    BY <1>5, <1>6

LEMMA FirstWords ==
    ASSUME NEW got
    PROVE  /\ DuplicateCheck(got)[1] = IF Candidates(got) = {} THEN "no_match" ELSE "match"
           /\ Candidates(got) = {} => Reconciled(got)[1] = "no_match"
<1>1. ASSUME NEW x, NEW n PROVE <<x, n>>[1] = x
  OBVIOUS
<1>2. CASE Candidates(got) = {}
  BY <1>1, <1>2 DEF DuplicateCheck, Reconciled
<1>3. CASE Candidates(got) # {}
  <2>1. PICK n : DuplicateCheck(got) = <<"match", n>>
    BY <1>3 DEF DuplicateCheck
  <2>2. QED
    BY <1>1, <1>3, <2>1
<1>4. QED
  BY <1>2, <1>3

LEMMA DuplicateExistsHas ==
    ASSUME NEW got \in Seq(Items), Distinct(got)
    PROVE  DuplicateExists(got) <=> \E r \in ToSet(got) : r.row.number = "same" \/ r.row.ref
  BY OfThePage DEF DuplicateExists

\* The searches of any page.
LEMMA SearchesOfAPage ==
    ASSUME NEW list \in Seq(Items), Distinct(list)
    PROVE  LET got  == ToSet(list)
               same == {r \in got : r.row.number = "same"} IN
           /\ \A r \in got : Reconciled(list) = <<"unique_match", r.id>> =>
                 /\ r \in same \/ (same = {} /\ r.row.ref)
                 /\ {q \in got : Agrees(q) /\ q.row.number = r.row.number} = {r}
                 /\ Candidates(list) = {r} => DuplicateCheck(list) = <<"match", r.id>>
           /\ Reconciled(list)[1] # "no_match" => DuplicateCheck(list)[1] = "match"
           /\ DuplicateCheck(list)[1] = "match" => DuplicateExists(list)
           /\ DuplicateExists(list) /\ DuplicateCheck(list)[1] = "no_match" =>
                 \E r \in got : r.row.ref /\ r.row.number = "other"
<1> DEFINE got  == ToSet(list)
           same == {r \in got : r.row.number = "same"}
<1>1. ASSUME NEW r \in got, Reconciled(list) = <<"unique_match", r.id>>
      PROVE  /\ r \in same \/ (same = {} /\ r.row.ref)
             /\ {q \in got : Agrees(q) /\ q.row.number = r.row.number} = {r}
             /\ Candidates(list) = {r} => DuplicateCheck(list) = <<"match", r.id>>
  <2>1. r \in Candidates(list) /\ Agrees(r) /\ \A q \in Candidates(list) : Agrees(q) => q = r
    BY <1>1, AdoptedIsTheOne
  <2>2. r \in same \/ (same = {} /\ r.row.ref)
    BY <2>1, CandidatesAre
  <2>3. ASSUME NEW q \in got, Agrees(q), q.row.number = r.row.number PROVE q = r
    <3>1. q.row.number = "none" => q.row.ref
      BY OfThePage, BookedHas
    <3>2. q \in Candidates(list)
      BY <2>1, <2>3, <3>1, CandidatesAre
    <3>3. QED
      BY <2>1, <2>3, <3>2
  <2>4. QED
    BY <2>1, <2>2, <2>3, OnlyCandidateIsFirst
<1>2. Reconciled(list)[1] # "no_match" => DuplicateCheck(list)[1] = "match"
  BY FirstWords
<1>3. DuplicateCheck(list)[1] = "match" => DuplicateExists(list)
  BY FirstWords, CandidatesAre, DuplicateExistsHas
<1>4. ASSUME DuplicateExists(list), DuplicateCheck(list)[1] = "no_match" PROVE \E r \in got : r.row.ref /\ r.row.number = "other"
  <2>1. Candidates(list) = {}
    BY <1>4, FirstWords
  <2>2. PICK r \in got : r.row.number = "same" \/ r.row.ref
    BY <1>4, DuplicateExistsHas
  <2>3. r.row.number # "same" /\ r.row.number # "none"
    <3>1. \A q \in got : q.row.number # "same"
      BY <2>1, CandidatesAre
    <3>2. QED
      BY <2>1, <2>2, <3>1, CandidatesAre
  <2>4. r.row.number \in Numbers
    BY OfThePage, BookedHas
  <2>5. QED
    BY <2>2, <2>3, <2>4 DEF Numbers
<1>5. QED
  BY <1>1, <1>2, <1>3, <1>4

-----------------------------------------------------------------------------
(***************************************************************************)
(* What the insights and the searches are given.                            *)
(***************************************************************************)

\* What has been read of invoices is invoices; of a search, the page that was looked at.
Gathered ==
    /\ Reading("insight") \/ Reading("more") => OfInvoices(rows)
    /\ Reading("insight") \/ Reading("more") \/ Reading("read") => OfInvoices(reader.got)
    /\ Reading("match") \/ Reading("matched") =>
          \A i \in 1..Len(reader.was) : reader.was[i].id = i /\ reader.was[i].row \in Booked
    /\ Reading("match") => rows = reader.was
    /\ Reading("matched") =>
          IF wrapped THEN IsPage(reader.was, reader.got, Skip, PageSize) ELSE reader.got = <<>>

LEMMA PagesOfInvoices ==
    ASSUME NEW list \in Seq(Items), OfInvoices(list), NEW page \in Seq(Items), NEW from \in Nat, NEW size \in Nat,
           IsPage(list, page, from, size)
    PROVE  OfInvoices(page)
<1>1. ASSUME NEW j \in 1..Len(page) PROVE page[j].row \in Invoices
  <2>1. PICK n \in Nat, k \in Nat : n = Len(list) /\ k = Len(page)
    OBVIOUS
  <2>2. k = IF from >= n THEN 0 ELSE IF from + size <= n THEN size ELSE n - from
    BY <2>1 DEF IsPage
  <2>3. from + j \in 1..n
    BY <2>1, <2>2
  <2>4. page[j] = list[from + j]
    BY DEF IsPage
  <2>5. QED
    BY <2>1, <2>3, <2>4 DEF OfInvoices
<1>2. QED
  BY <1>1 DEF OfInvoices

LEMMA JoinsOfInvoices ==
    ASSUME NEW list \in Seq(Items), NEW more \in Seq(Items), NEW all, Joined(list, more, all),
           OfInvoices(list), OfInvoices(more)
    PROVE  OfInvoices(all)
<1>1. PICK a \in Nat, b \in Nat : a = Len(list) /\ b = Len(more) /\ Len(all) = a + b
  BY DEF Joined
<1>2. ASSUME NEW i \in 1..(a + b) PROVE all[i].row \in Invoices
  <2>1. CASE i \in 1..a
    BY <1>1, <2>1 DEF Joined, OfInvoices
  <2>2. CASE i \notin 1..a
    <3>1. PICK m \in 1..b : i = a + m
      <4>1. i - a \in 1..b /\ i = a + (i - a)
        BY <2>2
      <4>2. QED
        BY <4>1
    <3>2. all[a + m] = more[m] /\ more[m].row \in Invoices
      BY <1>1, <3>1 DEF Joined, OfInvoices
    <3>3. QED
      BY <3>1, <3>2
  <2>3. QED
    BY <2>1, <2>2
<1>3. QED
  BY <1>1, <1>2 DEF OfInvoices

LEMMA GatheredBegins == ASSUME NEW kind \in {"find", "insight", "match"}, Begin(kind) PROVE Gathered'
<1>1. PICK n \in 0..MostRows(kind), base \in {0, 1} : \E list \in [1..n -> Rows(kind)] :
          /\ rows'   = Numbered(list)
          /\ reader' = [Unread EXCEPT !.kind = kind, !.base = IF kind = "find" THEN 0 ELSE base, !.was = Numbered(list),
                                      !.page = IF kind = "find" THEN 0 ELSE 1]
  BY DEF Begin
<1>2. n \in Nat
  BY PagedAssumption DEF MostRows
<1>3. PICK list \in [1..n -> Rows(kind)] :
          /\ rows'   = Numbered(list)
          /\ reader' = [Unread EXCEPT !.kind = kind, !.base = IF kind = "find" THEN 0 ELSE base, !.was = Numbered(list),
                                      !.page = IF kind = "find" THEN 0 ELSE 1]
  BY <1>1
<1>4. PICK all \in Seq(Items) : /\ all = Numbered(list) /\ Len(all) = n
                                /\ \A i \in 1..n : all[i].id = i /\ all[i].row \in Rows(kind)
  BY <1>2, NumberedIsTyped
<1>5. rows' = all /\ reader'.kind = kind /\ reader'.was = all /\ reader'.got = <<>>
  BY <1>3, <1>4 DEF Unread
<1>6. Rows("insight") = Invoices /\ Rows("match") = Booked
  BY DEF Rows
<1>7. kind = "insight" => OfInvoices(all) /\ OfInvoices(<<>>)
  BY <1>4, <1>6 DEF OfInvoices
<1>8. kind = "match" => \A i \in 1..Len(all) : all[i].id = i /\ all[i].row \in Booked
  BY <1>4, <1>6
<1>9. QED
  BY <1>5, <1>7, <1>8 DEF Gathered, Reading

LEMMA GatheredReads == ASSUME PagedInv, Gathered, ReadInvoices PROVE Gathered'
<1>1. /\ reader \in Readers /\ rows \in Seq(Items) /\ rows' = rows /\ wrapped' = wrapped
      /\ Reading("insight") \/ Reading("more")
      /\ OfInvoices(rows) /\ OfInvoices(reader.got)
  BY DEF PagedInv, ReadInvoices, Gathered
<1>2. /\ reader.page \in Nat /\ reader.page >= reader.base /\ reader.base \in {0, 1} /\ reader.got \in Seq(Items)
      /\ Reading("insight") => reader.page = 1
  <2>1. reader.page >= 1 /\ (Reading("insight") => reader.page = 1)
    BY <1>1 DEF PagedInv, Progress
  <2>2. QED
    BY <1>1, <2>1 DEF Readers
<1>3. PICK page \in Seq(Items) : page = PageAt(reader.page, reader.base) /\ OfInvoices(page)
  <2>1. PICK page \in Seq(Items), from \in Nat : page = PageAt(reader.page, reader.base) /\ IsPage(rows, page, from, PageSize)
    BY <1>1, <1>2, PageIsPage
  <2>2. OfInvoices(page)
    BY <1>1, <2>1, PagedAssumption, PagesOfInvoices
  <2>3. QED
    BY <2>1, <2>2
<1>4. PICK all \in Seq(Items) : all = reader.got \o page /\ OfInvoices(all)
  <2>1. PICK all \in Seq(Items) : all = reader.got \o page /\ Joined(reader.got, page, all)
    BY <1>2, Joins
  <2>2. OfInvoices(all)
    BY <1>1, <1>2, <1>3, <2>1, JoinsOfInvoices
  <2>3. QED
    BY <2>1, <2>2
<1>5. CASE reader' = Is("failed", reader)
  <2>1. reader'.kind = "failed"
    BY <1>1, <1>5 DEF Is, Readers
  <2>2. QED
    BY <2>1 DEF Gathered, Reading
<1>6. CASE Reading("insight") /\ reader' = FirstAnswer
  <2>1. reader'.got = page /\ reader'.kind \in {"more", "read"}
    BY <1>1, <1>2, <1>3, <1>6 DEF FirstAnswer, Readers
  <2>2. QED
    BY <1>1, <1>3, <2>1 DEF Gathered, Reading
<1>7. CASE Reading("more") /\ reader' = NextAnswer
  <2>1. reader'.got = all /\ reader'.kind \in {"more", "read"}
    BY <1>1, <1>3, <1>4, <1>7 DEF NextAnswer, Readers
  <2>2. QED
    BY <1>1, <1>4, <2>1 DEF Gathered, Reading
<1>8. QED
  BY <1>5, <1>6, <1>7 DEF ReadInvoices

LEMMA GatheredSearches == ASSUME PagedInv, Gathered, SearchInvoice PROVE Gathered'
<1>1. /\ reader \in Readers /\ rows \in Seq(Items) /\ rows' = rows /\ wrapped' = wrapped /\ reader.base \in {0, 1}
      /\ rows = reader.was
      /\ \A i \in 1..Len(reader.was) : reader.was[i].id = i /\ reader.was[i].row \in Booked
  BY DEF PagedInv, SearchInvoice, Readers, Gathered
<1>2. CASE reader' = Is("failed", reader)
  <2>1. reader'.kind = "failed"
    BY <1>1, <1>2 DEF Is, Readers
  <2>2. QED
    BY <2>1 DEF Gathered, Reading
<1>3. CASE reader' = [Is("matched", reader) EXCEPT !.got = IF wrapped THEN PageAt(1, reader.base) ELSE <<>>]
  <2>1. PICK got : got = IF wrapped THEN PageAt(1, reader.base) ELSE <<>>
    OBVIOUS
  <2>2. reader'.kind = "matched" /\ reader'.got = got /\ reader'.was = reader.was /\ reader'.base = reader.base
    BY <1>1, <1>3, <2>1 DEF Is, Readers
  <2>3. Skip' = Skip
    BY <2>2 DEF Skip
  <2>4. IF wrapped THEN IsPage(rows, got, Skip, PageSize) ELSE got = <<>>
    <3>1. 1 \in Nat /\ 1 >= reader.base
      BY <1>1
    <3>2. IsPage(rows, PageAt(1, reader.base), (1 - reader.base) * PageSize, PageSize)
      BY <1>1, <3>1, PageIsPage
    <3>3. QED
      BY <2>1, <3>2 DEF Skip
  <2>5. QED
    BY <1>1, <2>2, <2>3, <2>4 DEF Gathered, Reading
<1>4. QED
  BY <1>2, <1>3 DEF SearchInvoice

LEMMA GatheredInserts == ASSUME PagedInv, Gathered, Insert PROVE Gathered'
<1>1. reader \in Readers /\ rows \in Seq(Items) /\ Edits("insert") /\ reader.kind \in {"find", "insight", "more"}
  BY DEF PagedInv, Insert, Edits
<1>2. reader' \in Readers /\ reader'.kind = reader.kind /\ reader'.got = reader.got
  BY <1>1, EditsGrow
<1>3. SUFFICES ASSUME reader.kind \in {"insight", "more"} PROVE OfInvoices(rows')
  BY <1>1, <1>2 DEF Gathered, Reading
<1>4. OfInvoices(rows)
  BY <1>3 DEF Gathered, Reading
<1>5. PICK i \in (IF Reading("find") THEN {Len(rows) + 1} ELSE 1..(Len(rows) + 1)), row \in Rows(reader.kind) :
          rows' = InsertAt(rows, i, [id |-> MaxRows + Len(reader'.edits), row |-> row])
  BY DEF Insert
<1>6. i \in 1..(Len(rows) + 1) /\ row \in Invoices
  BY <1>1, <1>3 DEF Reading, Rows
<1>7. PICK item \in Items : rows' = InsertAt(rows, i, item) /\ item.row \in Invoices
  <2>1. reader'.edits \in Seq({"insert", "delete"})
    BY <1>2 DEF Readers
  <2>2. PICK id \in Nat : id = MaxRows + Len(reader'.edits)
    BY <2>1, PagedAssumption
  <2>3. [id |-> id, row |-> row] \in Items
    BY <1>6, <2>2 DEF Items
  <2>4. QED
    BY <1>5, <1>6, <2>2, <2>3
<1>8. /\ Len(InsertAt(rows, i, item)) = Len(rows) + 1
      /\ \A j \in 1..(Len(rows) + 1) :
            InsertAt(rows, i, item)[j] = IF j < i THEN rows[j] ELSE IF j = i THEN item ELSE rows[j - 1]
  BY <1>1, <1>6, InsertionKeeps
<1>9. PICK new : new = InsertAt(rows, i, item)
  OBVIOUS
<1>10. PICK n \in Nat : n = Len(rows) /\ Len(new) = n + 1 /\ i \in 1..(n + 1)
  BY <1>1, <1>6, <1>8, <1>9
<1>11. ASSUME NEW j \in 1..(n + 1) PROVE new[j].row \in Invoices
  <2>1. CASE j < i
    <3>1. j \in 1..n /\ new[j] = rows[j]
      BY <1>8, <1>9, <1>10, <2>1
    <3>2. QED
      BY <1>4, <1>10, <3>1 DEF OfInvoices
  <2>2. CASE j = i
    BY <1>7, <1>8, <1>9, <1>10, <2>2
  <2>3. CASE j > i
    <3>1. j - 1 \in 1..n /\ new[j] = rows[j - 1]
      BY <1>8, <1>9, <1>10, <2>3
    <3>2. QED
      BY <1>4, <1>10, <3>1 DEF OfInvoices
  <2>4. QED
    BY <2>1, <2>2, <2>3
<1>12. OfInvoices(new)
  BY <1>10, <1>11 DEF OfInvoices
<1>13. QED
  BY <1>7, <1>9, <1>12

LEMMA GatheredDeletes == ASSUME PagedInv, Gathered, Delete PROVE Gathered'
<1>1. reader \in Readers /\ rows \in Seq(Items) /\ Edits("delete") /\ reader.kind \in {"find", "insight", "more"}
  BY DEF PagedInv, Delete, Edits
<1>2. reader'.kind = reader.kind /\ reader'.got = reader.got
  BY <1>1, EditsGrow
<1>3. SUFFICES ASSUME reader.kind \in {"insight", "more"} PROVE OfInvoices(rows')
  BY <1>1, <1>2 DEF Gathered, Reading
<1>4. OfInvoices(rows)
  BY <1>3 DEF Gathered, Reading
<1>5. PICK i \in 1..Len(rows) : rows' = RemoveAt(rows, i)
  BY DEF Delete
<1>6. /\ Len(RemoveAt(rows, i)) = Len(rows) - 1
      /\ \A j \in 1..(Len(rows) - 1) : RemoveAt(rows, i)[j] = IF j < i THEN rows[j] ELSE rows[j + 1]
  BY <1>1, DeletionKeeps
<1>7. PICK less : less = RemoveAt(rows, i)
  OBVIOUS
<1>8. PICK n \in Nat : n = Len(rows) /\ Len(less) = n - 1
  BY <1>1, <1>6, <1>7
<1>9. ASSUME NEW j \in 1..(n - 1) PROVE less[j].row \in Invoices
  <2>1. less[j] = rows[j] \/ less[j] = rows[j + 1]
    BY <1>6, <1>7, <1>8
  <2>2. j \in 1..n /\ j + 1 \in 1..n
    OBVIOUS
  <2>3. QED
    BY <1>4, <1>8, <2>1, <2>2 DEF OfInvoices
<1>10. OfInvoices(less)
  BY <1>8, <1>9 DEF OfInvoices
<1>11. QED
  BY <1>5, <1>7, <1>10

LEMMA GatheredInductive == ASSUME PagedInv, Gathered, PagedNext PROVE Gathered'
<1>1. CASE Find
  <2>1. reader \in Readers /\ reader.kind = "find"
    BY <1>1 DEF PagedInv, Find, Reading
  <2>2. reader'.kind \in {"find", "found", "not_found", "failed"}
    BY <1>1, <2>1 DEF Find, FindByTaxId, Is, Readers
  <2>3. QED
    BY <2>2 DEF Gathered, Reading
<1>2. CASE Close
  <2>1. reader'.kind = "none"
    BY <1>2, UnreadIsOne DEF Close
  <2>2. QED
    BY <2>1 DEF Gathered, Reading
<1>3. QED
  BY <1>1, <1>2, GatheredBegins, GatheredReads, GatheredSearches, GatheredInserts, GatheredDeletes DEF PagedNext

LEMMA SearchesOfState == ASSUME PagedInv, Gathered PROVE SearchesAgree
<1>1. SUFFICES ASSUME Reading("matched") PROVE SearchesAgree
  BY DEF SearchesAgree
<1>2. reader \in Readers /\ reader.was \in Seq(Items) /\ reader.got \in Seq(Items) /\ reader.base \in {0, 1}
  BY DEF PagedInv, Readers
<1>3. PICK skip \in Nat : skip = Skip /\ skip = (1 - reader.base) * PageSize /\ skip + PageSize = (2 - reader.base) * PageSize
  BY <1>2, PagedAssumption DEF Skip
<1>4. \A i \in 1..Len(reader.was) : reader.was[i].id = i /\ reader.was[i].row \in Booked
  BY <1>1 DEF Gathered
<1>5. IF wrapped THEN IsPage(reader.was, reader.got, skip, PageSize) ELSE reader.got = <<>>
  BY <1>1, <1>3 DEF Gathered
<1>6. Distinct(reader.got)
  <2>1. CASE wrapped
    BY <1>2, <1>4, <1>5, <2>1, PageIsDistinct, PagedAssumption
  <2>2. CASE ~wrapped
    BY <1>5, <2>2 DEF Distinct
  <2>3. QED
    BY <2>1, <2>2
<1>7. ASSUME wrapped, ~DuplicateExists(reader.got), NEW i \in 1..Len(reader.was), reader.was[i].row.number = "same"
      PROVE  i <= (1 - reader.base) * PageSize \/ i > (2 - reader.base) * PageSize
  <2>1. SUFFICES ASSUME i > skip, i <= skip + PageSize PROVE FALSE
    <3>1. (1 - reader.base) * PageSize \in Int /\ (2 - reader.base) * PageSize \in Int
      BY <1>3, PagedAssumption
    <3>2. QED
      BY <1>2, <1>3, <3>1
  <2>2. PICK n \in Nat, k \in Nat : n = Len(reader.was) /\ k = Len(reader.got)
    BY <1>2
  <2>3. k = IF skip >= n THEN 0 ELSE IF skip + PageSize <= n THEN PageSize ELSE n - skip
    BY <1>5, <1>7, <2>2 DEF IsPage
  <2>4. PICK j \in 1..k : skip + j = i
    <3>1. i - skip \in 1..k /\ skip + (i - skip) = i
      BY <2>1, <2>2, <2>3, PagedAssumption
    <3>2. QED
      BY <3>1
  <2>5. reader.got[j] = reader.was[i]
    BY <1>5, <1>7, <2>2, <2>4 DEF IsPage
  <2>6. QED
    BY <1>7, <2>2, <2>5 DEF DuplicateExists
<1>8. QED
  BY <1>2, <1>6, <1>7, SearchesOfAPage DEF SearchesAgree

LEMMA GatheredInvariant == Spec => []Gathered
<1>1. Init => Gathered
  BY UnreadIsOne DEF Init, PagedInit, Gathered, Reading
<1>2. ASSUME PagedInv, Gathered, [Next]_vars PROVE Gathered'
  <2>1. CASE UNCHANGED pagedVars
    BY <1>2, <2>1 DEF pagedVars, Gathered, Reading, Skip
  <2>2. QED
    BY <1>2, <2>1, GatheredInductive DEF Next, vars
<1>3. QED
  BY <1>1, <1>2, PagedInvariant, PTL DEF Spec

(* The summaries and the rankings agree about what is owed, of any number of    *)
(* invoices, however many third parties a ranking shows and whoever comes first *)
(* of those who owe as much (customer_invoice_summary,                          *)
(* customer_outstanding_summary, customer_outstanding_by_thirdparty).           *)
THEOREM InsightsAddUp == Spec => []InsightsAgree
<1>1. PagedInv /\ Gathered => InsightsAgree
  <2>1. PagedInv /\ Gathered /\ Reading("read") => reader.got \in Seq(Items) /\ OfInvoices(reader.got)
    BY DEF PagedInv, Gathered, Readers
  <2>2. QED
    BY <2>1, SummariesAgree DEF InsightsAgree
<1>2. QED
  BY <1>1, PagedInvariant, GatheredInvariant, PTL

(* The reconciliation, the check of duplicates and the confirmation agree about *)
(* any page of a supplier's invoices, and miss one with the number of the       *)
(* supplier only outside of it (reconcile_with_dolibarr,                        *)
(* check_duplicate_in_dolibarr, ConfirmSupplierInvoiceHandler).                 *)
THEOREM SearchesAgreeOnAnyPage == Spec => []SearchesAgree
<1>1. QED
  BY SearchesOfState, PagedInvariant, GatheredInvariant, PTL
=============================================================================
