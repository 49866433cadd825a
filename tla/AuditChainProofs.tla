-------------------------- MODULE AuditChainProofs --------------------------
(***************************************************************************)
(* Proofs about AuditChain, for any number of deployments, processes,      *)
(* records, instants and pages.                                            *)
(***************************************************************************)
EXTENDS AuditChain, FiniteSetTheorems, SequenceTheorems, TLAPS

-----------------------------------------------------------------------------
(***************************************************************************)
(* The schema. Tables only ever gain parts. The tables a deployment did    *)
(* not find are on its list until they are there (Made), the columns it    *)
(* did not find until they are there or refused (Found); and the unique    *)
(* index stays on the list of whoever made its table until it is there, if *)
(* need be for ever (IndexOwed).                                           *)
(***************************************************************************)

Steps == {"new", "create", "alter", "validate"} \cup Columns \cup Ends

SchemaTyped ==
    /\ schema \subseteq Whole
    /\ step \in [Deployers -> Steps]
    /\ todo \in [Deployers -> SUBSET (Whole \ Columns)]
    /\ lacks \in [Deployers -> SUBSET Columns]
    /\ refused \subseteq Deployers
    /\ serving \subseteq Processes

Doc == "document_idempotency_record"
Ux  == "ux_idempotency_dedup"

Made(d) ==
    /\ step[d] = "new" => todo[d] = {}
    /\ step[d] = "create" => todo[d] # {} /\ Tables \ schema \subseteq todo[d]
    /\ step[d] \in {"alter", "validate"} \cup Columns => Tables \subseteq schema
    /\ Doc \in todo[d] => Ux \in todo[d]

Found(d) ==
    /\ step[d] \in {"new", "create", "dolibarr_invoice_id"} => lacks[d] = {}
    /\ step[d] = "dolibarr_invoice_ref" => "dolibarr_invoice_id" \in schema \cup lacks[d]
    /\ step[d] = "alter" => lacks[d] # {} /\ (Columns \subseteq schema \cup lacks[d] \/ d \in refused)
    /\ step[d] = "validate" => Columns \subseteq schema \/ d \in refused

IndexOwed == Doc \in schema /\ Ux \notin schema => \E e \in Deployers : Doc \notin todo[e] /\ Ux \in todo[e]

SchemaInv == SchemaTyped /\ IndexOwed /\ \A d \in Deployers : Made(d) /\ Found(d)

(* The parts are different from each other.                                    *)
LEMMA Parts ==
    /\ Tables = {"audit_log", Doc} /\ Columns \cap Tables = {} /\ Ux \notin Tables \cup Columns
    /\ IndexesOf(Doc) = {Ux, "ix_idempotency"} /\ IndexesOf("audit_log") = {"ix_audit"}
    /\ MadeWith(Doc) = {Doc} \cup Columns /\ \A p : p # Doc => MadeWith(p) = {p}
    /\ Whole = Tables \cup Columns \cup {Ux, "ix_idempotency", "ix_audit"}
    /\ Columns = {"dolibarr_invoice_id", "dolibarr_invoice_ref"}
    /\ \A t \in Tables : ({t} \cup IndexesOf(t)) \subseteq Whole \ Columns
    /\ Ux \notin IndexesOf("audit_log") /\ Doc # "audit_log"
  BY DEF Tables, Columns, Doc, Ux, IndexesOf, MadeWith, Whole

(* What a deployment has found holds on when parts are added by another.        *)
LEMMA PartsAdded ==
    ASSUME NEW d \in Deployers, Made(d), Found(d), schema \subseteq schema',
           step'[d] = step[d], todo'[d] = todo[d], lacks'[d] = lacks[d], d \in refused => d \in refused'
    PROVE  Made(d)' /\ Found(d)'
  BY DEF Made, Found

(* A deployment settles what to make.                                          *)
LEMMA Bootstraps ==
    ASSUME SchemaInv, NEW d \in Deployers, Bootstrap(d) PROVE SchemaInv'
<1>. DEFINE T == UNION {{t} \cup IndexesOf(t) : t \in Tables \ schema}
<1>1. /\ step[d] = "new" /\ todo' = [todo EXCEPT ![d] = T] /\ UNCHANGED <<schema, lacks, refused, serving>>
      /\ step' = [step EXCEPT ![d] = IF Tables \subseteq schema THEN "dolibarr_invoice_id" ELSE "create"]
  BY DEF Bootstrap
<1>2. /\ T \subseteq Whole \ Columns /\ Tables \ schema \subseteq T /\ (Doc \in T => Ux \in T)
      /\ ~(Tables \subseteq schema) => T # {}
  <2>1. \A x : x \in T <=> \E t \in Tables \ schema : x \in {t} \cup IndexesOf(t)
    OBVIOUS
  <2>2. T \subseteq Whole \ Columns
    BY <2>1, Parts
  <2>3. Tables \ schema \subseteq T
    BY <2>1
  <2>4. ASSUME Doc \in T PROVE Ux \in T
    <3>1. PICK t \in Tables \ schema : Doc \in {t} \cup IndexesOf(t)
      BY <2>1, <2>4
    <3>2. t = Doc
      BY <3>1, Parts DEF Doc
    <3>3. Ux \in IndexesOf(t)
      BY <3>2, Parts
    <3>4. QED
      BY <2>1, <3>3
  <2>5. QED
    BY <2>2, <2>3, <2>4
<1>. HIDE DEF T
<1>3. SchemaTyped'
  BY <1>1, <1>2 DEF SchemaInv, SchemaTyped, Steps, Columns
<1>4. IndexOwed'
  BY <1>1 DEF SchemaInv, SchemaTyped, IndexOwed, Made
<1>5. Made(d)' /\ Found(d)'
  BY <1>1, <1>2 DEF SchemaInv, SchemaTyped, Made, Found, Columns
<1>6. ASSUME NEW e \in Deployers, e # d PROVE Made(e)' /\ Found(e)'
  BY <1>1, <1>6, PartsAdded DEF SchemaInv, SchemaTyped
<1>7. QED
  BY <1>3, <1>4, <1>5, <1>6 DEF SchemaInv

(* It makes one of them.                                                       *)
LEMMA Creations ==
    ASSUME SchemaInv, NEW d \in Deployers, Creates(d) PROVE SchemaInv'
<1>1. PICK p \in Due(d) \ schema :
          /\ schema' = schema \cup MadeWith(p)
          /\ todo' = [todo EXCEPT ![d] = @ \ {p}]
          /\ step' = [step EXCEPT ![d] = IF todo[d] = {p} THEN "dolibarr_invoice_id" ELSE "create"]
  BY DEF Creates
<1>2. step[d] = "create" /\ UNCHANGED <<lacks, refused, serving>>
  BY DEF Creates
<1>3. p \in todo[d] /\ p \in Whole \ Columns /\ (p = Ux => Doc \notin todo[d])
  <2>. DEFINE opened == {i \in todo[d] : \E t \in Tables \ todo[d] : i \in IndexesOf(t)}
  <2>1. p \in IF opened # {} THEN opened ELSE todo[d] \cap Tables
    BY <1>1 DEF Due
  <2>2. p \in todo[d] /\ todo[d] \subseteq Whole \ Columns
    <3>1. todo[d] \subseteq Whole \ Columns
      BY DEF SchemaInv, SchemaTyped
    <3>2. opened \subseteq todo[d]
      OBVIOUS
    <3>. HIDE DEF opened
    <3>3. QED
      BY <2>1, <3>1, <3>2
  <2>3. ASSUME p = Ux PROVE Doc \notin todo[d]
    <3>1. Ux \notin Tables
      BY Parts
    <3>2. PICK t \in Tables \ todo[d] : Ux \in IndexesOf(t)
      BY <2>1, <2>3, <3>1
    <3>3. t = Doc
      BY <3>2, Parts
    <3>4. QED
      BY <3>2, <3>3
  <2>4. QED
    BY <2>2, <2>3
<1>4. MadeWith(p) \subseteq Whole /\ p \in MadeWith(p)
  BY <1>3, Parts
<1>5. SchemaTyped'
  BY <1>1, <1>2, <1>3, <1>4 DEF SchemaInv, SchemaTyped, Steps, Columns
<1>6. IndexOwed'
  <2>. SUFFICES ASSUME Doc \in schema', Ux \notin schema'
                PROVE  \E e \in Deployers : Doc \notin todo'[e] /\ Ux \in todo'[e]
    BY DEF IndexOwed
  <2>1. p # Ux
    BY <1>1, <1>4
  <2>2. CASE p = Doc
    <3>1. Ux \in todo[d]
      BY <1>3, <2>2 DEF SchemaInv, Made
    <3>2. Ux \in todo'[d] /\ Doc \notin todo'[d]
      BY <1>1, <2>1, <2>2, <3>1 DEF SchemaInv, SchemaTyped
    <3>3. QED
      BY <3>2
  <2>3. CASE p # Doc
    <3>1. MadeWith(p) = {p}
      BY <2>3, Parts
    <3>2. Doc \in schema /\ Ux \notin schema
      BY <1>1, <2>3, <3>1
    <3>3. PICK e \in Deployers : Doc \notin todo[e] /\ Ux \in todo[e]
      BY <3>2 DEF SchemaInv, IndexOwed
    <3>4. Doc \notin todo'[e] /\ Ux \in todo'[e]
      BY <1>1, <2>1, <3>3 DEF SchemaInv, SchemaTyped
    <3>5. QED
      BY <3>4
  <2>4. QED
    BY <2>2, <2>3
<1>7. Made(d)' /\ Found(d)'
  <2>1. Tables \ schema' \subseteq todo'[d]
    BY <1>1, <1>2, <1>4 DEF SchemaInv, SchemaTyped, Made
  <2>2. /\ todo'[d] = todo[d] \ {p}
        /\ step'[d] = IF todo[d] = {p} THEN "dolibarr_invoice_id" ELSE "create"
    BY <1>1 DEF SchemaInv, SchemaTyped
  <2>3. Doc \in todo'[d] => Ux \in todo'[d]
    BY <1>3, <2>2 DEF SchemaInv, Made
  <2>4. Made(d)'
    BY <1>3, <2>1, <2>2, <2>3 DEF Made, Columns
  <2>5. Found(d)'
    BY <1>2, <2>2 DEF SchemaInv, Found
  <2>6. QED
    BY <2>4, <2>5
<1>8. ASSUME NEW e \in Deployers, e # d PROVE Made(e)' /\ Found(e)'
  BY <1>1, <1>2, <1>8, PartsAdded DEF SchemaInv, SchemaTyped
<1>9. QED
  BY <1>5, <1>6, <1>7, <1>8 DEF SchemaInv

(* A column is looked for.                                                     *)
LEMMA Lookups ==
    ASSUME SchemaInv, NEW d \in Deployers, NEW c \in Columns, LooksForColumn(d, c) PROVE SchemaInv'
<1>1. /\ step[d] = c /\ lacks' = [lacks EXCEPT ![d] = @ \cup ({c} \ schema)]
      /\ step' = [step EXCEPT ![d] = IF c = "dolibarr_invoice_id" THEN "dolibarr_invoice_ref"
                                     ELSE IF lacks'[d] = {} THEN "validate" ELSE "alter"]
      /\ UNCHANGED <<schema, todo, refused, serving>>
  BY DEF LooksForColumn
<1>2. lacks'[d] = lacks[d] \cup ({c} \ schema)
  BY <1>1 DEF SchemaInv, SchemaTyped
<1>3. SchemaTyped'
  BY <1>1 DEF SchemaInv, SchemaTyped, Steps, Columns
<1>4. IndexOwed'
  BY <1>1 DEF SchemaInv, IndexOwed
<1>5. Made(d)'
  BY <1>1 DEF SchemaInv, SchemaTyped, Made, Columns
<1>6. Found(d)'
  <2>1. CASE c = "dolibarr_invoice_id"
    BY <1>1, <1>2, <2>1 DEF SchemaInv, SchemaTyped, Found
  <2>2. CASE c = "dolibarr_invoice_ref"
    <3>1. Columns \subseteq schema \cup lacks'[d]
      BY <1>1, <1>2, <2>2, Parts DEF SchemaInv, Found
    <3>2. step'[d] = IF lacks'[d] = {} THEN "validate" ELSE "alter"
      BY <1>1, <2>2 DEF SchemaInv, SchemaTyped
    <3>3. QED
      BY <1>1, <3>1, <3>2 DEF Found
  <2>3. QED
    BY <2>1, <2>2, Parts
<1>7. ASSUME NEW e \in Deployers, e # d PROVE Made(e)' /\ Found(e)'
  BY <1>1, <1>7, PartsAdded DEF SchemaInv, SchemaTyped
<1>8. QED
  BY <1>3, <1>4, <1>5, <1>6, <1>7 DEF SchemaInv

(* A deployment adds columns of the table, one at a time.                      *)
LEMMA Alters ==
    ASSUME SchemaInv, NEW d \in Deployers, AddsColumn(d)
    PROVE  SchemaInv'
<1>1. lacks[d] # {} /\ lacks[d] \subseteq Columns /\ step[d] = "alter"
  BY DEF AddsColumn, SchemaInv, SchemaTyped, Found
<1>2. PICK c \in lacks[d] : /\ \/ schema' = schema \cup {c} /\ refused' = refused
                               \/ schema' = schema /\ refused' = IF c \in schema THEN refused ELSE refused \cup {d}
                            /\ lacks' = [lacks EXCEPT ![d] = @ \ {c}]
                            /\ step' = [step EXCEPT ![d] = IF lacks[d] = {c} THEN "validate" ELSE "alter"]
                            /\ UNCHANGED <<todo, serving>>
  BY <1>1 DEF AddsColumn, Columns
<1>3. /\ schema \subseteq schema' /\ schema' \subseteq Whole /\ schema' \subseteq schema \cup Columns
      /\ refused \subseteq refused' /\ refused' \subseteq Deployers
      /\ c \in schema' \/ d \in refused'
  BY <1>1, <1>2, Parts DEF SchemaInv, SchemaTyped
<1>4. SchemaTyped'
  BY <1>1, <1>2, <1>3 DEF SchemaInv, SchemaTyped, Steps
<1>5. IndexOwed'
  BY <1>2, <1>3, Parts DEF SchemaInv, IndexOwed
<1>6. lacks'[d] = lacks[d] \ {c} /\ step'[d] = IF lacks[d] = {c} THEN "validate" ELSE "alter"
  BY <1>2 DEF SchemaInv, SchemaTyped
<1>7. Columns \subseteq schema' \cup lacks'[d] \/ d \in refused'
  BY <1>1, <1>3, <1>6 DEF SchemaInv, Found
<1>8. Made(d)' /\ Found(d)'
  BY <1>1, <1>2, <1>3, <1>6, <1>7 DEF SchemaInv, Made, Found, Columns
<1>9. ASSUME NEW e \in Deployers, e # d PROVE Made(e)' /\ Found(e)'
  BY <1>2, <1>3, <1>9, PartsAdded DEF SchemaInv, SchemaTyped
<1>10. QED
  BY <1>4, <1>5, <1>8, <1>9 DEF SchemaInv

(* It ends. What it has not made stays on its list.                            *)
LEMMA Endings ==
    ASSUME SchemaInv, NEW d \in Deployers, Validates(d) \/ DeployFails(d) PROVE SchemaInv'
<1>1. /\ \E e \in Ends : step' = [step EXCEPT ![d] = e]
      /\ UNCHANGED <<schema, todo, serving>> /\ refused' = refused \ {d}
      /\ lacks' \in {lacks, [lacks EXCEPT ![d] = {}]}
  BY DEF Validates, DeployFails, Ends
<1>2. SchemaTyped'
  BY <1>1 DEF SchemaInv, SchemaTyped, Steps
<1>3. IndexOwed'
  BY <1>1 DEF SchemaInv, IndexOwed
<1>4. Made(d)' /\ Found(d)'
  BY <1>1 DEF SchemaInv, SchemaTyped, Made, Found, Ends, Columns
<1>5. ASSUME NEW e \in Deployers, e # d PROVE Made(e)' /\ Found(e)'
  BY <1>1, <1>5, PartsAdded DEF SchemaInv, SchemaTyped
<1>6. QED
  BY <1>2, <1>3, <1>4, <1>5 DEF SchemaInv

LEMMA SchemaStutters ==
    ASSUME SchemaInv, UNCHANGED <<schema, step, todo, lacks, refused>>, serving' \subseteq Processes PROVE SchemaInv'
  BY DEF SchemaInv, SchemaTyped, IndexOwed, Made, Found

(* The steps of deployments and of processes that start. *)
LEMMA SchemaInductive ==
    ASSUME SchemaInv, SchemaNext PROVE SchemaInv'
<1>1. ASSUME NEW p \in Processes, Starts(p) PROVE SchemaInv'
  BY <1>1, SchemaStutters DEF Starts, SchemaInv, SchemaTyped
<1>2. QED
  BY <1>1, Bootstraps, Creations, Lookups, Alters, Endings DEF SchemaNext

LEMMA SchemaBegins == Init => SchemaInv
<1>. SUFFICES ASSUME Init PROVE SchemaInv
  OBVIOUS
<1>1. /\ schema \in {{}, Whole \ Columns, Whole} /\ refused = {} /\ serving = {}
      /\ \A d \in Deployers : step[d] = "new" /\ todo[d] = {} /\ lacks[d] = {}
  BY DEF Init, SchemaInit, Schemas
<1>2. SchemaTyped
  BY <1>1 DEF Init, SchemaInit, SchemaTyped, Steps
<1>3. IndexOwed
  BY <1>1, Parts DEF IndexOwed
<1>4. \A d \in Deployers : Made(d) /\ Found(d)
  BY <1>1 DEF Made, Found, Columns
<1>5. QED
  BY <1>2, <1>3, <1>4 DEF SchemaInv

(* The log touches no table definition. *)
LEMMA ChainLeavesSchema == ASSUME ChainNext PROVE UNCHANGED schemaVars
  BY DEF ChainNext, ReadsLast, Inserts, LogFails, CleansUp, OpensPages, ReadsPage, ClosesPages, Tick

LEMMA SchemaGoesOn == ASSUME SchemaInv, [Next]_vars PROVE SchemaInv'
<1>1. CASE UNCHANGED schemaVars
  BY <1>1, SchemaStutters DEF schemaVars, SchemaInv, SchemaTyped
<1>2. QED
  BY <1>1, SchemaInductive, ChainLeavesSchema DEF Next, vars

(* What earlier deployments left undone, and however it meets others, a        *)
(* deployment makes up for before it validates, unless it was refused a column *)
(* or the unique index is owed by whoever made its table.                      *)
THEOREM MissingIsMadeUpFor == Spec => []MissingIsExplained
<1>1. SchemaInv => MissingIsExplained
  <2>. SUFFICES ASSUME SchemaInv, NEW d \in Deployers, step[d] = "validate"
                PROVE  /\ Tables \subseteq schema /\ (Columns \subseteq schema \/ d \in refused)
                       /\ Ux \in schema \/ \E e \in Deployers : Doc \notin todo[e] /\ Ux \in todo[e]
    BY DEF MissingIsExplained, Doc, Ux
  <2>1. Tables \subseteq schema /\ (Columns \subseteq schema \/ d \in refused)
    BY DEF SchemaInv, Made, Found
  <2>2. Doc \in schema
    BY <2>1, Parts
  <2>3. QED
    BY <2>1, <2>2 DEF SchemaInv, IndexOwed
<1>2. QED
  BY <1>1, SchemaBegins, SchemaGoesOn, PTL DEF Spec

-----------------------------------------------------------------------------
(***************************************************************************)
(* The evidence. A row is evidence exactly as its own columns say, and ids *)
(* are never used again, so that a cleanup, which goes by the columns,     *)
(* cannot take one away.                                                   *)
(***************************************************************************)

EvidenceInv ==
    /\ ids \in Nat
    /\ \A r \in rows : r.id \in 1..ids /\ (r.id \in evidence => ~r.success \/ r.critical)
    /\ evidence \subseteq 1..ids
    /\ EvidenceKept

LEMMA InsertsKeep ==
    ASSUME EvidenceInv, NEW p \in Processes, Inserts(p) PROVE EvidenceInv'
<1>1. PICK success \in BOOLEAN, critical \in BOOLEAN :
          /\ rows' = rows \cup {[id |-> ids + 1, of |-> p, prev |-> draft[p].prev, made |-> draft[p].made,
                                 at |-> Second(now), success |-> success, critical |-> critical]}
          /\ evidence' = IF success /\ ~critical THEN evidence ELSE evidence \cup {ids + 1}
  BY DEF Inserts
<1> DEFINE row == [id |-> ids + 1, of |-> p, prev |-> draft[p].prev, made |-> draft[p].made,
                   at |-> Second(now), success |-> success, critical |-> critical]
<1>2. row.id = ids + 1 /\ row.success = success /\ row.critical = critical
  OBVIOUS
<1>3. rows' = rows \cup {row}
  BY <1>1
<1>4. ids' = ids + 1
  BY DEF Inserts
<1>. HIDE DEF row
<1>5. ids' \in Nat /\ evidence' \subseteq 1..ids' /\ ids + 1 \notin evidence
  BY <1>1, <1>4 DEF EvidenceInv
<1>6. \A r \in rows' : r.id \in 1..ids' /\ (r.id \in evidence' => ~r.success \/ r.critical)
  BY <1>1, <1>2, <1>3, <1>4, <1>5 DEF EvidenceInv
<1>7. EvidenceKept'
  BY <1>1, <1>2, <1>3 DEF EvidenceInv, EvidenceKept
<1>8. QED
  BY <1>5, <1>6, <1>7 DEF EvidenceInv

LEMMA CleanupKeeps ==
    ASSUME EvidenceInv, NEW p \in Processes, CleansUp(p) PROVE EvidenceInv'
<1>1. \A r \in Expired(p) : r \in rows /\ r.id \notin evidence
  BY DEF Expired, Of, EvidenceInv
<1>2. QED
  BY <1>1 DEF CleansUp, EvidenceInv, EvidenceKept

LEMMA EvidenceStutters ==
    ASSUME EvidenceInv, UNCHANGED <<rows, ids, evidence>> PROVE EvidenceInv'
  BY DEF EvidenceInv, EvidenceKept

LEMMA EvidenceInductive == ASSUME EvidenceInv, [Next]_vars PROVE EvidenceInv'
<1>1. CASE UNCHANGED <<rows, ids, evidence>>
  BY <1>1, EvidenceStutters
<1>2. CASE SchemaNext /\ UNCHANGED chainVars
  BY <1>2, <1>1 DEF chainVars
<1>3. ASSUME NEW p \in Processes, ReadsLast(p) \/ LogFails(p) \/ OpensPages(p) \/ ReadsPage(p) PROVE EvidenceInv'
  BY <1>3, <1>1 DEF ReadsLast, LogFails, OpensPages, ReadsPage
<1>4. ASSUME NEW p \in Processes, Inserts(p) \/ CleansUp(p) PROVE EvidenceInv'
  BY <1>4, InsertsKeep, CleanupKeeps
<1>5. CASE ClosesPages \/ Tick
  BY <1>5, <1>1 DEF ClosesPages, Tick
<1>6. QED
  BY <1>1, <1>2, <1>3, <1>4, <1>5 DEF Next, ChainNext, vars, chainVars

(* What failed and what was critical is never deleted (cleanup_old_logs).      *)
THEOREM EvidenceStays == Spec => []EvidenceKept
<1>1. Init => EvidenceInv
  BY DEF Init, ChainInit, EvidenceInv, EvidenceKept
<1>2. EvidenceInv => EvidenceKept
  BY DEF EvidenceInv
<1>3. QED
  BY <1>1, <1>2, EvidenceInductive, PTL DEF Spec

-----------------------------------------------------------------------------
(***************************************************************************)
(* Types. The bound on records is kept by counting the processes that have *)
(* read the last hash and will write.                                      *)
(***************************************************************************)

Writers == {q \in Processes : writing[q]}

PageTyped == page \in [busy : BOOLEAN, of : SUBSET Processes, offset : Nat, unseen : SUBSET (1..MaxRecords)]

RowsTyped ==
    /\ IsFiniteSet(rows) /\ rows \subseteq Records
    /\ now \in 0..MaxNow /\ ids \in 0..MaxRecords
    /\ \A r \in rows : r.id <= ids /\ r.at <= Second(now) /\ r.prev < r.id
    /\ \A r, s \in rows : r.id = s.id => r = s
    /\ evidence \subseteq 1..ids /\ raced \subseteq 1..ids
    /\ cleaned \subseteq Processes

DraftsTyped ==
    /\ writing \in [Processes -> BOOLEAN]
    /\ draft \in [Processes -> [prev : 0..MaxRecords, made : 0..MaxNow, raced : BOOLEAN]]
    /\ \A p \in Processes : draft[p].prev <= ids /\ (~writing[p] => draft[p] = NoDraft)
    /\ ids + Cardinality(Writers) <= MaxRecords

ChainTyped == RowsTyped /\ DraftsTyped /\ PageTyped

(* Seconds do not run back. *)
LEMMA Monotone ==
    ASSUME NEW k \in Nat \ {0}, NEW a \in Nat, NEW b \in Nat, a <= b
    PROVE  a \div k \in Nat /\ a \div k <= b \div k
<1>1. \A x \in Nat : x \div k \in Int /\ x % k \in 0..(k-1) /\ x = k * (x \div k) + (x % k)
  OBVIOUS
<1> DEFINE x == a \div k
           y == b \div k
<1>2. x \in Int /\ y \in Int /\ a = k * x + (a % k) /\ b = k * y + (b % k)
      /\ a % k \in 0..(k-1) /\ b % k \in 0..(k-1)
  BY <1>1
<1>. HIDE DEF x, y
<1>3. \A u, v \in Int : u >= v + 1 => k * u >= k * v + k
  <2>1. \A u, v \in Int : u >= v + 1 => k * (u - (v + 1)) >= 0
    OBVIOUS
  <2>2. \A u, v \in Int : k * (u - (v + 1)) = k * u - (k * v + k)
    OBVIOUS
  <2>3. \A u, v \in Int : k * u \in Int /\ k * v + k \in Int
    OBVIOUS
  <2>4. QED
    BY <2>1, <2>2, <2>3
<1>4. x <= y
  <2>1. SUFFICES ASSUME x >= y + 1 PROVE FALSE
    BY <1>2
  <2>2. k * x >= k * y + k
    BY <2>1, <1>2, <1>3
  <2>3. k * x \in Int /\ k * y \in Int
    BY <1>2
  <2>4. QED
    BY <2>2, <2>3, <1>2
<1>5. x >= 0
  <2>1. SUFFICES ASSUME 0 >= x + 1 PROVE FALSE
    BY <1>2
  <2>2. k * 0 >= k * x + k
    BY <2>1, <1>2, <1>3
  <2>3. k * x \in Int /\ k * 0 = 0
    BY <1>2
  <2>4. QED
    BY <2>2, <2>3, <1>2
<1>6. QED
  BY <1>2, <1>4, <1>5 DEF x, y

LEMMA SecondsGrow == \A a, b \in Nat : a <= b => Second(a) \in Nat /\ Second(a) <= Second(b)
  BY Monotone, AuditAssumption DEF Second

LEMMA WritersCount == DraftsTyped => IsFiniteSet(Writers) /\ Cardinality(Writers) \in Nat
  BY FS_Subset, FS_CardinalityType, AuditAssumption DEF Writers

(* The last hash is that of a row, or "genesis".                               *)
LEMMA HashesAreRows ==
    ASSUME RowsTyped, NEW h \in LastHashes PROVE h \in 0..ids
  BY DEF LastHashes, RowsTyped, Records

LEMMA ReadsTyped ==
    ASSUME ChainTyped, NEW p \in Processes, ReadsLast(p) PROVE ChainTyped'
<1>1. UNCHANGED <<rows, now, ids, raced, evidence, cleaned, page>>
  BY DEF ReadsLast
<1>2. RowsTyped' /\ PageTyped'
  BY <1>1 DEF ChainTyped, RowsTyped, PageTyped
<1>3. PICK h \in LastHashes : draft' = [draft EXCEPT ![p] = [prev |-> h, made |-> now, raced |-> FALSE]]
  BY DEF ReadsLast
<1>4. h \in 0..ids /\ h \in 0..MaxRecords
  <2>1. RowsTyped
    BY DEF ChainTyped
  <2>2. h \in 0..ids /\ ids \in 0..MaxRecords
    BY <2>1, HashesAreRows DEF RowsTyped
  <2>3. QED
    BY <2>2, AuditAssumption
<1>5. writing' = [writing EXCEPT ![p] = TRUE] /\ ~writing[p]
  BY DEF ReadsLast
<1>6. draft' \in [Processes -> [prev : 0..MaxRecords, made : 0..MaxNow, raced : BOOLEAN]]
  BY <1>3, <1>4 DEF ChainTyped, RowsTyped, DraftsTyped
<1>7. \A q \in Processes : draft'[q].prev <= ids' /\ (~writing'[q] => draft'[q] = NoDraft)
  BY <1>1, <1>3, <1>4, <1>5 DEF ChainTyped, RowsTyped, DraftsTyped
<1>8. Writers' = Writers \cup {p} /\ p \notin Writers
  BY <1>5 DEF Writers, ChainTyped, DraftsTyped
<1>9. ids' + Cardinality(Writers') <= MaxRecords
  <2>1. IsFiniteSet(Writers) /\ Cardinality(Writers) \in Nat
    BY WritersCount DEF ChainTyped
  <2>2. Cardinality(Writers') = Cardinality(Writers) + 1
    BY <1>8, <2>1, FS_AddElement
  <2>3. ids + Cardinality(Writers) < MaxRecords
    BY DEF ReadsLast, Writers
  <2>4. QED
    BY <1>1, <2>1, <2>2, <2>3, AuditAssumption DEF ChainTyped, RowsTyped
<1>10. writing' \in [Processes -> BOOLEAN]
  BY <1>5 DEF ChainTyped, DraftsTyped
<1>11. QED
  BY <1>2, <1>6, <1>7, <1>9, <1>10 DEF ChainTyped, DraftsTyped

(* A process that ends its log has no draft and is not counted any more.       *)
LEMMA EndsTyped ==
    ASSUME ChainTyped, NEW p \in Processes, writing[p], writing' = [writing EXCEPT ![p] = FALSE]
    PROVE  /\ writing' \in [Processes -> BOOLEAN]
           /\ Cardinality(Writers) \in Nat \ {0} /\ Cardinality(Writers') = Cardinality(Writers) - 1
<1>1. Writers' = Writers \ {p} /\ p \in Writers
  BY DEF Writers, ChainTyped, DraftsTyped
<1>2. IsFiniteSet(Writers) /\ Cardinality(Writers) \in Nat
  BY WritersCount DEF ChainTyped
<1>3. Cardinality(Writers') = Cardinality(Writers) - 1
  BY <1>1, <1>2, FS_RemoveElement
<1>4. Cardinality(Writers) # 0
  BY <1>1, <1>2, FS_EmptySet
<1>5. QED
  BY <1>2, <1>3, <1>4 DEF ChainTyped, DraftsTyped

(* The row of process p, of the kind the insert chose.                         *)
NewRow(p, success, critical) ==
    [id |-> ids + 1, of |-> p, prev |-> draft[p].prev, made |-> draft[p].made,
     at |-> Second(now), success |-> success, critical |-> critical]

LEMMA NewRowTyped ==
    ASSUME ChainTyped, NEW p \in Processes, writing[p], NEW success \in BOOLEAN, NEW critical \in BOOLEAN,
           ids + 1 <= MaxRecords
    PROVE  LET n == NewRow(p, success, critical) IN
           /\ n \in Records
           /\ n.id = ids + 1 /\ n.at = Second(now) /\ n.prev = draft[p].prev /\ n.prev < n.id
<1>1. ids + 1 \in 1..MaxRecords
  BY AuditAssumption DEF ChainTyped, RowsTyped
<1>2. Second(now) \in 0..Second(MaxNow)
  BY SecondsGrow, AuditAssumption DEF ChainTyped, RowsTyped
<1>3. draft[p].prev \in 0..MaxRecords /\ draft[p].made \in 0..MaxNow /\ draft[p].prev <= ids
  BY DEF ChainTyped, DraftsTyped
<1>4. QED
  <2> DEFINE n == NewRow(p, success, critical)
  <2>1. n \in Records
    BY <1>1, <1>2, <1>3 DEF NewRow, Records
  <2>2. n.id = ids + 1 /\ n.at = Second(now) /\ n.prev = draft[p].prev
    BY DEF NewRow
  <2>3. ids \in Nat
    BY DEF ChainTyped, RowsTyped
  <2>4. n.prev < n.id
    BY <1>3, <2>2, <2>3
  <2>5. QED
    BY <2>1, <2>2, <2>4

LEMMA InsertsTyped ==
    ASSUME ChainTyped, NEW p \in Processes, Inserts(p) PROVE ChainTyped'
<1>1. PICK success \in BOOLEAN, critical \in BOOLEAN :
          /\ rows' = rows \cup {NewRow(p, success, critical)}
          /\ evidence' = IF success /\ ~critical THEN evidence ELSE evidence \cup {ids + 1}
  BY DEF Inserts, NewRow
<1>2. /\ writing[p] /\ writing' = [writing EXCEPT ![p] = FALSE]
      /\ ids' = ids + 1 /\ UNCHANGED <<now, cleaned, page>>
      /\ draft' = [q \in Processes |-> IF q = p THEN NoDraft ELSE [draft[q] EXCEPT !.raced = @ \/ writing[q]]]
      /\ raced' = IF draft[p].raced THEN raced \cup {ids + 1} ELSE raced
  BY DEF Inserts
<1>3. /\ writing' \in [Processes -> BOOLEAN]
      /\ Cardinality(Writers) \in Nat \ {0} /\ Cardinality(Writers') = Cardinality(Writers) - 1
  BY <1>2, EndsTyped
<1>4. ids + 1 \in 1..MaxRecords /\ ids' + Cardinality(Writers') <= MaxRecords
  BY <1>2, <1>3, AuditAssumption DEF ChainTyped, RowsTyped, DraftsTyped
<1> DEFINE n == NewRow(p, success, critical)
<1>5. /\ n \in Records /\ n.id = ids + 1 /\ n.at = Second(now) /\ n.prev < n.id
  BY <1>2, <1>4, NewRowTyped
<1>6. rows' = rows \cup {n}
  BY <1>1
<1>. HIDE DEF n
<1>7. IsFiniteSet(rows') /\ rows' \subseteq Records
  BY <1>5, <1>6, FS_AddElement DEF ChainTyped, RowsTyped
<1>8. ids' \in 0..MaxRecords
  BY <1>2, <1>4
<1>9. \A r \in rows' : r.id <= ids' /\ r.at <= Second(now) /\ r.prev < r.id
  <2>1. \A r \in rows : r.id \in Nat
    BY DEF ChainTyped, RowsTyped, Records
  <2>2. Second(now) \in Nat
    BY SecondsGrow DEF ChainTyped, RowsTyped
  <2>3. QED
    BY <1>2, <1>5, <1>6, <2>1, <2>2 DEF ChainTyped, RowsTyped
<1>10. \A r, s \in rows' : r.id = s.id => r = s
  <2>1. \A r \in rows : r.id \in Nat /\ r.id <= ids
    BY DEF ChainTyped, RowsTyped, Records
  <2>2. QED
    BY <1>5, <1>6, <2>1 DEF ChainTyped, RowsTyped
<1>11. evidence' \subseteq 1..ids' /\ raced' \subseteq 1..ids'
  BY <1>1, <1>2 DEF ChainTyped, RowsTyped
<1>12. RowsTyped'
  BY <1>2, <1>7, <1>8, <1>9, <1>10, <1>11 DEF ChainTyped, RowsTyped
<1>13. NoDraft \in [prev : 0..MaxRecords, made : 0..MaxNow, raced : BOOLEAN] /\ NoDraft.prev = 0
  BY AuditAssumption DEF NoDraft
<1>14. \A q \in Processes : /\ draft'[q] \in [prev : 0..MaxRecords, made : 0..MaxNow, raced : BOOLEAN]
                            /\ draft'[q].prev <= ids' /\ (~writing'[q] => draft'[q] = NoDraft)
  <2>1. ASSUME NEW q \in Processes, q = p PROVE draft'[q] = NoDraft
    BY <1>2, <2>1
  <2>2. ASSUME NEW q \in Processes, q # p
        PROVE  /\ draft'[q] \in [prev : 0..MaxRecords, made : 0..MaxNow, raced : BOOLEAN]
               /\ draft'[q].prev = draft[q].prev
               /\ ~writing[q] => draft'[q] = draft[q]
               /\ writing'[q] = writing[q]
    BY <1>2, <2>2 DEF ChainTyped, DraftsTyped
  <2>3. QED
    BY <1>2, <1>13, <2>1, <2>2 DEF ChainTyped, DraftsTyped, RowsTyped
<1>15. draft' \in [Processes -> [prev : 0..MaxRecords, made : 0..MaxNow, raced : BOOLEAN]]
  BY <1>2, <1>14
<1>16. DraftsTyped'
  BY <1>3, <1>4, <1>14, <1>15 DEF DraftsTyped
<1>17. QED
  BY <1>2, <1>12, <1>16 DEF ChainTyped, PageTyped

LEMMA FailsTyped ==
    ASSUME ChainTyped, NEW p \in Processes, LogFails(p) PROVE ChainTyped'
<1>1. /\ writing[p] /\ writing' = [writing EXCEPT ![p] = FALSE] /\ draft' = [draft EXCEPT ![p] = NoDraft]
      /\ UNCHANGED <<rows, now, ids, raced, evidence, cleaned, page>>
  BY DEF LogFails
<1>2. /\ writing' \in [Processes -> BOOLEAN]
      /\ Cardinality(Writers) \in Nat \ {0} /\ Cardinality(Writers') = Cardinality(Writers) - 1
  BY <1>1, EndsTyped
<1>3. NoDraft \in [prev : 0..MaxRecords, made : 0..MaxNow, raced : BOOLEAN] /\ NoDraft.prev = 0
  BY AuditAssumption DEF NoDraft
<1>4. draft' \in [Processes -> [prev : 0..MaxRecords, made : 0..MaxNow, raced : BOOLEAN]]
  BY <1>1, <1>3 DEF ChainTyped, DraftsTyped
<1>5. \A q \in Processes : draft'[q].prev <= ids' /\ (~writing'[q] => draft'[q] = NoDraft)
  BY <1>1, <1>3 DEF ChainTyped, DraftsTyped, RowsTyped
<1>6. ids' + Cardinality(Writers') <= MaxRecords
  BY <1>1, <1>2, AuditAssumption DEF ChainTyped, DraftsTyped, RowsTyped
<1>7. QED
  BY <1>1, <1>2, <1>4, <1>5, <1>6 DEF ChainTyped, RowsTyped, DraftsTyped, PageTyped

LEMMA CleansTyped ==
    ASSUME ChainTyped, NEW p \in Processes, CleansUp(p) PROVE ChainTyped'
<1>1. rows' \subseteq rows /\ cleaned' = cleaned \cup {p} /\ UNCHANGED <<now, ids, writing, draft, raced, evidence, page>>
  BY DEF CleansUp
<1>2. IsFiniteSet(rows')
  BY <1>1, FS_Subset DEF ChainTyped, RowsTyped
<1>3. QED
  BY <1>1, <1>2 DEF ChainTyped, RowsTyped, DraftsTyped, PageTyped, Writers

LEMMA PagesTyped ==
    ASSUME ChainTyped, ClosesPages \/ \E p \in Processes : OpensPages(p) \/ ReadsPage(p) PROVE ChainTyped'
<1>1. UNCHANGED <<rows, now, ids, writing, draft, raced, evidence, cleaned>>
  BY DEF ClosesPages, OpensPages, ReadsPage
<1>2. Idle \in [busy : BOOLEAN, of : SUBSET Processes, offset : Nat, unseen : SUBSET (1..MaxRecords)]
  BY DEF Idle
<1>3. PageTyped'
  <2>1. CASE ClosesPages
    BY <1>2, <2>1 DEF ClosesPages, PageTyped
  <2>2. ASSUME NEW p \in Processes, OpensPages(p) PROVE PageTyped'
    <3>1. {r.id : r \in Of(p)} \subseteq 1..MaxRecords
      BY DEF Of, ChainTyped, RowsTyped, Records
    <3>2. QED
      BY <1>2, <2>2, <3>1 DEF OpensPages, PageTyped, Idle
  <2>3. ASSUME NEW p \in Processes, ReadsPage(p) PROVE PageTyped'
    <3>1. \E X : page' = [page EXCEPT !.offset = @ + PageSize, !.unseen = @ \ X]
      BY <2>3 DEF ReadsPage
    <3>2. PICK X : page' = [page EXCEPT !.offset = @ + PageSize, !.unseen = @ \ X]
      BY <3>1
    <3>3. page.offset + PageSize \in Nat /\ page.unseen \ X \subseteq 1..MaxRecords
      BY AuditAssumption DEF ChainTyped, PageTyped
    <3>4. QED
      BY <3>2, <3>3 DEF ChainTyped, PageTyped
  <2>4. QED
    BY <2>1, <2>2, <2>3
<1>4. QED
  BY <1>1, <1>3 DEF ChainTyped, RowsTyped, DraftsTyped, Writers

LEMMA TickTyped ==
    ASSUME ChainTyped, Tick PROVE ChainTyped' /\ Second(now) <= Second(now')
<1>1. now' = now + 1 /\ now' \in 0..MaxNow /\ UNCHANGED <<rows, ids, writing, draft, raced, evidence, cleaned, page>>
  BY AuditAssumption DEF Tick, ChainTyped, RowsTyped
<1>2. Second(now) \in Nat /\ Second(now') \in Nat /\ Second(now) <= Second(now')
  BY <1>1, SecondsGrow DEF ChainTyped, RowsTyped
<1>3. \A r \in rows : r.at \in Nat
  BY SecondsGrow, AuditAssumption DEF ChainTyped, RowsTyped, Records
<1>4. \A r \in rows : r.at <= Second(now')
  BY <1>2, <1>3 DEF ChainTyped, RowsTyped
<1>5. QED
  BY <1>1, <1>2, <1>4 DEF ChainTyped, RowsTyped, DraftsTyped, PageTyped, Writers

LEMMA ChainTypedInductive == ASSUME ChainTyped, [Next]_vars PROVE ChainTyped'
<1>1. CASE UNCHANGED chainVars
  BY <1>1 DEF chainVars, ChainTyped, RowsTyped, DraftsTyped, PageTyped, Writers
<1>2. ASSUME NEW p \in Processes, ReadsLast(p) \/ Inserts(p) \/ LogFails(p) \/ CleansUp(p) PROVE ChainTyped'
  BY <1>2, ReadsTyped, InsertsTyped, FailsTyped, CleansTyped
<1>3. CASE ClosesPages \/ Tick \/ \E p \in Processes : OpensPages(p) \/ ReadsPage(p)
  BY <1>3, PagesTyped, TickTyped
<1>4. QED
  BY <1>1, <1>2, <1>3 DEF Next, ChainNext, vars

LEMMA InitChainTyped == Init => ChainTyped
<1>. SUFFICES ASSUME Init PROVE ChainTyped
  OBVIOUS
<1>1. RowsTyped
  BY FS_EmptySet, AuditAssumption DEF Init, ChainInit, RowsTyped
<1>2. Writers = {}
  BY DEF Init, ChainInit, Writers
<1>3. DraftsTyped
  BY <1>2, FS_EmptySet, AuditAssumption DEF Init, ChainInit, DraftsTyped, NoDraft
<1>4. PageTyped
  BY DEF Init, ChainInit, PageTyped, Idle
<1>5. QED
  BY <1>1, <1>3, <1>4 DEF ChainTyped

(* The types of the log and of the schema, and that no more records are        *)
(* written than the bound allows.                                              *)
THEOREM TypeCorrect == Spec => []TypeOK
<1>3. ASSUME SchemaInv, ChainTyped PROVE TypeOK
  <2>1. /\ schema \subseteq Whole /\ refused \subseteq Deployers
        /\ todo \in [Deployers -> SUBSET (Whole \ Columns)] /\ lacks \in [Deployers -> SUBSET Columns]
    BY <1>3 DEF SchemaInv, SchemaTyped
  <2>2. serving \subseteq Processes
    BY <1>3 DEF SchemaInv, SchemaTyped
  <2>3. 1..ids \subseteq 1..MaxRecords
    BY <1>3, AuditAssumption DEF ChainTyped, RowsTyped
  <2>4. raced \subseteq 1..MaxRecords /\ evidence \subseteq 1..MaxRecords
    BY <1>3, <2>3 DEF ChainTyped, RowsTyped
  <2>5. page.unseen \subseteq 1..MaxRecords /\ page.offset \in Nat
    BY <1>3 DEF ChainTyped, PageTyped
  <2>6. QED
    BY <1>3, <2>1, <2>2, <2>4, <2>5 DEF ChainTyped, RowsTyped, DraftsTyped, TypeOK
<1>4. QED
  BY <1>3, SchemaBegins, SchemaGoesOn, InitChainTyped, ChainTypedInductive, PTL DEF Spec

-----------------------------------------------------------------------------
(***************************************************************************)
(* The chain. As long as nothing was deleted, a record that no other       *)
(* process raced was made with the hash of one of the last rows that were  *)
(* there before it, and rows that come later are dated no earlier.         *)
(***************************************************************************)

(* Hash h is one that row r could follow in S: that of a row dated no later,   *)
(* with none between them, or "genesis" if no row is dated before r.           *)
Leads(S, h, r) ==
    \/ h = 0 /\ \A u \in S : u.at >= r.at
    \/ \E s \in S : s # r /\ s.id = h /\ s.at <= r.at /\ \A u \in S : u.at < r.at => u.at <= s.at

Chained ==
    cleaned = {} =>
        /\ \A r \in rows : r.id \notin raced => Leads(rows, r.prev, r)
        /\ \A p \in Processes : writing[p] /\ ~draft[p].raced => draft[p].prev \in LastHashes

LEMMA InsertsChained ==
    ASSUME ChainTyped, Chained, NEW p \in Processes, Inserts(p) PROVE Chained'
<1>. SUFFICES ASSUME cleaned' = {} PROVE Chained'
  BY DEF Chained
<1>1. PICK success \in BOOLEAN, critical \in BOOLEAN : rows' = rows \cup {NewRow(p, success, critical)}
  BY DEF Inserts, NewRow
<1> DEFINE n == NewRow(p, success, critical)
<1>2. n.id = ids + 1 /\ n.at = Second(now) /\ n.prev = draft[p].prev
  BY DEF NewRow
<1>3. rows' = rows \cup {n}
  BY <1>1
<1>. HIDE DEF n
<1>4. /\ writing[p] /\ cleaned = {}
      /\ draft' = [q \in Processes |-> IF q = p THEN NoDraft ELSE [draft[q] EXCEPT !.raced = @ \/ writing[q]]]
      /\ raced' = IF draft[p].raced THEN raced \cup {ids + 1} ELSE raced
      /\ writing' = [writing EXCEPT ![p] = FALSE]
  BY DEF Inserts
<1>5. \A u \in rows : u.at \in Nat /\ u.at <= n.at /\ u.id \in 1..ids
  <2>1. \A u \in rows : u.at \in Nat
    BY SecondsGrow, AuditAssumption DEF ChainTyped, RowsTyped, Records
  <2>2. QED
    BY <1>2, <2>1 DEF ChainTyped, RowsTyped, Records
<1>6. n.at \in Nat /\ ids \in Nat
  BY <1>2, SecondsGrow DEF ChainTyped, RowsTyped
<1>7. ASSUME NEW r \in rows, r.id \notin raced' PROVE Leads(rows', r.prev, r)
  <2>1. Leads(rows, r.prev, r)
    BY <1>4, <1>7 DEF Chained
  <2>2. ~(n.at < r.at) /\ n.at >= r.at
    BY <1>5, <1>6
  <2>3. QED
    BY <1>3, <2>1, <2>2 DEF Leads
<1>8. ASSUME n.id \notin raced' PROVE Leads(rows', n.prev, n)
  <2>1. ~draft[p].raced
    BY <1>2, <1>4, <1>8
  <2>2. n.prev \in LastHashes
    BY <1>2, <1>4, <2>1 DEF Chained
  <2>3. ~(n.at < n.at) /\ n.at >= n.at
    BY <1>6
  <2>4. CASE rows = {}
    BY <1>3, <2>2, <2>3, <2>4 DEF LastHashes, Leads
  <2>5. CASE rows # {}
    <3>1. PICK s \in rows : s.id = n.prev /\ \A u \in rows : u.at <= s.at
      BY <2>2, <2>5 DEF LastHashes
    <3>2. s # n /\ s.at <= n.at
      BY <1>2, <1>5, <1>6
    <3>3. QED
      BY <1>3, <2>3, <3>1, <3>2 DEF Leads
  <2>6. QED
    BY <2>4, <2>5
<1>9. ASSUME NEW q \in Processes, writing'[q] PROVE draft'[q].raced
  <2>1. q # p /\ writing[q]
    BY <1>4, <1>9 DEF ChainTyped, DraftsTyped
  <2>2. draft[q] \in [prev : 0..MaxRecords, made : 0..MaxNow, raced : BOOLEAN]
    BY DEF ChainTyped, DraftsTyped
  <2>3. QED
    BY <1>4, <2>1, <2>2
<1>10. QED
  BY <1>3, <1>7, <1>8, <1>9 DEF Chained

LEMMA ReadsChained ==
    ASSUME ChainTyped, Chained, NEW p \in Processes, ReadsLast(p) PROVE Chained'
<1>1. UNCHANGED <<rows, raced, cleaned>> /\ writing' = [writing EXCEPT ![p] = TRUE]
  BY DEF ReadsLast
<1>2. PICK h \in LastHashes : draft' = [draft EXCEPT ![p] = [prev |-> h, made |-> now, raced |-> FALSE]]
  BY DEF ReadsLast
<1>3. LastHashes' = LastHashes
  BY <1>1 DEF LastHashes
<1>4. draft'[p].prev = h /\ \A q \in Processes \ {p} : draft'[q] = draft[q] /\ writing'[q] = writing[q]
  BY <1>1, <1>2 DEF ChainTyped, DraftsTyped
<1>5. QED
  BY <1>1, <1>3, <1>4 DEF Chained

LEMMA FailsChained ==
    ASSUME ChainTyped, Chained, NEW p \in Processes, LogFails(p) PROVE Chained'
<1>1. UNCHANGED <<rows, raced, cleaned>> /\ LastHashes' = LastHashes
  BY DEF LogFails, LastHashes
<1>2. ~writing'[p] /\ \A q \in Processes \ {p} : draft'[q] = draft[q] /\ writing'[q] = writing[q]
  BY DEF LogFails, ChainTyped, DraftsTyped
<1>3. QED
  BY <1>1, <1>2 DEF Chained

LEMMA ChainedInductive == ASSUME ChainTyped, Chained, [Next]_vars PROVE Chained'
<1>1. CASE UNCHANGED <<rows, writing, draft, raced, cleaned>>
  BY <1>1 DEF Chained, LastHashes
<1>2. ASSUME NEW p \in Processes, OpensPages(p) \/ ReadsPage(p) PROVE Chained'
  BY <1>1, <1>2 DEF OpensPages, ReadsPage
<1>3. CASE ClosesPages \/ Tick
  BY <1>1, <1>3 DEF ClosesPages, Tick
<1>4. ASSUME NEW p \in Processes, CleansUp(p) PROVE Chained'
  BY <1>4 DEF CleansUp, Chained
<1>5. ASSUME NEW p \in Processes, ReadsLast(p) \/ Inserts(p) \/ LogFails(p) PROVE Chained'
  BY <1>5, ReadsChained, InsertsChained, FailsChained
<1>6. CASE UNCHANGED chainVars
  BY <1>1, <1>6 DEF chainVars
<1>7. QED
  BY <1>2, <1>3, <1>4, <1>5, <1>6 DEF Next, ChainNext, vars

(* The rows in some order: each of them at one place.                          *)
LEMMA Ordered ==
    ASSUME NEW S, IsFiniteSet(S), NEW q \in ByDate(S)
    PROVE  /\ Cardinality(S) \in Nat /\ Len(q) = Cardinality(S) /\ q \in [1..Len(q) -> S]
           /\ \A i, j \in 1..Len(q) : i < j => q[i].at <= q[j].at
           /\ \A i, j \in 1..Len(q) : q[i] = q[j] => i = j
           /\ \A r \in S : \E i \in 1..Len(q) : q[i] = r
<1> DEFINE n == Cardinality(S)
<1>1. n \in Nat
  BY FS_CardinalityType
<1>2. q \in [1..n -> S] /\ \A i, j \in 1..n : i # j => q[i] # q[j]
  BY DEF ByDate, SetToSeqs
<1>3. Len(q) = n
  BY <1>1, <1>2
<1>4. q \in Injection(1..n, S)
  BY <1>2 DEF Injection, IsInjective
<1>5. IsFiniteSet(1..n) /\ Cardinality(1..n) = n
  BY <1>1, FS_Interval
<1>6. q \in Surjection(1..n, S)
  BY <1>4, <1>5, FS_Injection
<1>7. \A r \in S : \E i \in 1..n : q[i] = r
  BY <1>6 DEF Surjection
<1>8. \A i, j \in 1..Len(q) : i < j => q[i].at <= q[j].at
  BY DEF ByDate
<1>9. QED
  BY <1>1, <1>2, <1>3, <1>7, <1>8

LEMMA ChainExplained ==
    ASSUME ChainTyped, Chained PROVE BrokenIsExplained
<1>. SUFFICES ASSUME cleaned = {}, NEW q \in ByDate(rows), NEW r \in rows, r.id \in Broken(q),
                     r.made = r.at * Ticks, ~Tied(r), r.id \notin raced
              PROVE  FALSE
  BY DEF BrokenIsExplained
<1>1. IsFiniteSet(rows) /\ (\A u, s \in rows : u.id = s.id => u = s) /\ \A u \in rows : u.at \in Nat
  BY SecondsGrow, AuditAssumption DEF ChainTyped, RowsTyped, Records
<1>2. /\ Len(q) \in Nat /\ q \in [1..Len(q) -> rows]
      /\ \A i, j \in 1..Len(q) : i < j => q[i].at <= q[j].at
      /\ \A u \in rows : \E i \in 1..Len(q) : q[i] = u
  BY <1>1, Ordered
<1>3. PICK i \in 1..Len(q) : q[i] = r /\ ~Matches(q, i)
  BY <1>1, <1>2 DEF Broken
<1>4. Leads(rows, r.prev, r)
  BY DEF Chained
<1>5. \A u \in rows : u # r => u.at # r.at
  BY DEF Tied
<1>6. ASSUME i = 1 PROVE r.prev = 0
  <2>1. ASSUME NEW s \in rows, s # r, s.at <= r.at PROVE FALSE
    <3>1. PICK j \in 1..Len(q) : q[j] = s
      BY <1>2
    <3>2. 1 < j
      BY <1>3, <1>6, <2>1, <3>1
    <3>3. r.at <= s.at
      BY <1>2, <1>3, <1>6, <3>1, <3>2
    <3>4. QED
      BY <1>1, <1>5, <2>1, <3>3
  <2>2. QED
    BY <1>4, <2>1 DEF Leads
<1>7. ASSUME i # 1 PROVE r.prev = q[i-1].id
  <2>1. i - 1 \in 1..Len(q) /\ i - 1 < i
    BY <1>2, <1>7
  <2>2. q[i-1] \in rows /\ q[i-1].at <= r.at
    BY <1>2, <1>3, <2>1
  <2>3. \A j, k \in 1..Len(q) : q[j] = q[k] => j = k
    BY <1>1, Ordered
  <2>4. q[i-1] # r
    BY <1>3, <2>1, <2>3
  <2>5. q[i-1].at < r.at
    BY <1>1, <1>5, <2>2, <2>4
  <2>6. PICK s \in rows : s # r /\ s.id = r.prev /\ s.at <= r.at /\ \A u \in rows : u.at < r.at => u.at <= s.at
    BY <1>1, <1>4, <2>2, <2>5 DEF Leads
  <2>7. PICK j \in 1..Len(q) : q[j] = s
    BY <1>2
  <2>8. s.at < r.at
    BY <1>1, <1>5, <2>6
  <2>9. j <= i - 1
    <3>1. ~(i < j)
      BY <1>1, <1>2, <1>3, <2>7, <2>8
    <3>2. i # j
      BY <1>3, <2>6, <2>7
    <3>3. QED
      BY <3>1, <3>2
  <2>10. s.at <= q[i-1].at
    <3>1. CASE j = i - 1
      BY <1>1, <2>7, <3>1
    <3>2. CASE j < i - 1
      BY <1>2, <2>1, <2>7, <3>2
    <3>3. QED
      BY <2>1, <2>9, <3>1, <3>2
  <2>11. s.at = q[i-1].at
    BY <1>1, <2>2, <2>5, <2>6, <2>10
  <2>12. s = q[i-1]
    BY <2>2, <2>6, <2>11 DEF Tied
  <2>13. QED
    BY <2>6, <2>12
<1>8. QED
  BY <1>3, <1>6, <1>7 DEF Matches

(* Whatever processes write at once, the verification of a chain nothing was   *)
(* deleted from reports only records made in a fraction of a second, tied or   *)
(* raced (log, verify_integrity).                                              *)
THEOREM ReportsAreExplained == Spec => []BrokenIsExplained
<1>1. Init => Chained
  BY DEF Init, ChainInit, Chained
<1>2. QED
  BY <1>1, InitChainTyped, ChainTypedInductive, ChainedInductive, ChainExplained, PTL DEF Spec

-----------------------------------------------------------------------------
(***************************************************************************)
(* The pages. A row that the client has not seen has more rows before it,  *)
(* newest first, than the client has asked for: rows added meanwhile only  *)
(* add to them, and a page takes the next ones.                            *)
(***************************************************************************)

Distinct(S) == \A r, s \in S : r # s => r.at # s.at
Later(S, r) == {s \in S : s.at > r.at}

Ahead(p) ==
    /\ \A x \in page.unseen : \E r \in Of(p) : r.id = x
    /\ Distinct(Of(p)) =>
          \A r \in Of(p) : r.id \in page.unseen => Cardinality(Later(Of(p), r)) >= page.offset

Paged == page.busy => \E p \in Processes : page.of = {p} /\ Ahead(p)

LEMMA RowsOf ==
    ASSUME RowsTyped, NEW p \in Processes
    PROVE  /\ IsFiniteSet(Of(p)) /\ Cardinality(Of(p)) \in Nat
           /\ \A r \in Of(p) : /\ r.at \in Nat /\ IsFiniteSet(Later(Of(p), r))
                               /\ Cardinality(Later(Of(p), r)) \in Nat
                               /\ Cardinality(Later(Of(p), r)) <= Cardinality(Of(p))
<1>1. IsFiniteSet(Of(p)) /\ Cardinality(Of(p)) \in Nat
  BY FS_Subset, FS_CardinalityType DEF Of, RowsTyped
<1>2. \A r \in Of(p) : r.at \in Nat
  BY SecondsGrow, AuditAssumption DEF Of, RowsTyped, Records
<1>3. ASSUME NEW r \in Of(p)
      PROVE  /\ IsFiniteSet(Later(Of(p), r)) /\ Cardinality(Later(Of(p), r)) \in Nat
             /\ Cardinality(Later(Of(p), r)) <= Cardinality(Of(p))
  BY <1>1, FS_Subset, FS_CardinalityType DEF Later
<1>4. QED
  BY <1>1, <1>2, <1>3

(* Without ties the rows after a place are those that are later.               *)
LEMMA LaterCount ==
    ASSUME RowsTyped, NEW p \in Processes, Distinct(Of(p)), NEW q \in ByDate(Of(p)), NEW i \in 1..Len(q)
    PROVE  Len(q) \in Nat /\ Cardinality(Later(Of(p), q[i])) = Len(q) - i
<1> DEFINE S == Of(p)
           n == Len(q)
           L == Later(S, q[i])
<1>1. /\ n \in Nat /\ q \in [1..n -> S]
      /\ \A j, k \in 1..n : j < k => q[j].at <= q[k].at
      /\ \A j, k \in 1..n : q[j] = q[k] => j = k
      /\ \A r \in S : \E j \in 1..n : q[j] = r
  BY RowsOf, Ordered
<1>2. \A r \in S : r.at \in Nat
  BY RowsOf
<1>3. \A j, k \in 1..n : j < k => q[j].at < q[k].at
  BY <1>1, <1>2 DEF Distinct
<1>. HIDE DEF S, n
<1>4. \A j \in 1..n : q[j] \in L <=> j > i
  BY <1>1, <1>2, <1>3 DEF Later, n
<1> DEFINE f == [k \in 1..(n-i) |-> q[i+k]]
<1>5. \A k \in 1..(n-i) : i + k \in 1..n /\ i + k > i
  BY <1>1 DEF n
<1>6. f \in [1..(n-i) -> L]
  BY <1>4, <1>5
<1>7. \A j, k \in 1..(n-i) : f[j] = f[k] => j = k
  BY <1>1, <1>5
<1>8. \A r \in L : \E k \in 1..(n-i) : f[k] = r
  <2>1. SUFFICES ASSUME NEW r \in L PROVE \E k \in 1..(n-i) : f[k] = r
    OBVIOUS
  <2>2. PICK j \in 1..n : q[j] = r
    BY <1>1 DEF Later
  <2>3. j - i \in 1..(n-i) /\ i + (j - i) = j
    BY <1>1, <1>4, <2>2 DEF n
  <2>4. f[j-i] = r
    BY <2>2, <2>3
  <2>5. QED
    BY <2>3, <2>4
<1>9. f \in Bijection(1..(n-i), L)
  BY <1>6, <1>7, <1>8 DEF Bijection, Injection, Surjection, IsInjective
<1>10. IsFiniteSet(1..(n-i)) /\ Cardinality(1..(n-i)) = n - i
  <2>1. n - i \in Nat
    BY <1>1 DEF n
  <2>2. \A d \in Nat : IsFiniteSet(1..d) /\ Cardinality(1..d) = d
    BY FS_Interval
  <2>3. QED
    BY <2>1, <2>2
<1>11. Cardinality(L) = n - i
  BY <1>9, <1>10, FS_Bijection DEF ExistsBijection
<1>12. QED
  BY <1>1, <1>11 DEF S, n

(* The page at the offset of the client has the rows at its places.            *)
LEMMA SliceHas ==
    ASSUME PageTyped, NEW S, NEW q \in Seq(S), NEW k \in 1..Len(q),
           page.offset < k, k <= page.offset + PageSize
    PROVE  Reverse(q)[k] \in ToSet(Slice(q))
<1> DEFINE v == Reverse(q)
           o == page.offset
           m == Min({o + PageSize, Len(q)})
<1>1. o \in Nat /\ PageSize \in Nat \ {0} /\ Len(q) \in Nat
  BY AuditAssumption DEF PageTyped
<1>2. Len(v) = Len(q) /\ \A j \in 1..Len(q) : v[j] \in S
  BY <1>1 DEF Reverse
<1>3. m \in {o + PageSize, Len(q)} /\ k <= m
  <2>1. \E x \in {o + PageSize, Len(q)} : \A y \in {o + PageSize, Len(q)} : x =< y
    BY <1>1
  <2>2. m \in {o + PageSize, Len(q)}
    BY <2>1 DEF Min
  <2>3. QED
    BY <2>2
<1>4. m \in Nat /\ m <= Len(q)
  <2>1. \E x \in {o + PageSize, Len(q)} : \A y \in {o + PageSize, Len(q)} : x =< y
    BY <1>1
  <2>2. m <= Len(q)
    BY <2>1 DEF Min
  <2>3. QED
    BY <1>1, <1>3, <2>2
<1>. HIDE DEF v, o, m
<1>5. \A j \in (o+1)..m : v[j] \in S
  BY <1>1, <1>2, <1>4
<1>6. /\ Len(SubSeq(v, o+1, m)) = IF o + 1 <= m THEN m - (o+1) + 1 ELSE 0
      /\ SubSeq(v, o+1, m) \in Seq(S)
      /\ \A j \in 1..(m - (o+1) + 1) : SubSeq(v, o+1, m)[j] = v[(o+1) + j - 1]
  BY <1>1, <1>4, <1>5, SubSeqProperties
<1>7. k - o \in 1..(m - (o+1) + 1) /\ (o+1) + (k - o) - 1 = k /\ o + 1 <= m
  BY <1>1, <1>3, <1>4 DEF o
<1>8. SubSeq(v, o+1, m)[k - o] = v[k] /\ k - o \in DOMAIN SubSeq(v, o+1, m)
  BY <1>6, <1>7
<1>9. Slice(q) = SubSeq(v, o+1, m)
  BY <1>2 DEF Slice, PageOf, v, o, m
<1>10. QED
  BY <1>8, <1>9 DEF ToSet, v

LEMMA ReadsPaged ==
    ASSUME ChainTyped, Paged, NEW p \in Processes, ReadsPage(p) PROVE Paged'
<1>1. page.busy /\ page.of = {p} /\ rows' = rows /\ Of(p)' = Of(p)
  BY DEF ReadsPage, Of
<1>2. Ahead(p)
  BY <1>1 DEF Paged
<1>3. PICK q \in ByDate(Of(p)) :
          page' = [page EXCEPT !.offset = @ + PageSize, !.unseen = @ \ {r.id : r \in ToSet(Slice(q))}]
  BY DEF ReadsPage
<1>4. RowsTyped /\ PageTyped
  BY DEF ChainTyped
<1>5. /\ page'.busy /\ page'.of = {p}
      /\ page'.offset = page.offset + PageSize
      /\ page'.unseen = page.unseen \ {r.id : r \in ToSet(Slice(q))}
      /\ page.offset \in Nat
  BY <1>1, <1>3, <1>4 DEF PageTyped
<1>6. \A x \in page'.unseen : \E r \in Of(p) : r.id = x
  BY <1>2, <1>5 DEF Ahead
<1>7. ASSUME Distinct(Of(p)), NEW r \in Of(p), r.id \in page'.unseen
      PROVE  Cardinality(Later(Of(p), r)) >= page'.offset
  <2>1. /\ Len(q) \in Nat /\ q \in [1..Len(q) -> Of(p)]
        /\ \A u \in Of(p) : \E i \in 1..Len(q) : q[i] = u
    BY <1>4, RowsOf, Ordered
  <2>2. PICK i \in 1..Len(q) : q[i] = r
    BY <2>1
  <2> DEFINE k == Len(q) - i + 1
  <2>3. k \in 1..Len(q) /\ (Len(q) - k) + 1 = i
    BY <2>1
  <2>4. Reverse(q)[k] = r
    BY <2>2, <2>3 DEF Reverse
  <2>5. Cardinality(Later(Of(p), r)) = k - 1
    BY <1>4, <1>7, <2>1, <2>2, LaterCount
  <2>6. k - 1 >= page.offset
    BY <1>2, <1>5, <1>7, <2>5 DEF Ahead
  <2>7. q \in Seq(Of(p))
    BY <2>1
  <2>. HIDE DEF k
  <2>8. ~(k <= page.offset + PageSize)
    <3>1. SUFFICES ASSUME k <= page.offset + PageSize PROVE FALSE
      OBVIOUS
    <3>2. page.offset < k
      BY <1>5, <2>3, <2>6
    <3>3. r \in ToSet(Slice(q))
      BY <1>4, <2>3, <2>4, <2>7, <3>1, <3>2, SliceHas
    <3>4. QED
      BY <1>5, <1>7, <3>3
  <2>9. QED
    BY <1>5, <2>3, <2>5, <2>8, AuditAssumption
<1>8. Ahead(p)'
  BY <1>1, <1>6, <1>7 DEF Ahead
<1>9. QED
  BY <1>5, <1>8 DEF Paged

LEMMA InsertsPaged ==
    ASSUME ChainTyped, ChainTyped', Paged, NEW w \in Processes, Inserts(w) PROVE Paged'
<1>. SUFFICES ASSUME page.busy PROVE Paged'
  BY DEF Inserts, Paged
<1>1. PICK p \in Processes : page.of = {p} /\ Ahead(p)
  BY DEF Paged
<1>2. PICK n : rows' = rows \cup {n} /\ n.id = ids + 1
  <2>1. PICK success \in BOOLEAN, critical \in BOOLEAN : rows' = rows \cup {NewRow(w, success, critical)}
    BY DEF Inserts, NewRow
  <2>2. NewRow(w, success, critical).id = ids + 1
    BY DEF NewRow
  <2>3. QED
    BY <2>1, <2>2
<1>3. page' = page
  BY DEF Inserts
<1>4. ids \in Nat /\ (\A r \in rows : r.id <= ids) /\ RowsTyped /\ RowsTyped'
  BY DEF ChainTyped, RowsTyped
<1>5. Of(p) \subseteq Of(p)' /\ Of(p)' \subseteq Of(p) \cup {n}
  BY <1>2 DEF Of
<1>6. ids + 1 \notin page.unseen
  BY <1>1, <1>4 DEF Ahead, Of
<1>7. ASSUME Distinct(Of(p)'), NEW r \in Of(p)', r.id \in page.unseen
      PROVE  Cardinality(Later(Of(p)', r)) >= page.offset
  <2>1. r \in Of(p)
    BY <1>2, <1>5, <1>6, <1>7
  <2>2. Distinct(Of(p))
    BY <1>5, <1>7 DEF Distinct
  <2>3. Cardinality(Later(Of(p), r)) >= page.offset
    BY <1>1, <1>7, <2>1, <2>2 DEF Ahead
  <2>4. Later(Of(p), r) \subseteq Later(Of(p)', r)
    BY <1>5 DEF Later
  <2>5. IsFiniteSet(Later(Of(p)', r)) /\ Cardinality(Later(Of(p)', r)) \in Nat
    <3>1. IsFiniteSet(rows')
      BY <1>4 DEF RowsTyped
    <3>2. Later(Of(p)', r) \subseteq rows'
      BY DEF Later, Of
    <3>3. QED
      BY <3>1, <3>2, FS_Subset, FS_CardinalityType
  <2>6. Cardinality(Later(Of(p), r)) <= Cardinality(Later(Of(p)', r)) /\ Cardinality(Later(Of(p), r)) \in Nat
    BY <1>4, <2>1, <2>4, <2>5, FS_Subset, RowsOf
  <2>7. page.offset \in Nat
    BY DEF ChainTyped, PageTyped
  <2>8. QED
    BY <2>3, <2>5, <2>6, <2>7
<1>8. Ahead(p)'
  BY <1>1, <1>3, <1>5, <1>7 DEF Ahead, Later
<1>9. QED
  BY <1>1, <1>3, <1>8 DEF Paged

LEMMA OpensPaged ==
    ASSUME ChainTyped, NEW p \in Processes, OpensPages(p) PROVE Paged'
<1>1. page'.of = {p} /\ page'.offset = 0 /\ page'.unseen = {r.id : r \in Of(p)} /\ rows' = rows /\ Of(p)' = Of(p)
  BY DEF OpensPages, Idle, Of
<1>2. \A r \in Of(p) : Cardinality(Later(Of(p), r)) >= 0
  BY RowsOf DEF ChainTyped
<1>3. Ahead(p)'
  BY <1>1, <1>2 DEF Ahead
<1>4. QED
  BY <1>1, <1>3 DEF Paged

LEMMA PagedInductive == ASSUME ChainTyped, Paged, [Next]_vars PROVE Paged'
<1>1. CASE UNCHANGED <<rows, page>>
  BY <1>1 DEF Paged, Ahead, Of
<1>2. ASSUME NEW p \in Processes, ReadsLast(p) \/ LogFails(p) PROVE Paged'
  BY <1>1, <1>2 DEF ReadsLast, LogFails
<1>3. ASSUME NEW p \in Processes, CleansUp(p) PROVE Paged'
  BY <1>3 DEF CleansUp, Paged
<1>4. ASSUME NEW p \in Processes, Inserts(p) PROVE Paged'
  BY <1>4, InsertsPaged, InsertsTyped
<1>5. ASSUME NEW p \in Processes, OpensPages(p) \/ ReadsPage(p) PROVE Paged'
  BY <1>5, OpensPaged, ReadsPaged
<1>6. CASE ClosesPages
  BY <1>6 DEF ClosesPages, Idle, Paged
<1>7. CASE Tick
  BY <1>1, <1>7 DEF Tick
<1>8. CASE UNCHANGED chainVars
  BY <1>1, <1>8 DEF chainVars
<1>9. QED
  BY <1>2, <1>3, <1>4, <1>5, <1>6, <1>7, <1>8 DEF Next, ChainNext, vars

LEMMA PagesSound == ASSUME ChainTyped, Paged PROVE PagesAreComplete
<1>. SUFFICES ASSUME PagesEnd, page.unseen # {},
                     ~ \E p \in Processes : page.of = {p} /\ \E r, s \in Of(p) : r # s /\ r.at = s.at
              PROVE  FALSE
  BY DEF PagesAreComplete
<1>1. PICK p \in Processes : page.of = {p} /\ page.offset > Cardinality(Of(p))
  BY DEF PagesEnd
<1>2. Ahead(p)
  BY <1>1 DEF PagesEnd, Paged
<1>3. Distinct(Of(p))
  BY <1>1 DEF Distinct
<1>4. PICK r \in Of(p) : r.id \in page.unseen
  BY <1>2 DEF Ahead
<1>5. RowsTyped /\ page.offset \in Nat
  BY DEF ChainTyped, PageTyped
<1>6. QED
  BY <1>1, <1>2, <1>3, <1>4, <1>5, RowsOf DEF Ahead

(* Whoever reads page after page sees every row there was at the first page,   *)
(* whatever is added meanwhile, if no two rows of the instance are tied        *)
(* (query_logs and its endpoint).                                              *)
THEOREM PagesMissNothing == Spec => []PagesAreComplete
<1>1. Init => Paged
  BY DEF Init, ChainInit, Paged, Idle
<1>2. QED
  BY <1>1, InitChainTyped, ChainTypedInductive, PagedInductive, PagesSound, PTL DEF Spec
=============================================================================
