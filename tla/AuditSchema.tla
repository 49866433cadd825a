---------------------------- MODULE AuditSchema ----------------------------
(***************************************************************************)
(* The schema of the audit database (audit_migrations.py). A deployment    *)
(* (deploy_audit_schema.py) creates missing tables and their indexes, adds *)
(* the two columns of the Dolibarr invoice to a table of an older release, *)
(* each with its own index, and validates what it finds; Hermes validates  *)
(* again when it starts and does not start otherwise. A statement of DDL   *)
(* takes effect at once, and a deployment can fail at any of them, or meet *)
(* another.                                                                *)
(*                                                                         *)
(* Parts of a schema are its tables, the newer columns and the indexes,    *)
(* where "ix_..." is one for all indexes of a table nothing looks at.      *)
(***************************************************************************)
EXTENDS Naturals, FiniteSets

CONSTANTS
    Deployers,  \* deployments
    Processes   \* processes of Hermes, one for each instance

VARIABLES
    schema,     \* the parts there are
    step,       \* step[d]: the next step of deployment d
    todo,       \* todo[d]: the tables and indexes create_all has not made yet
    lacks,      \* lacks[d]: the columns it found missing
    refused,    \* deployments that were refused a column that is not there, up to their validation
    serving     \* processes that started

schemaVars == <<schema, step, todo, lacks, refused, serving>>

Tables  == {"audit_log", "document_idempotency_record"}
Columns == {"dolibarr_invoice_id", "dolibarr_invoice_ref"}

IndexesOf(t) == IF t = "audit_log" THEN {"ix_audit"} ELSE {"ux_idempotency_dedup", "ix_idempotency"}

\* CREATE TABLE makes the columns, too.
MadeWith(p) == {p} \cup IF p = "document_idempotency_record" THEN Columns ELSE {}

Critical == Tables \cup Columns \cup {"ux_idempotency_dedup"}
Whole    == Tables \cup Columns \cup UNION {IndexesOf(t) : t \in Tables}

\* No tables, tables of an older release, or of today's.
Schemas == {{}, Whole \ Columns, Whole}

Ends == {"deployed", "failed"}
Deploying == {d \in Deployers : step[d] \notin {"new"} \cup Ends}

SchemaInit ==
    /\ schema \in Schemas
    /\ step    = [d \in Deployers |-> "new"]
    /\ todo    = [d \in Deployers |-> {}]
    /\ lacks   = [d \in Deployers |-> {}]
    /\ refused = {}
    /\ serving = {}

-----------------------------------------------------------------------------
(* create_all. What it makes is settled before the first statement, and the *)
(* indexes of a table that exists are none of its business.                *)

Bootstrap(d) ==
    /\ step[d] = "new"
    /\ todo' = [todo EXCEPT ![d] = UNION {{t} \cup IndexesOf(t) : t \in Tables \ schema}]
    /\ step' = [step EXCEPT ![d] = IF Tables \subseteq schema THEN "dolibarr_invoice_id" ELSE "create"]
    /\ UNCHANGED <<schema, lacks, refused, serving>>

\* One table after the other: indexes of the one that was made, or a table.
Due(d) ==
    LET opened == {i \in todo[d] : \E t \in Tables \ todo[d] : i \in IndexesOf(t)}
    IN IF opened # {} THEN opened ELSE todo[d] \cap Tables

\* A statement for what another deployment made meanwhile raises, and the deployment fails.
Creates(d) ==
    /\ step[d] = "create"
    /\ \E p \in Due(d) \ schema :
          /\ schema' = schema \cup MadeWith(p)
          /\ todo'   = [todo EXCEPT ![d] = @ \ {p}]
          /\ step'   = [step EXCEPT ![d] = IF todo[d] = {p} THEN "dolibarr_invoice_id" ELSE "create"]
    /\ UNCHANGED <<lacks, refused, serving>>

-----------------------------------------------------------------------------
(* The migration and the validation. *)

\* Mutated: nothing is added when one of the columns is there.
LooksForEither(d, c) ==
    /\ step[d] = c
    /\ lacks' = [lacks EXCEPT ![d] = @ \cup ({c} \ schema)]
    /\ step'  = [step EXCEPT ![d] = IF c = "dolibarr_invoice_id" THEN "dolibarr_invoice_ref"
                                    ELSE IF lacks'[d] # Columns THEN "validate" ELSE "alter"]
    /\ UNCHANGED <<schema, todo, refused, serving>>

\* Each column is looked for with an inspection of its own.
LooksForColumn(d, c) ==
    /\ step[d] = c
    /\ lacks' = [lacks EXCEPT ![d] = @ \cup ({c} \ schema)]
    /\ step'  = [step EXCEPT ![d] = IF c = "dolibarr_invoice_id" THEN "dolibarr_invoice_ref"
                                    ELSE IF lacks'[d] = {} THEN "validate" ELSE "alter"]
    /\ UNCHANGED <<schema, todo, refused, serving>>

\* ALTER TABLE for the columns that were missing, in this order. One that fails, as it does when
\* another deployment added the column meanwhile, is a warning.
AddsColumn(d) ==
    /\ step[d] = "alter"
    /\ LET c == IF "dolibarr_invoice_id" \in lacks[d] THEN "dolibarr_invoice_id"
                                                      ELSE "dolibarr_invoice_ref"
       IN /\ \/ c \notin schema /\ schema' = schema \cup {c} /\ UNCHANGED refused
             \/ /\ refused' = IF c \in schema THEN refused ELSE refused \cup {d}
                /\ UNCHANGED schema
          /\ lacks' = [lacks EXCEPT ![d] = @ \ {c}]
          /\ step'  = [step EXCEPT ![d] = IF lacks[d] = {c} THEN "validate" ELSE "alter"]
    /\ UNCHANGED <<todo, serving>>

\* validate_audit_schema
Valid == Critical \subseteq schema

Validates(d) ==
    /\ step[d] = "validate"
    /\ step'    = [step EXCEPT ![d] = IF Valid THEN "deployed" ELSE "failed"]
    /\ refused' = refused \ {d}
    /\ UNCHANGED <<schema, todo, lacks, serving>>

\* A statement raises, the connection is lost, or the script is interrupted.
DeployFails(d) ==
    /\ d \in Deploying
    /\ step'    = [step EXCEPT ![d] = "failed"]
    /\ lacks'   = [lacks EXCEPT ![d] = {}]
    /\ refused' = refused \ {d}
    /\ UNCHANGED <<schema, todo, serving>>

\* The lifespan of a process of Hermes validates before anything is served.
Starts(p) ==
    /\ p \notin serving
    /\ Valid
    /\ serving' = serving \cup {p}
    /\ UNCHANGED <<schema, step, todo, lacks, refused>>

SchemaNext ==
    \/ \E d \in Deployers :
          \/ Bootstrap(d) \/ Creates(d) \/ AddsColumn(d) \/ Validates(d) \/ DeployFails(d)
          \/ \E c \in Columns : LooksForColumn(d, c)
    \/ \E p \in Processes : Starts(p)

\* What earlier deployments left undone, wherever they broke off, a deployment makes up for before it
\* validates, and so it does when it meets others ("Idempotent: can be run multiple times safely",
\* audit_migrations.py:362). There are two exceptions: it was itself refused a column; or a deployment
\* made the table of documents and not its unique index, in which it may have broken off for good.
MissingIsExplained ==
    \A d \in Deployers : step[d] = "validate" =>
        /\ Tables \subseteq schema
        /\ Columns \subseteq schema \/ d \in refused
        /\ \/ "ux_idempotency_dedup" \in schema
           \/ \E e \in Deployers : /\ "document_idempotency_record" \notin todo[e]
                                   /\ "ux_idempotency_dedup" \in todo[e]
=============================================================================
