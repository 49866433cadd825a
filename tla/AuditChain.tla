----------------------------- MODULE AuditChain -----------------------------
(***************************************************************************)
(* The audit log (audit.py): records in one table for all instances, each  *)
(* with a hash over the hash of the last record, its own id and the time.  *)
(* A process reads the last hash and inserts its record in one call of     *)
(* AuditLogger.log, but every instance has a process of its own, and they  *)
(* do so at once. Rows are dated by the database, in whole seconds, and    *)
(* verified in the order of their dates. Old rows are cleaned up, and the  *)
(* endpoint of the API hands them out in pages, newest first.              *)
(*                                                                         *)
(* A hash stands for what went into it: the record it follows, the id and  *)
(* the instant. A record is therefore known by its id, "prev" is the id    *)
(* whose hash it was made with, 0 being "genesis". Time is in ticks. An    *)
(* order by date leaves open how rows of one second come: any of them may. *)
(***************************************************************************)
EXTENDS AuditSchema, Sequences, SequencesExt, FiniteSetsExt

CONSTANTS
    Ticks,      \* instants in a second
    Retention,  \* seconds after which a row may be cleaned up
    PageSize,   \* limit of a page
    MaxRecords, \* bound: records written
    MaxNow      \* bound: ticks

ASSUME AuditAssumption ==
    /\ IsFiniteSet(Processes)
    /\ Ticks \in Nat \ {0} /\ PageSize \in Nat \ {0}
    /\ Retention \in Nat /\ MaxRecords \in Nat /\ MaxNow \in Nat

VARIABLES
    rows,     \* the table audit_log
    now,      \* the instant
    ids,      \* records written so far, the id of the last one
    writing,  \* writing[p]: whether log of process p is between its read and its insert
    draft,    \* draft[p]: the record it is about to insert
    raced,    \* ids of records before whose insert another was inserted, after their read
    evidence, \* ids of failed or critical records
    cleaned,  \* instances that were cleaned up
    page      \* what a client has read of the pages of one instance

chainVars == <<rows, now, ids, writing, draft, raced, evidence, cleaned, page>>
vars == <<schemaVars, chainVars>>

Second(t) == t \div Ticks

\* The columns the code decides by: critical stands for an action in CRITICAL_ACTIONS.
Records == [id : 1..MaxRecords, of : Processes, prev : 0..MaxRecords, made : 0..MaxNow,
            at : 0..Second(MaxNow), success : BOOLEAN, critical : BOOLEAN]

NoDraft == [prev |-> 0, made |-> 0, raced |-> FALSE]

\* No client reads. Otherwise: whose rows, the offset of the next page, and the ids of the rows
\* there were at the first page that were on no page yet.
Idle == [busy |-> FALSE, of |-> {}, offset |-> 0, unseen |-> {}]

Of(p) == {r \in rows : r.of = p}

ChainInit ==
    /\ rows = {} /\ now = 0 /\ ids = 0
    /\ writing  = [p \in Processes |-> FALSE]
    /\ draft    = [p \in Processes |-> NoDraft]
    /\ raced = {} /\ evidence = {} /\ cleaned = {}
    /\ page = Idle

\* Bound: records are written, and time counts, when all deployments have succeeded and all processes
\* serve. Neither disturbs the other, as no deployment touches a row.
Deployed == serving = Processes /\ \A d \in Deployers : step[d] = "deployed"

-----------------------------------------------------------------------------
(* AuditLogger.log *)

\* Mutated: the last hash is looked for from the other end.
FirstHashes == IF rows = {} THEN {0} ELSE {r.id : r \in {q \in rows : \A s \in rows : s.at >= q.at}}

\* ORDER BY created_at DESC LIMIT 1, over all instances.
LastHashes == IF rows = {} THEN {0} ELSE {r.id : r \in {q \in rows : \A s \in rows : s.at <= q.at}}

\* _get_last_hash, and the instant for the hash.
ReadsLast(p) ==
    /\ Deployed /\ ~writing[p]
    /\ ids + Cardinality({q \in Processes : writing[q]}) < MaxRecords
    /\ writing' = [writing EXCEPT ![p] = TRUE]
    /\ \E h \in LastHashes : draft' = [draft EXCEPT ![p] = [prev |-> h, made |-> now, raced |-> FALSE]]
    /\ UNCHANGED <<schemaVars, rows, now, ids, raced, evidence, cleaned, page>>

\* The insert, dated NOW(), and its commit.
Inserts(p) ==
    /\ writing[p]
    /\ \E success, critical \in BOOLEAN :
          /\ success \/ ~critical
          /\ rows' = rows \cup {[id |-> ids + 1, of |-> p, prev |-> draft[p].prev, made |-> draft[p].made,
                                 at |-> Second(now), success |-> success, critical |-> critical]}
          /\ evidence' = IF success /\ ~critical THEN evidence ELSE evidence \cup {ids + 1}
    /\ ids'     = ids + 1
    /\ writing' = [writing EXCEPT ![p] = FALSE]
    /\ draft'   = [q \in Processes |-> IF q = p THEN NoDraft
                                       ELSE [draft[q] EXCEPT !.raced = @ \/ writing[q]]]
    /\ raced'   = IF draft[p].raced THEN raced \cup {ids + 1} ELSE raced
    /\ UNCHANGED <<schemaVars, now, cleaned, page>>

\* The database does not answer: log rolls back and returns the id all the same.
LogFails(p) ==
    /\ writing[p]
    /\ writing' = [writing EXCEPT ![p] = FALSE]
    /\ draft'   = [draft EXCEPT ![p] = NoDraft]
    /\ UNCHANGED <<schemaVars, rows, now, ids, raced, evidence, cleaned, page>>

-----------------------------------------------------------------------------
(* cleanup_old_logs. Assumed: nobody pages through the rows meanwhile. *)

\* Mutated: critical actions are not spared.
ExpiredAll(p) == {r \in Of(p) : r.at + Retention < Second(now) /\ r.success}

Expired(p) == {r \in Of(p) : r.at + Retention < Second(now) /\ r.success /\ ~r.critical}

CleansUp(p) ==
    /\ Deployed
    /\ ~page.busy
    /\ Expired(p) # {}
    /\ rows'    = rows \ Expired(p)
    /\ cleaned' = cleaned \cup {p}
    /\ UNCHANGED <<schemaVars, now, ids, writing, draft, raced, evidence, page>>

-----------------------------------------------------------------------------
(* query_logs, called by GET /api/{instance_id}/audit with growing offsets *)

\* Rows in the order of their dates, oldest first; a query may return any of these.
ByDate(S) == {q \in SetToSeqs(S) : \A i, j \in 1..Len(q) : i < j => q[i].at <= q[j].at}

OpensPages(p) ==
    /\ ~page.busy /\ Deployed /\ Of(p) # {}
    /\ page' = [Idle EXCEPT !.busy = TRUE, !.of = {p}, !.unseen = {r.id : r \in Of(p)}]
    /\ UNCHANGED <<schemaVars, rows, now, ids, writing, draft, raced, evidence, cleaned>>

\* The rows of the page at the offset of the client.
PageOf(q) == SubSeq(q, page.offset + 1, Min({page.offset + PageSize, Len(q)}))

\* Mutated: the offset is left out.
SliceUnshifted(q) == SubSeq(Reverse(q), 1, Min({PageSize, Len(q)}))

\* ORDER BY created_at DESC LIMIT :limit OFFSET :offset, of rows given oldest first.
Slice(q) == PageOf(Reverse(q))

\* One page; the client asks for the next one until one is not full.
ReadsPage(p) ==
    /\ page.busy /\ page.of = {p}
    /\ page.offset <= Cardinality(Of(p))
    /\ \E q \in ByDate(Of(p)) :
          page' = [page EXCEPT !.offset = @ + PageSize,
                               !.unseen = @ \ {r.id : r \in ToSet(Slice(q))}]
    /\ UNCHANGED <<schemaVars, rows, now, ids, writing, draft, raced, evidence, cleaned>>

PagesEnd == page.busy /\ \E p \in Processes : page.of = {p} /\ page.offset > Cardinality(Of(p))

ClosesPages ==
    /\ PagesEnd
    /\ page' = Idle
    /\ UNCHANGED <<schemaVars, rows, now, ids, writing, draft, raced, evidence, cleaned>>

Tick ==
    /\ now < MaxNow /\ Deployed
    /\ now' = now + 1
    /\ UNCHANGED <<schemaVars, rows, ids, writing, draft, raced, evidence, cleaned, page>>

ChainNext ==
    \/ \E p \in Processes :
          \/ ReadsLast(p) \/ Inserts(p) \/ LogFails(p) \/ CleansUp(p)
          \/ OpensPages(p) \/ ReadsPage(p)
    \/ ClosesPages
    \/ Tick

Init == SchemaInit /\ ChainInit
Next == (SchemaNext /\ UNCHANGED chainVars) \/ ChainNext
Spec == Init /\ [][Next]_vars

-----------------------------------------------------------------------------
(* verify_integrity *)

\* Whether q[i] has the hash that is expected after the row before it, for its own date: a hash is
\* made of the instant, to the microsecond.
Matches(q, i) ==
    /\ q[i].prev = IF i = 1 THEN 0 ELSE q[i-1].id
    /\ q[i].made = q[i].at * Ticks

Broken(q) == {q[i].id : i \in {j \in 1..Len(q) : ~Matches(q, j)}}

\* Two rows of a second: r and another, or two that r may follow.
Tied(r) ==
    \E s, t \in rows : /\ s # t /\ s.at = t.at
                       /\ \/ s = r
                          \/ s.at <= r.at /\ \A u \in rows : u.at < r.at => u.at <= s.at

-----------------------------------------------------------------------------
(* Properties. *)

\* Rows have the columns of their table, dated no later than now, and a process has a draft only
\* while its log is at work.
TypeOK ==
    /\ rows \subseteq Records
    /\ now \in 0..MaxNow /\ ids \in 0..MaxRecords
    /\ writing \in [Processes -> BOOLEAN]
    /\ draft \in [Processes -> [prev : 0..MaxRecords, made : 0..MaxNow, raced : BOOLEAN]]
    /\ raced \subseteq 1..MaxRecords /\ evidence \subseteq 1..MaxRecords /\ cleaned \subseteq Processes
    /\ schema \subseteq Whole /\ refused \subseteq Deployers /\ serving \subseteq Processes
    /\ todo \in [Deployers -> SUBSET (Whole \ Columns)] /\ lacks \in [Deployers -> SUBSET Columns]
    /\ page.unseen \subseteq 1..MaxRecords /\ page.offset \in Nat
    /\ \A r \in rows : r.at <= Second(now) /\ r.prev < r.id
    /\ \A p \in Processes : ~writing[p] => draft[p] = NoDraft

\* The chain of the whole table, which nothing was deleted from, is found broken only at records
\* made in a fraction of a second, tied with another, or raced by another process (log and
\* verify_integrity): any other report is a record that was changed.
BrokenIsExplained ==
    cleaned = {} =>
        \A q \in ByDate(rows) : \A r \in rows :
            r.id \in Broken(q) => r.made # r.at * Ticks \/ Tied(r) \/ r.id \in raced

\* What failed and what was critical is in the table for ever (cleanup_old_logs).
EvidenceKept == evidence \subseteq {r.id : r \in rows}

\* Whoever reads page after page sees every row of the instance there was at the first page, though
\* rows are added meanwhile, unless the instance has two rows of a second (query_logs and its endpoint;
\* a cleanup between two pages would shift them).
PagesAreComplete ==
    PagesEnd /\ page.unseen # {}
    => \E p \in Processes : page.of = {p} /\ \E r, s \in Of(p) : r # s /\ r.at = s.at
=============================================================================
