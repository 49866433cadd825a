------------------------- MODULE IdentityResolution -------------------------
(***************************************************************************)
(* Who a Telegram user is. The table telegram_identities of one instance   *)
(* (identity_store.py) links Telegram users to Dolibarr users and holds    *)
(* the API key with which Hermes acts for them. A request resolves its     *)
(* sender by reading the row, asking Dolibarr for the user and its groups  *)
(* with the user's own key, and writing the row back with a new date       *)
(* (identity_resolver.py). Meanwhile the operator, in other processes,     *)
(* links, unlinks, enables and disables users (cli/__init__.py) and        *)
(* rotates their keys (scripts/rotate/dolibarr_user_api_key.py).           *)
(*                                                                         *)
(* Each access to SQLite is one transaction. A request holds its copy of   *)
(* the row across two awaits; the write back stores every column of that   *)
(* copy.                                                                   *)
(***************************************************************************)
EXTENDS Naturals, FiniteSets

CONSTANTS
    TgUsers,     \* Telegram users
    ErpUsers,    \* users of Dolibarr
    Requests,    \* requests that resolve an identity
    None,        \* no row, no key, nobody
    MaxKeys,     \* bound: API keys Dolibarr issues to a user
    MaxOperator  \* bound: actions of the operator

Keys == ErpUsers \X (1..MaxKeys)
Row  == [user: ErpUsers, enabled: BOOLEAN, key: Keys \cup {None}]

ASSUME IdentityAssumption ==
    /\ MaxKeys \in Nat \ {0}
    /\ MaxOperator \in Nat
    /\ None \notin Row \cup Keys \cup ErpUsers \cup TgUsers

VARIABLES
    rows,    \* rows[t]: the row of t, None without one
    erp,     \* erp[d]: whether d is active in Dolibarr, and the number of its key
    pc,      \* pc[r]: where the resolution of request r is, or how it ended
    about,   \* about[r]: the Telegram user it is about
    copy,    \* copy[r]: the row it read
    rotation,\* the key rotation in progress: its step, Dolibarr user and row
    written, \* written[t]: the row as the operator last left it
    raced,   \* raced[t]: that was done while a request held a copy
    operator \* actions of the operator so far

rowVars      == <<rows, written, raced>>
requestVars  == <<pc, about, copy>>
operatorVars == <<erp, rotation, operator>>
idVars       == <<rows, erp, pc, about, copy, rotation, written, raced, operator>>

Holding  == {"user", "groups", "save"}
Outcomes == {"granted", "denied", "raised"}

\* r has read the row of t and has not written it back.
Holds(r, t) == pc[r] \in Holding /\ about[r] = t

\* Dolibarr accepts the key: the last one it issued to a user who is active.
Accepts(key) == key # None /\ erp[key[1]] = [active |-> TRUE, key |-> key[2]]

Linked(t) == rows[t] # None
Enabled(t) == Linked(t) /\ rows[t].enabled

-----------------------------------------------------------------------------
(* Rows are one to one, and a key in a row is the one of its user.          *)
InitialRows ==
    {f \in [TgUsers -> Row \cup {None}] :
        /\ \A t, u \in TgUsers : t # u /\ f[t] # None /\ f[u] # None => f[t].user # f[u].user
        /\ \A t \in TgUsers : f[t] # None => f[t].key \in {None, <<f[t].user, 1>>}}

Idle == [step |-> "none", user |-> None, tg |-> None]

IdentityInit ==
    /\ rows     \in InitialRows
    /\ erp      = [d \in ErpUsers |-> [active |-> TRUE, key |-> 1]]
    /\ pc       = [r \in Requests |-> "idle"]
    /\ about    = [r \in Requests |-> None]
    /\ copy     = [r \in Requests |-> None]
    /\ rotation = Idle
    /\ written  = rows
    /\ raced    = [t \in TgUsers |-> FALSE]
    /\ operator = 0

-----------------------------------------------------------------------------
(* IdentityResolver.resolve.                                                *)

Go(r, point) == pc' = [pc EXCEPT ![r] = point]

\* Slip: the row is not asked whether it is enabled.
LoadAnyRow(r, t) ==
    /\ pc[r] = "idle"
    /\ about' = [about EXCEPT ![r] = t]
    /\ copy'  = [copy EXCEPT ![r] = rows[t]]
    /\ Go(r, IF ~Linked(t) THEN "denied" ELSE IF rows[t].key = None THEN "raised" ELSE "user")
    /\ UNCHANGED <<rowVars, operatorVars>>

\* Steps 1 and 2 up to the first await. A row without a key makes the factory
\* of the client raise, an error the callers do not expect.
Load(r, t) ==
    /\ pc[r] = "idle"
    /\ about' = [about EXCEPT ![r] = t]
    /\ copy'  = [copy EXCEPT ![r] = rows[t]]
    /\ Go(r, CASE ~Enabled(t) -> "denied"
               [] Enabled(t) /\ rows[t].key = None -> "raised"
               [] OTHER -> "user")
    /\ UNCHANGED <<rowVars, operatorVars>>

\* get_user: a refused key or a missing right (401, 403) raises an error the
\* callers do not expect; an inactive user, a failed connection, a timeout deny.
UserAnswered(r) ==
    /\ pc[r] = "user"
    /\ \/ Accepts(copy[r].key) /\ erp[copy[r].user].active /\ Go(r, "groups")
       \/ Go(r, "denied")
       \/ Go(r, "raised")
    /\ UNCHANGED <<about, copy, rowVars, operatorVars>>

\* get_user_groups: any failure raises.
GroupsAnswered(r) ==
    /\ pc[r] = "groups"
    /\ \/ Accepts(copy[r].key) /\ Go(r, "save")
       \/ Go(r, "raised")
    /\ UNCHANGED <<about, copy, rowVars, operatorVars>>

\* Slip: the schema does not keep users apart.
CanSaveAnyUser(t, row) == Linked(t)

\* The write back fails without a row, and where another row has the user.
CanSave(t, row) ==
    /\ Linked(t)
    /\ \A u \in TgUsers \ {t} : Linked(u) => rows[u].user # row.user

\* Slip: the copy loses its key.
WithoutKey(row) == [row EXCEPT !.key = None]

\* TelegramIdentity.with_last_seen: a copy with another date, which is no part
\* of the model.
WithLastSeen(row) == row

\* Steps 4 and 5, from the answer about the groups to the return.
Save(r) ==
    /\ pc[r] = "save"
    /\ LET t == about[r] IN
       \/ /\ CanSave(t, copy[r])
          /\ rows' = [rows EXCEPT ![t] = WithLastSeen(copy[r])]
          /\ Go(r, "granted")
       \/ /\ ~CanSave(t, copy[r])
          /\ Go(r, "raised")
          /\ UNCHANGED rows
    /\ UNCHANGED <<about, copy, written, raced, operatorVars>>

\* The caller has what it asked for.
Finish(r) ==
    /\ pc[r] \in Outcomes
    /\ Go(r, "idle")
    /\ about' = [about EXCEPT ![r] = None]
    /\ copy'  = [copy EXCEPT ![r] = None]
    /\ UNCHANGED <<rowVars, operatorVars>>

\* The worker dies and its requests with it.
WorkerDies ==
    /\ pc'    = [r \in Requests |-> "idle"]
    /\ about' = [r \in Requests |-> None]
    /\ copy'  = [r \in Requests |-> None]
    /\ UNCHANGED <<rowVars, operatorVars>>

Resolving(r) == UserAnswered(r) \/ GroupsAnswered(r) \/ Save(r)

-----------------------------------------------------------------------------
(* The operator.                                                            *)

Acts == operator < MaxOperator /\ operator' = operator + 1

Write(t, row) ==
    /\ rows'    = [rows EXCEPT ![t] = row]
    /\ written' = [written EXCEPT ![t] = row]
    /\ raced'   = [raced EXCEPT ![t] = \E r \in Requests : Holds(r, t)]
    /\ UNCHANGED requestVars

\* cmd_user_link: its two checks say no more than the constraints of the table.
Link(t, d) ==
    /\ Acts
    /\ ~Linked(t)
    /\ \A u \in TgUsers : Linked(u) => rows[u].user # d
    /\ Write(t, [user |-> d, enabled |-> TRUE, key |-> None])
    /\ UNCHANGED <<erp, rotation>>

\* cmd_user_unlink
Unlink(t) ==
    /\ Acts
    /\ Linked(t)
    /\ Write(t, None)
    /\ UNCHANGED <<erp, rotation>>

\* cmd_user_enable and cmd_user_disable
SetEnabled(t, enabled) ==
    /\ Acts
    /\ Linked(t)
    /\ Write(t, [rows[t] EXCEPT !.enabled = enabled])
    /\ UNCHANGED <<erp, rotation>>

\* The administrator of Dolibarr switches a user off or on.
SwitchErpUser(d) ==
    /\ Acts
    /\ erp' = [erp EXCEPT ![d].active = ~@]
    /\ UNCHANGED <<rotation, rowVars, requestVars>>

\* The new key is made in Dolibarr by hand, then given to the script.
NewKey(d) ==
    /\ Acts
    /\ rotation.step = "none"
    /\ erp[d].key < MaxKeys
    /\ erp' = [erp EXCEPT ![d].key = @ + 1]
    /\ rotation' = [step |-> "find", user |-> d, tg |-> None]
    /\ UNCHANGED <<rowVars, requestVars>>

\* _update_identities_db finds the row by its user ...
FindRow ==
    /\ rotation.step = "find"
    /\ \/ \E t \in TgUsers :
            /\ Linked(t) /\ rows[t].user = rotation.user
            /\ rotation' = [step |-> "write", user |-> rotation.user, tg |-> t]
       \/ /\ \A t \in TgUsers : Linked(t) => rows[t].user # rotation.user
          /\ rotation' = Idle
    /\ UNCHANGED <<erp, operator, rowVars, requestVars>>

\* ... and updates it by its Telegram user, in another transaction.
WriteKey ==
    /\ rotation.step = "write"
    /\ LET t == rotation.tg IN
       \/ /\ Linked(t)
          /\ Write(t, [rows[t] EXCEPT !.key = <<rotation.user, erp[rotation.user].key>>])
       \/ /\ ~Linked(t)
          /\ UNCHANGED <<rowVars, requestVars>>
    /\ rotation' = Idle
    /\ UNCHANGED <<erp, operator>>

Operate ==
    \/ \E t \in TgUsers, d \in ErpUsers : Link(t, d)
    \/ \E t \in TgUsers : Unlink(t)
    \/ \E t \in TgUsers, enabled \in BOOLEAN : SetEnabled(t, enabled)
    \/ \E d \in ErpUsers : SwitchErpUser(d) \/ NewKey(d)
    \/ FindRow
    \/ WriteKey

IdentityNext ==
    \/ \E r \in Requests, t \in TgUsers : Load(r, t)
    \/ \E r \in Requests : Resolving(r) \/ Finish(r)
    \/ WorkerDies
    \/ Operate

IdentitySpec == IdentityInit /\ [][IdentityNext]_idVars

-----------------------------------------------------------------------------
IdentityTypeOK ==
    /\ rows \in [TgUsers -> Row \cup {None}]
    /\ erp \in [ErpUsers -> [active: BOOLEAN, key: 1..MaxKeys]]
    /\ pc \in [Requests -> {"idle"} \cup Holding \cup Outcomes]
    /\ about \in [Requests -> TgUsers \cup {None}]
    /\ copy \in [Requests -> Row \cup {None}]
    /\ rotation \in {Idle} \cup [step: {"find"}, user: ErpUsers, tg: {None}]
                           \cup [step: {"write"}, user: ErpUsers, tg: TgUsers]
    /\ written \in [TgUsers -> Row \cup {None}]
    /\ raced \in [TgUsers -> BOOLEAN]
    /\ operator \in 0..MaxOperator

\* No two Telegram users act as the same Dolibarr user, although rows are
\* unlinked, linked anew and written back from old copies.
OneToOne ==
    \A t, u \in TgUsers : t # u /\ Linked(t) /\ Linked(u) => rows[t].user # rows[u].user

\* What the operator does to a row while no request holds a copy of it stays
\* done: a resolution that begins later writes back what it found.
OperatorWins == \A t \in TgUsers : ~raced[t] => rows[t] = written[t]

\* Once the operator has disabled or unlinked a user, and no request held a copy,
\* no request gets as far as Dolibarr for that user.
OffMeansDenied ==
    \A r \in Requests : pc[r] \in Holding /\ ~raced[about[r]] => Enabled(about[r])

\* Resolving an identity updates the date of its last use and no more.
OnlyLastSeen == rows = written
=============================================================================
