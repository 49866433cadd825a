----------------------- MODULE TelegramWebhookProofs -----------------------
(***************************************************************************)
(* Proofs about IdentityResolution and TelegramWebhook, for any users,     *)
(* updates, requests and bounds. What a request does to identities is a    *)
(* behaviour of IdentityResolution, so the theorems of the first part hold *)
(* in the webhook; the invariants of the second add what the key of an     *)
(* update tells about it.                                                  *)
(***************************************************************************)
EXTENDS TelegramWebhook, TLAPS

-----------------------------------------------------------------------------
(***************************************************************************)
(* Identities. A race is between an operator's write and the copies in     *)
(* flight, so the invariant says of every copy in flight what the          *)
(* operator's claim needs: without a race, the copy is the row.            *)
(***************************************************************************)

(* Each action keeps the types. *)
LEMMA IdentityTypes ==
  ASSUME IdentityTypeOK, [IdentityNext]_idVars PROVE IdentityTypeOK'
<1> USE IdentityAssumption DEF IdentityTypeOK, rowVars, requestVars, operatorVars,
        Holding, Outcomes, Go, Linked
<1>1. CASE UNCHANGED idVars
  BY <1>1 DEF idVars
<1>2. ASSUME NEW r \in Requests, NEW t \in TgUsers, Load(r, t)
      PROVE  IdentityTypeOK'
  BY <1>2 DEF Load
<1>3. ASSUME NEW r \in Requests, UserAnswered(r)
      PROVE  IdentityTypeOK'
  BY <1>3 DEF UserAnswered
<1>4. ASSUME NEW r \in Requests, GroupsAnswered(r)
      PROVE  IdentityTypeOK'
  BY <1>4 DEF GroupsAnswered
<1>5. ASSUME NEW r \in Requests, Save(r)
      PROVE  IdentityTypeOK'
  BY <1>5 DEF Save, CanSave, WithLastSeen
<1>6. ASSUME NEW r \in Requests, Finish(r)
      PROVE  IdentityTypeOK'
  BY <1>6 DEF Finish
<1>7. ASSUME NEW t \in TgUsers, NEW row \in Row \cup {None}, Write(t, row)
      PROVE  /\ rows' \in [TgUsers -> Row \cup {None}]
             /\ written' \in [TgUsers -> Row \cup {None}]
             /\ raced' \in [TgUsers -> BOOLEAN]
             /\ UNCHANGED requestVars
  BY <1>7 DEF Write
<1>8. ASSUME Acts
      PROVE  operator' \in 0..MaxOperator
  BY <1>8 DEF Acts
<1>9. ASSUME NEW t \in TgUsers, NEW d \in ErpUsers, Link(t, d)
      PROVE  IdentityTypeOK'
  <2>1. [user |-> d, enabled |-> TRUE, key |-> None] \in Row
    BY DEF Row
  <2>2. QED
    BY <1>7, <1>8, <1>9, <2>1 DEF Link
<1>10. ASSUME NEW t \in TgUsers, Unlink(t)
       PROVE  IdentityTypeOK'
  BY <1>7, <1>8, <1>10 DEF Unlink
<1>11. ASSUME NEW t \in TgUsers, NEW enabled \in BOOLEAN, SetEnabled(t, enabled)
       PROVE  IdentityTypeOK'
  <2>1. [rows[t] EXCEPT !.enabled = enabled] \in Row
    BY <1>11 DEF SetEnabled, Row
  <2>2. QED
    BY <1>7, <1>8, <1>11, <2>1 DEF SetEnabled
<1>12. ASSUME NEW d \in ErpUsers, SwitchErpUser(d)
       PROVE  IdentityTypeOK'
  BY <1>8, <1>12 DEF SwitchErpUser
<1>13. ASSUME NEW d \in ErpUsers, NewKey(d)
       PROVE  IdentityTypeOK'
  BY <1>8, <1>13 DEF NewKey
<1>14. CASE FindRow
  <2>1. rotation \in [step: {"find"}, user: ErpUsers, tg: {None}]
    <3>1. Idle.step = "none" /\ rotation.step = "find"
      BY <1>14 DEF FindRow, Idle
    <3>2. rotation \notin [step: {"write"}, user: ErpUsers, tg: TgUsers]
      BY <3>1
    <3>3. QED
      BY <3>1, <3>2
  <2>2. rotation' = Idle \/ rotation' \in [step: {"write"}, user: ErpUsers, tg: TgUsers]
    BY <1>14, <2>1 DEF FindRow
  <2>3. QED
    BY <1>14, <2>2 DEF FindRow
<1>15. CASE WriteKey
  <2>1. rotation.tg \in TgUsers /\ rotation.user \in ErpUsers
    <3>1. Idle.step = "none" /\ rotation.step = "write"
      BY <1>15 DEF WriteKey, Idle
    <3>2. rotation \in [step: {"write"}, user: ErpUsers, tg: TgUsers]
      BY <3>1
    <3>3. QED
      BY <3>2
  <2>2. CASE ~Linked(rotation.tg)
    BY <1>15, <2>2 DEF WriteKey
  <2>3. CASE Linked(rotation.tg)
    <3> DEFINE row == [rows[rotation.tg] EXCEPT
                         !.key = <<rotation.user, erp[rotation.user].key>>]
    <3>1. row \in Row
      <4>1. <<rotation.user, erp[rotation.user].key>> \in Keys
        BY <2>1 DEF Keys
      <4>2. rows[rotation.tg] \in Row
        BY <2>1, <2>3
      <4>3. QED
        BY <4>1, <4>2 DEF Row
    <3>2. Write(rotation.tg, row) /\ rotation' = Idle /\ UNCHANGED <<erp, operator>>
      BY <1>15, <2>3 DEF WriteKey
    <3>3. QED
      BY <1>7, <2>1, <3>1, <3>2
  <2>4. QED
    BY <2>2, <2>3
<1>16. CASE WorkerDies
  BY <1>16 DEF WorkerDies
<1>17. QED
  BY <1>1, <1>2, <1>3, <1>4, <1>5, <1>6, <1>9, <1>16, <1>10, <1>11, <1>12, <1>13, <1>14, <1>15
     DEF IdentityNext, Resolving, Operate

(* The table, the requests and the rotation have their types. *)
THEOREM IdentityTypeCorrect == IdentitySpec => []IdentityTypeOK
<1>1. IdentityInit => IdentityTypeOK
  BY IdentityAssumption DEF IdentityInit, IdentityTypeOK, InitialRows, Idle, Holding, Outcomes
<1>2. QED
  BY <1>1, IdentityTypes, PTL DEF IdentitySpec

-----------------------------------------------------------------------------
(* A request with a copy is about someone, and where no operator's write fell *)
(* between its reading and now, the copy is the row and the row is enabled.   *)
CopiesAreRows ==
    \A r \in Requests : pc[r] \in Holding =>
        /\ about[r] \in TgUsers
        /\ copy[r] \in Row
        /\ ~raced[about[r]] => copy[r] = rows[about[r]] /\ Enabled(about[r])

SafeInv == OneToOne /\ OperatorWins /\ CopiesAreRows

(* A write of the operator that leaves users apart: it either meets no copy, *)
(* or is a race.                                                             *)
LEMMA WriteIsSafe ==
  ASSUME IdentityTypeOK, SafeInv,
         NEW t \in TgUsers, NEW row \in Row \cup {None}, Write(t, row),
         row # None => \A u \in TgUsers \ {t} : Linked(u) => rows[u].user # row.user
  PROVE  SafeInv'
<1> USE DEF IdentityTypeOK, Write, requestVars
<1>1. OneToOne'
  BY DEF SafeInv, OneToOne, Linked
<1>2. OperatorWins'
  BY DEF SafeInv, OperatorWins
<1>3. CopiesAreRows'
  <2> SUFFICES ASSUME NEW r \in Requests, pc'[r] \in Holding
               PROVE  /\ about'[r] \in TgUsers
                      /\ copy'[r] \in Row
                      /\ ~raced'[about'[r]] => copy'[r] = rows'[about'[r]] /\ Enabled(about[r])'
    BY DEF CopiesAreRows
  <2>1. about[r] \in TgUsers /\ copy[r] \in Row /\ pc[r] \in Holding
    BY DEF SafeInv, CopiesAreRows
  <2>2. CASE about[r] = t
    <3>1. Holds(r, t)
      BY <2>1, <2>2 DEF Holds
    <3>2. raced'[t]
      BY <3>1
    <3>3. QED
      BY <2>1, <2>2, <3>2
  <2>3. CASE about[r] # t
    <3>1. rows'[about[r]] = rows[about[r]] /\ raced'[about[r]] = raced[about[r]]
      BY <2>1, <2>3
    <3>2. QED
      BY <2>1, <3>1 DEF SafeInv, CopiesAreRows, Enabled, Linked
  <2>4. QED
    BY <2>2, <2>3
<1>4. QED
  BY <1>1, <1>2, <1>3 DEF SafeInv

(* A request that moves on without touching a row: what it holds it held      *)
(* before, or it has just read it.                                            *)
LEMMA RequestIsSafe ==
  ASSUME IdentityTypeOK, SafeInv, NEW r \in Requests,
         UNCHANGED rowVars,
         about' \in [Requests -> TgUsers \cup {None}], copy' \in [Requests -> Row \cup {None}],
         \A q \in Requests \ {r} : pc'[q] = pc[q] /\ about'[q] = about[q] /\ copy'[q] = copy[q],
         pc'[r] \in Holding =>
            \/ pc[r] \in Holding /\ about'[r] = about[r] /\ copy'[r] = copy[r]
            \/ about'[r] \in TgUsers /\ copy'[r] = rows[about'[r]] /\ Enabled(about'[r])
  PROVE  SafeInv'
<1> USE DEF rowVars, SafeInv
<1>1. OneToOne' /\ OperatorWins'
  BY DEF OneToOne, OperatorWins, Linked
<1>2. ASSUME NEW q \in Requests, pc'[q] \in Holding
      PROVE  /\ about'[q] \in TgUsers
             /\ copy'[q] \in Row
             /\ ~raced'[about'[q]] => copy'[q] = rows'[about'[q]] /\ Enabled(about[q])'
  <2>1. CASE q = r /\ about'[r] \in TgUsers /\ copy'[r] = rows[about'[r]] /\ Enabled(about'[r])
    BY <2>1 DEF Enabled, Linked, IdentityTypeOK
  <2>2. CASE pc[q] \in Holding /\ about'[q] = about[q] /\ copy'[q] = copy[q]
    BY <2>2 DEF CopiesAreRows, Enabled, Linked
  <2>3. QED
    BY <1>2, <2>1, <2>2
<1>3. QED
  BY <1>1, <1>2 DEF CopiesAreRows

(* The write back changes a row only after a race.                            *)
LEMMA SaveIsSafe ==
  ASSUME IdentityTypeOK, IdentityTypeOK', SafeInv, NEW r \in Requests, Save(r)
  PROVE  SafeInv'
<1> DEFINE t == about[r]
<1>1. t \in TgUsers /\ copy[r] \in Row /\ (~raced[t] => copy[r] = rows[t])
  BY DEF Save, SafeInv, CopiesAreRows, Holding
<1>2. CASE rows' = rows
  <2>1. pc'[r] \notin Holding
    BY DEF Save, Go, Holding, IdentityTypeOK
  <2>2. UNCHANGED rowVars /\ UNCHANGED <<about, copy>>
    BY <1>2 DEF Save, rowVars
  <2>3. \A q \in Requests \ {r} : pc'[q] = pc[q]
    BY DEF Save, Go, IdentityTypeOK
  <2>4. QED
    BY <2>1, <2>2, <2>3, RequestIsSafe DEF IdentityTypeOK
<1>3. CASE rows' # rows
  <2>1. CanSave(t, copy[r]) /\ rows' = [rows EXCEPT ![t] = copy[r]] /\ Go(r, "granted")
    BY <1>3 DEF Save, WithLastSeen
  <2>2. UNCHANGED <<about, copy, written, raced>>
    BY DEF Save
  <2>3. raced[t]
    BY <1>1, <1>3, <2>1 DEF IdentityTypeOK
  <2>4. OneToOne'
    BY <1>1, <2>1 DEF SafeInv, OneToOne, CanSave, Linked, IdentityTypeOK
  <2>5. OperatorWins'
    BY <2>1, <2>2, <2>3 DEF SafeInv, OperatorWins, IdentityTypeOK
  <2>6. CopiesAreRows'
    <3> SUFFICES ASSUME NEW q \in Requests, pc'[q] \in Holding
                 PROVE  /\ about[q] \in TgUsers
                        /\ copy[q] \in Row
                        /\ ~raced[about[q]] => copy[q] = rows'[about[q]] /\ Enabled(about[q])'
      BY <2>2 DEF CopiesAreRows
    <3>1. pc[q] \in Holding
      BY <2>1 DEF Go, Holding, IdentityTypeOK
    <3>2. about[q] \in TgUsers /\ copy[q] \in Row
      BY <3>1 DEF SafeInv, CopiesAreRows
    <3>3. CASE raced[about[q]]
      BY <3>2, <3>3
    <3>4. CASE ~raced[about[q]]
      <4>1. rows'[about[q]] = rows[about[q]]
        BY <2>1, <2>3, <3>2, <3>4 DEF IdentityTypeOK
      <4>2. QED
        BY <2>2, <3>1, <3>2, <3>4, <4>1 DEF SafeInv, CopiesAreRows, Enabled, Linked
    <3>5. QED
      BY <3>3, <3>4
  <2>7. QED
    BY <2>4, <2>5, <2>6 DEF SafeInv
<1>4. QED
  BY <1>2, <1>3

LEMMA IdentityInductive ==
  ASSUME IdentityTypeOK, IdentityTypeOK', SafeInv, [IdentityNext]_idVars PROVE SafeInv'
<1>1. ASSUME UNCHANGED rowVars, UNCHANGED requestVars PROVE SafeInv'
  BY <1>1 DEF SafeInv, OneToOne, OperatorWins, CopiesAreRows, Enabled, Linked, rowVars, requestVars
<1>2. CASE UNCHANGED idVars
  BY <1>1, <1>2 DEF idVars, rowVars, requestVars
<1>3. ASSUME NEW r \in Requests, NEW t \in TgUsers, Load(r, t) PROVE SafeInv'
  <2>1. UNCHANGED rowVars /\ about'[r] = t /\ copy'[r] = rows[t] /\ (pc'[r] \in Holding => Enabled(t))
    BY <1>3 DEF Load, Go, Holding, IdentityTypeOK
  <2>2. \A q \in Requests \ {r} : pc'[q] = pc[q] /\ about'[q] = about[q] /\ copy'[q] = copy[q]
    BY <1>3 DEF Load, Go, IdentityTypeOK
  <2>3. QED
    BY <2>1, <2>2, RequestIsSafe DEF IdentityTypeOK
<1>4. ASSUME NEW r \in Requests, UserAnswered(r) \/ GroupsAnswered(r) \/ Finish(r) PROVE SafeInv'
  <2>1. UNCHANGED rowVars
    BY <1>4 DEF UserAnswered, GroupsAnswered, Finish
  <2>2. pc'[r] \in Holding => pc[r] \in Holding /\ about'[r] = about[r] /\ copy'[r] = copy[r]
    BY <1>4 DEF UserAnswered, GroupsAnswered, Finish, Go, Holding, IdentityTypeOK
  <2>3. \A q \in Requests \ {r} : pc'[q] = pc[q] /\ about'[q] = about[q] /\ copy'[q] = copy[q]
    BY <1>4 DEF UserAnswered, GroupsAnswered, Finish, Go, IdentityTypeOK
  <2>4. QED
    BY <2>1, <2>2, <2>3, RequestIsSafe DEF IdentityTypeOK
<1>5. ASSUME NEW r \in Requests, Save(r) PROVE SafeInv'
  BY <1>5, SaveIsSafe
<1>6. ASSUME NEW t \in TgUsers, NEW d \in ErpUsers, Link(t, d) PROVE SafeInv'
  <2>1. [user |-> d, enabled |-> TRUE, key |-> None] \in Row
    BY DEF Row
  <2>2. QED
    BY <1>6, <2>1, WriteIsSafe DEF Link
<1>7. ASSUME NEW t \in TgUsers, Unlink(t) PROVE SafeInv'
  BY <1>7, WriteIsSafe DEF Unlink
<1>8. ASSUME NEW t \in TgUsers, NEW enabled \in BOOLEAN, SetEnabled(t, enabled) PROVE SafeInv'
  <2> DEFINE row == [rows[t] EXCEPT !.enabled = enabled]
  <2>1. rows[t] \in Row
    BY <1>8 DEF SetEnabled, Linked, IdentityTypeOK
  <2>2. row \in Row /\ row.user = rows[t].user
    BY <2>1 DEF Row
  <2>3. Linked(t) /\ Write(t, row)
    BY <1>8 DEF SetEnabled
  <2>4. QED
    BY <2>2, <2>3, WriteIsSafe DEF SafeInv, OneToOne
<1>9. ASSUME NEW d \in ErpUsers, SwitchErpUser(d) \/ NewKey(d) PROVE SafeInv'
  BY <1>1, <1>9 DEF SwitchErpUser, NewKey
<1>10. CASE FindRow
  BY <1>1, <1>10 DEF FindRow
<1>11. CASE WriteKey
  <2> DEFINE t == rotation.tg
             row == [rows[t] EXCEPT !.key = <<rotation.user, erp[rotation.user].key>>]
  <2>1. CASE ~Linked(t)
    BY <1>1, <1>11, <2>1 DEF WriteKey
  <2>2. CASE Linked(t)
    <3>1. t \in TgUsers /\ rotation.user \in ErpUsers
      <4>1. Idle.step = "none" /\ rotation.step = "write"
        BY <1>11 DEF WriteKey, Idle
      <4>2. rotation \in [step: {"write"}, user: ErpUsers, tg: TgUsers]
        BY <4>1 DEF IdentityTypeOK
      <4>3. QED
        BY <4>2
    <3>2. rows[t] \in Row /\ <<rotation.user, erp[rotation.user].key>> \in Keys
      BY <2>2, <3>1 DEF IdentityTypeOK, Linked, Keys
    <3>3. row \in Row /\ row.user = rows[t].user
      BY <3>2 DEF Row
    <3>4. Write(t, row)
      BY <1>11, <2>2 DEF WriteKey
    <3>5. QED
      BY <2>2, <3>1, <3>3, <3>4, WriteIsSafe DEF SafeInv, OneToOne
  <2>3. QED
    BY <2>1, <2>2
<1>12. CASE WorkerDies
  <2>1. UNCHANGED rowVars /\ \A q \in Requests : pc'[q] \notin Holding
    BY <1>12 DEF WorkerDies, Holding
  <2>2. QED
    BY <2>1 DEF SafeInv, OneToOne, OperatorWins, CopiesAreRows, Linked, rowVars
<1>13. QED
  BY <1>12, <1>2, <1>3, <1>4, <1>5, <1>6, <1>7, <1>8, <1>9, <1>10, <1>11
     DEF IdentityNext, Resolving, Operate

(* It holds in every reachable state.                                         *)
LEMMA IdentityInvariant == IdentitySpec => []SafeInv
<1>1. IdentityInit => SafeInv
  BY DEF IdentityInit, InitialRows, SafeInv, OneToOne, OperatorWins, CopiesAreRows, Linked, Holding
<1>2. IdentityTypeOK /\ IdentityTypeOK' /\ SafeInv /\ [IdentityNext]_idVars => SafeInv'
  BY IdentityInductive
<1>3. QED
  BY <1>1, <1>2, IdentityTypeCorrect, PTL DEF IdentitySpec

(* IdentityResolver.resolve and the commands of the operator keep the users of *)
(* Dolibarr apart, whatever old copies are written back.                       *)
THEOREM UsersApart == IdentitySpec => []OneToOne
BY IdentityInvariant, PTL DEF SafeInv

(* What the operator does while nobody holds a copy of the row stays done.     *)
THEOREM OperatorKept == IdentitySpec => []OperatorWins
BY IdentityInvariant, PTL DEF SafeInv

(* A user switched off while nobody holds a copy of the row gets no request as *)
(* far as Dolibarr.                                                            *)
THEOREM OffIsOff == IdentitySpec => []OffMeansDenied
<1>1. SafeInv => OffMeansDenied
  BY DEF SafeInv, CopiesAreRows, OffMeansDenied
<1>2. QED
  BY <1>1, IdentityInvariant, PTL

-----------------------------------------------------------------------------
(***************************************************************************)
(* The webhook.                                                            *)
(***************************************************************************)

\* The request is at one of the places where the handler may return.
MayEnd(r) == step[r] # "idle" /\ pc[r] \in {"idle"} \cup Outcomes

\* The handler of r ends, in either way.
Ends(r) == MayEnd(r) /\ (Complete(r) \/ Fail(r))

(* Every step of the handler moves on within the update, or ends it.         *)
LEMMA HandlerSteps ==
  ASSUME TypeOK, NEW r \in Requests, Handle(r)
  PROVE  \/ /\ Ends(r)
            /\ \/ stranded' = stranded /\ (step[r] = "sending" => Complete(r))
               \/ PreviewFails(r)
         \/ StartResolving(r) \/ Resolve(r) \/ Admitted(r) \/ StoreCommand(r)
<1> USE DEF Ends, MayEnd, Outcomes, TypeOK, HookTypeOK
<1>1. CASE Ignored(r)
  BY <1>1 DEF Ignored
<1>2. CASE ResolutionRaised(r)
  BY <1>2 DEF ResolutionRaised
<1>3. CASE Refused(r)
  BY <1>3 DEF Refused
<1>4. CASE ActionEnds(r)
  BY <1>4 DEF ActionEnds
<1>5. CASE PreviewFails(r)
  BY <1>5 DEF PreviewFails
<1>6. CASE PreviewEnds(r)
  BY <1>6 DEF PreviewEnds
<1>7. QED
  BY <1>1, <1>2, <1>3, <1>4, <1>5, <1>6 DEF Handle

(* What a step of the webhook does to the identities is a step there.        *)
LEMMA StepResolves == ASSUME TypeOK, [Next]_vars PROVE [IdentityNext]_idVars
<1>1. ASSUME NEW r \in Requests, Handle(r) PROVE [IdentityNext]_idVars
  <2>1. CASE Ends(r)
    BY <2>1 DEF Ends, Complete, Fail, Leave, IdentityNext
  <2>2. CASE StartResolving(r)
    <3>1. Sender(r) \in TgUsers
      BY <2>2 DEF StartResolving, Sender, TypeOK, HookTypeOK
    <3>2. QED
      BY <2>2, <3>1 DEF StartResolving, IdentityNext
  <2>3. CASE Resolve(r)
    BY <2>3 DEF Resolve, IdentityNext
  <2>4. CASE Admitted(r) \/ StoreCommand(r)
    BY <2>4 DEF Admitted, StoreCommand
  <2>5. QED
    BY <1>1, <2>1, <2>2, <2>3, <2>4, HandlerSteps
<1>2. ASSUME NEW r \in Requests, NEW u \in Updates, Receive(r, u) PROVE [IdentityNext]_idVars
  BY <1>2 DEF Receive
<1>3. ASSUME NEW u \in Updates, TimeOut(u) PROVE [IdentityNext]_idVars
  BY <1>3 DEF TimeOut
<1>4. CASE Crash
  BY <1>4 DEF Crash, IdentityNext
<1>5. CASE Operate /\ UNCHANGED hookVars
  BY <1>5 DEF IdentityNext
<1>6. CASE UNCHANGED vars
  BY <1>6 DEF vars
<1>7. QED
  BY <1>1, <1>2, <1>3, <1>4, <1>5, <1>6 DEF Next

(* The end of a request keeps the types.                                     *)
LEMMA EndTypes ==
  ASSUME TypeOK, NEW r \in Requests, Ends(r), stranded' \in [Updates -> Nat]
  PROVE  HookTypeOK'
<1> USE WebhookAssumption DEF Ends, MayEnd, TypeOK, HookTypeOK, IdentityTypeOK
<1>1. serving[r] \in Updates
  OBVIOUS
<1>2. /\ step' = [step EXCEPT ![r] = "idle"]
      /\ serving' = [serving EXCEPT ![r] = None]
      /\ update' = update /\ interrupted' = interrupted
      /\ telegram' \in [Updates -> {"queued", "done"} \cup Requests]
  BY <1>1 DEF Complete, Fail, Leave, Answer
<1>3. pc'[r] = "idle" /\ \A q \in Requests \ {r} : pc'[q] = pc[q]
  <2>1. CASE pc[r] \in Outcomes
    BY <2>1 DEF Complete, Fail, Leave, Finish, Go
  <2>2. CASE pc[r] = "idle"
    BY <2>2 DEF Complete, Fail, Leave, Outcomes, idVars
  <2>3. QED
    BY <2>1, <2>2
<1>4. /\ redis' \in [Updates -> {"none", "processing", "completed"}]
      /\ handled' \subseteq Updates
      /\ commands' \in [Updates -> Nat]
      /\ failures' \in 0..MaxFailures /\ timeouts' \in 0..MaxTimeouts /\ crashes' \in 0..MaxCrashes
  <2>1. CASE Complete(r)
    BY <1>1, <2>1 DEF Complete, bounds
  <2>2. CASE Fail(r)
    BY <1>1, <2>2 DEF Fail
  <2>3. QED
    BY <2>1, <2>2
<1>5. \A q \in Requests :
        /\ (step'[q] = "idle") <=> (serving'[q] = None)
        /\ (step'[q] \in {"idle", "begun"}) => (pc'[q] = "idle")
        /\ (step'[q] \in {"acting", "sending"}) => (pc'[q] = "granted")
  <2> TAKE q \in Requests
  <2>1. CASE q = r
    BY <1>2, <1>3, <2>1
  <2>2. CASE q # r
    <3>1. step'[q] = step[q] /\ serving'[q] = serving[q] /\ pc'[q] = pc[q]
      BY <1>2, <1>3, <2>2
    <3>2. QED
      BY <3>1
  <2>3. QED
    BY <2>1, <2>2
<1>6. step' \in [Requests -> Steps] /\ serving' \in [Requests -> Updates \cup {None}]
  BY <1>2 DEF Steps
<1>7. QED
  BY <1>2, <1>4, <1>5, <1>6

(* Each step keeps the types.                                                *)
LEMMA HookTypes == ASSUME TypeOK, [Next]_vars PROVE HookTypeOK'
<1> USE WebhookAssumption DEF TypeOK, HookTypeOK, IdentityTypeOK, effects, bounds, idVars, Steps
<1>1. ASSUME NEW r \in Requests, Handle(r) PROVE HookTypeOK'
  <2>1. CASE Ends(r) /\ (stranded' = stranded \/ PreviewFails(r))
    <3>1. stranded' \in [Updates -> Nat]
      BY <2>1 DEF PreviewFails
    <3>2. QED
      BY <2>1, <3>1, EndTypes
  <2>2. CASE StartResolving(r)
    <3>1. step' = [step EXCEPT ![r] = "resolving"] /\ serving' = serving /\ serving[r] # None
      BY <2>2 DEF StartResolving
    <3>2. \A q \in Requests \ {r} : pc'[q] = pc[q]
      BY <2>2 DEF StartResolving, Load, Go
    <3>3. QED
      BY <2>2, <3>1, <3>2 DEF StartResolving
  <2>3. CASE Resolve(r)
    <3>1. UNCHANGED hookVars /\ step[r] = "resolving"
      BY <2>3 DEF Resolve
    <3>2. \A q \in Requests \ {r} : pc'[q] = pc[q]
      BY <2>3 DEF Resolve, Resolving, UserAnswered, GroupsAnswered, Save, Go
    <3>3. QED
      BY <3>1, <3>2 DEF hookVars
  <2>4. CASE Admitted(r)
    BY <2>4 DEF Admitted
  <2>5. CASE StoreCommand(r)
    BY <2>5 DEF StoreCommand
  <2>6. QED
    BY <1>1, <2>1, <2>2, <2>3, <2>4, <2>5, HandlerSteps
<1>2. ASSUME NEW r \in Requests, NEW u \in Updates, Receive(r, u) PROVE HookTypeOK'
  <2>1. CASE redis[u] = "none"
    <3>1. /\ step' = [step EXCEPT ![r] = "begun"] /\ serving' = [serving EXCEPT ![r] = u]
          /\ pc' = pc /\ pc[r] = "idle"
      BY <1>2, <2>1 DEF Receive
    <3>2. \A q \in Requests :
            /\ (step'[q] = "idle") <=> (serving'[q] = None)
            /\ (step'[q] \in {"idle", "begun"}) => (pc'[q] = "idle")
            /\ (step'[q] \in {"acting", "sending"}) => (pc'[q] = "granted")
      BY <3>1
    <3>3. telegram' \in [Updates -> {"queued", "done"} \cup Requests]
      BY <1>2, <2>1 DEF Receive
    <3>4. step' \in [Requests -> Steps] /\ serving' \in [Requests -> Updates \cup {None}]
      BY <3>1
    <3>5. redis' \in [Updates -> {"none", "processing", "completed"}]
      BY <1>2, <2>1 DEF Receive
    <3>6. QED
      BY <1>2, <3>2, <3>3, <3>4, <3>5 DEF Receive
  <2>2. CASE redis[u] # "none"
    BY <1>2, <2>2 DEF Receive
  <2>3. QED
    BY <2>1, <2>2
<1>3. ASSUME NEW u \in Updates, TimeOut(u) PROVE HookTypeOK'
  BY <1>3 DEF TimeOut
<1>4. CASE Crash
  BY <1>4 DEF Crash, WorkerDies
<1>5. CASE Operate /\ UNCHANGED hookVars
  <2>1. pc' = pc
    BY <1>5 DEF Operate, Link, Unlink, SetEnabled, SwitchErpUser, NewKey, FindRow, WriteKey,
                Write, requestVars
  <2>2. QED
    BY <1>5, <2>1 DEF hookVars
<1>6. CASE UNCHANGED vars
  BY <1>6 DEF vars, hookVars
<1>7. QED
  BY <1>1, <1>2, <1>3, <1>4, <1>5, <1>6 DEF Next

(* The webhook's variables have their types.                                 *)
THEOREM WebhookTypeCorrect == Spec => []TypeOK
<1>1. Init => TypeOK
  BY WebhookAssumption, IdentityAssumption
     DEF Init, IdentityInit, InitialRows, TypeOK, HookTypeOK, IdentityTypeOK, Idle, Steps, Holding
<1>2. TypeOK /\ [Next]_vars => TypeOK'
  BY StepResolves, HookTypes, IdentityTypes DEF TypeOK
<1>3. QED
  BY <1>1, <1>2, PTL DEF Spec

(* To the identities the webhook is a client that loads, waits, saves and       *)
(* dies: every behaviour of it is one of IdentityResolution.                    *)
THEOREM WebhookResolves == Spec => IdentitySpec
<1>1. Init => IdentityInit
  BY DEF Init
<1>2. TypeOK /\ [Next]_vars => [IdentityNext]_idVars
  BY StepResolves
<1>3. QED
  BY <1>1, <1>2, WebhookTypeCorrect, PTL DEF Spec, IdentitySpec

-----------------------------------------------------------------------------
(* What the key of an update tells: "completed" that it was handled,           *)
(* "processing" that one request handles it or that Telegram lost the one      *)
(* that did.                                                                   *)
KeysTell ==
    \A u \in Updates :
        /\ redis[u] = "completed" <=> u \in handled
        /\ telegram[u] = "queued" /\ redis[u] = "processing" => u \in interrupted
        /\ telegram[u] \in Requests => serving[telegram[u]] = u

\* Pending commands against requests that failed with one: an update starts even.
CommandsEven ==
    /\ \A u \in Updates : redis[u] = "none" => commands[u] <= stranded[u]
    /\ \A r \in Requests :
          step[r] \in {"begun", "resolving", "acting"} => commands[serving[r]] <= stranded[serving[r]]

HookInv == OneHandler /\ AckedIsHandled /\ SecondFollowsFailure /\ KeysTell /\ CommandsEven

(* The end of a request leaves its update completed, or free for another one. *)
LEMMA EndIsSafe ==
  ASSUME TypeOK, HookInv, NEW r \in Requests, Ends(r),
         \/ stranded' = stranded /\ (step[r] = "sending" => Complete(r))
         \/ PreviewFails(r)
  PROVE  HookInv'
<1> DEFINE u == serving[r]
<1>1. u \in Updates /\ step[r] # "idle" /\ (Complete(r) \/ Fail(r))
  BY DEF TypeOK, HookTypeOK, Ends, MayEnd
<1>2. /\ step' = [step EXCEPT ![r] = "idle"]
      /\ serving' = [serving EXCEPT ![r] = None]
      /\ interrupted' = interrupted /\ commands' = commands
  BY <1>1 DEF Complete, Fail, Leave
<1>3. \A v \in Updates \ {u} :
        /\ redis'[v] = redis[v]
        /\ telegram'[v] = telegram[v]
        /\ (v \in handled') <=> (v \in handled)
        /\ stranded'[v] = stranded[v]
  BY <1>1 DEF Complete, Fail, Answer, PreviewFails, TypeOK, HookTypeOK
<1>4. \/ redis'[u] = "completed" /\ u \in handled' /\ telegram'[u] \in {"done", telegram[u]}
      \/ redis'[u] = "none" /\ u \notin handled' /\ telegram'[u] \in {"queued", telegram[u]}
  BY <1>1 DEF Complete, Fail, Answer, HookInv, OneHandler, TypeOK, HookTypeOK
<1>5. telegram'[u] # r /\ (telegram'[u] = telegram[u] => telegram[u] # r)
  BY <1>1, WebhookAssumption DEF Complete, Fail, Answer, TypeOK, HookTypeOK
<1>6. telegram[u] \notin Requests \ {r}
  BY <1>1 DEF HookInv, KeysTell, OneHandler
<1>7. telegram'[u] \notin Requests
  BY <1>1, <1>4, <1>5, <1>6, WebhookAssumption DEF TypeOK, HookTypeOK
<1>8. \A v \in Updates : telegram[v] = r => v = u
  BY DEF HookInv, KeysTell
<1>9. OneHandler'
  <2> SUFFICES ASSUME NEW q \in Requests, step'[q] # "idle"
               PROVE  /\ redis'[serving'[q]] = "processing" /\ serving'[q] \notin handled'
                      /\ \A p \in Requests \ {q} : serving'[p] # serving'[q]
    BY DEF OneHandler
  <2>1. q # r /\ serving'[q] = serving[q] /\ step[q] # "idle"
    BY <1>2 DEF TypeOK, HookTypeOK
  <2>2. serving[q] \in Updates \ {u}
    BY <1>1, <2>1 DEF HookInv, OneHandler, TypeOK, HookTypeOK
  <2>3. \A p \in Requests : serving'[p] = serving[p] \/ (p = r /\ serving'[p] = None)
    BY <1>2 DEF TypeOK, HookTypeOK
  <2>4. serving[q] # None
    BY <2>2, WebhookAssumption
  <2>5. QED
    BY <1>3, <2>1, <2>2, <2>3, <2>4 DEF HookInv, OneHandler
<1>10. AckedIsHandled'
  <2> SUFFICES ASSUME NEW v \in Updates, telegram'[v] = "done"
               PROVE  v \in handled' \cup interrupted
    BY <1>2 DEF AckedIsHandled
  <2>1. CASE v = u
    BY <1>1, <1>4, <2>1, WebhookAssumption DEF HookInv, AckedIsHandled, OneHandler
  <2>2. CASE v # u
    BY <1>3, <2>2 DEF HookInv, AckedIsHandled
  <2>3. QED
    BY <2>1, <2>2
<1>11. KeysTell'
  <2> SUFFICES ASSUME NEW v \in Updates
               PROVE  /\ redis'[v] = "completed" <=> v \in handled'
                      /\ telegram'[v] = "queued" /\ redis'[v] = "processing" => v \in interrupted
                      /\ telegram'[v] \in Requests => serving'[telegram'[v]] = v
    BY <1>2 DEF KeysTell
  <2>1. CASE v = u
    BY <1>4, <1>7, <2>1
  <2>2. CASE v # u
    <3>1. redis'[v] = redis[v] /\ telegram'[v] = telegram[v] /\ ((v \in handled') <=> (v \in handled))
      BY <1>3, <2>2
    <3>2. telegram[v] \in Requests => serving'[telegram[v]] = serving[telegram[v]]
      BY <1>2, <1>8, <2>2 DEF TypeOK, HookTypeOK
    <3>3. QED
      BY <1>2, <3>1, <3>2 DEF HookInv, KeysTell
  <2>3. QED
    BY <2>1, <2>2
<1>12. SecondFollowsFailure'
  BY <1>1, <1>2 DEF HookInv, SecondFollowsFailure, PreviewFails, TypeOK, HookTypeOK
<1>13. CommandsEven'
  <2>1. ASSUME NEW v \in Updates, redis'[v] = "none" PROVE commands'[v] <= stranded'[v]
    <3>1. CASE v # u
      BY <1>2, <1>3, <2>1, <3>1 DEF HookInv, CommandsEven
    <3>2. CASE v = u /\ PreviewFails(r)
      BY <1>1, <1>2, <3>2 DEF PreviewFails, HookInv, SecondFollowsFailure, TypeOK, HookTypeOK
    <3>3. CASE v = u /\ stranded' = stranded
      <4>1. redis'[u] = "none"
        BY <2>1, <3>3
      <4>2. ~Complete(r) /\ ~PreviewFails(r)
        <5>1. Complete(r) => redis'[u] = "completed"
          BY <1>1 DEF Complete, TypeOK, HookTypeOK
        <5>2. PreviewFails(r) => stranded'[u] = stranded[u] + 1 /\ stranded[u] \in Nat
          BY <1>1 DEF PreviewFails, TypeOK, HookTypeOK
        <5>3. QED
          BY <3>3, <4>1, <5>1, <5>2
      <4>3. step[r] \in {"begun", "resolving", "acting"}
        BY <1>1, <4>2 DEF Steps, TypeOK, HookTypeOK
      <4>4. commands[u] <= stranded[u]
        BY <4>3 DEF HookInv, CommandsEven
      <4>5. QED
        BY <1>2, <3>3, <4>4
    <3>4. QED
      BY <2>1, <3>1, <3>2, <3>3
  <2>2. ASSUME NEW q \in Requests, step'[q] \in {"begun", "resolving", "acting"}
        PROVE  commands'[serving'[q]] <= stranded'[serving'[q]]
    <3>1. q # r /\ serving'[q] = serving[q] /\ step[q] = step'[q]
      BY <1>2, <2>2 DEF TypeOK, HookTypeOK
    <3>2. serving[q] \in Updates \ {u}
      BY <1>1, <2>2, <3>1 DEF HookInv, OneHandler, TypeOK, HookTypeOK
    <3>3. QED
      BY <1>2, <1>3, <2>2, <3>1, <3>2 DEF HookInv, CommandsEven
  <2>3. QED
    BY <2>1, <2>2 DEF CommandsEven
<1>14. QED
  BY <1>9, <1>10, <1>11, <1>12, <1>13 DEF HookInv

(* Receiving an update makes a new handler only of a free update.              *)
LEMMA ReceiveIsSafe ==
  ASSUME TypeOK, HookInv, NEW r \in Requests, NEW u \in Updates, Receive(r, u)
  PROVE  HookInv'
<1>1. CASE redis[u] # "none"
  <2>1. UNCHANGED <<redis, step, serving, effects, interrupted>>
        /\ telegram' = [telegram EXCEPT ![u] = "done"]
    BY <1>1 DEF Receive
  <2>2. u \in handled \cup interrupted
    BY <1>1 DEF HookInv, KeysTell, TypeOK, HookTypeOK, Receive
  <2>3. AckedIsHandled' /\ KeysTell'
    BY <2>1, <2>2, WebhookAssumption
       DEF HookInv, AckedIsHandled, KeysTell, effects, TypeOK, HookTypeOK
  <2>4. OneHandler' /\ SecondFollowsFailure' /\ CommandsEven'
    BY <2>1 DEF HookInv, OneHandler, SecondFollowsFailure, CommandsEven, effects
  <2>5. QED
    BY <2>3, <2>4 DEF HookInv
<1>2. CASE redis[u] = "none"
  <2>1. /\ redis' = [redis EXCEPT ![u] = "processing"]
        /\ telegram' = [telegram EXCEPT ![u] = r]
        /\ step' = [step EXCEPT ![r] = "begun"]
        /\ serving' = [serving EXCEPT ![r] = u]
        /\ UNCHANGED <<effects, interrupted>>
        /\ step[r] = "idle"
    BY <1>2 DEF Receive
  <2>2. u \notin handled /\ \A q \in Requests : serving[q] # u
    BY <1>2, WebhookAssumption DEF HookInv, KeysTell, OneHandler, TypeOK, HookTypeOK
  <2>3. \A v \in Updates : telegram[v] # r
    BY <2>1, WebhookAssumption DEF HookInv, KeysTell, TypeOK, HookTypeOK
  <2>4. OneHandler'
    <3> SUFFICES ASSUME NEW q \in Requests, step'[q] # "idle"
                 PROVE  /\ redis'[serving'[q]] = "processing" /\ serving'[q] \notin handled'
                        /\ \A p \in Requests \ {q} : serving'[p] # serving'[q]
      BY DEF OneHandler
    <3>1. CASE q = r
      BY <2>1, <2>2, <3>1 DEF effects, TypeOK, HookTypeOK
    <3>2. CASE q # r
      <4>1. serving'[q] = serving[q] /\ step[q] # "idle" /\ serving[q] \in Updates \ {u}
        BY <2>1, <2>2, <3>2 DEF TypeOK, HookTypeOK
      <4>2. QED
        BY <2>1, <3>2, <4>1 DEF effects, HookInv, OneHandler, TypeOK, HookTypeOK
    <3>3. QED
      BY <3>1, <3>2
  <2>5. AckedIsHandled'
    BY <2>1, WebhookAssumption DEF HookInv, AckedIsHandled, effects, TypeOK, HookTypeOK
  <2>6. KeysTell'
    <3> SUFFICES ASSUME NEW v \in Updates
                 PROVE  /\ (redis'[v] = "completed") <=> (v \in handled')
                        /\ telegram'[v] = "queued" /\ redis'[v] = "processing" => v \in interrupted'
                        /\ telegram'[v] \in Requests => serving'[telegram'[v]] = v
      BY DEF KeysTell
    <3>1. CASE v = u
      BY <2>1, <2>2, <3>1, WebhookAssumption DEF effects, TypeOK, HookTypeOK
    <3>2. CASE v # u
      <4>1. redis'[v] = redis[v] /\ telegram'[v] = telegram[v]
        BY <2>1, <3>2 DEF TypeOK, HookTypeOK
      <4>2. telegram[v] \in Requests => serving'[telegram[v]] = serving[telegram[v]]
        BY <2>1, <2>3 DEF TypeOK, HookTypeOK
      <4>3. QED
        BY <2>1, <4>1, <4>2 DEF effects, HookInv, KeysTell
    <3>3. QED
      BY <3>1, <3>2
  <2>7. SecondFollowsFailure'
    BY <2>1 DEF HookInv, SecondFollowsFailure, effects
  <2>8. CommandsEven'
    BY <1>2, <2>1 DEF HookInv, CommandsEven, effects, TypeOK, HookTypeOK
  <2>9. QED
    BY <2>4, <2>5, <2>6, <2>7, <2>8 DEF HookInv
<1>3. QED
  BY <1>1, <1>2

(* The steps inside a request: only StoreCommand touches what HookInv is about.*)
LEMMA WithinIsSafe ==
  ASSUME TypeOK, HookInv, NEW r \in Requests,
         StartResolving(r) \/ Admitted(r) \/ StoreCommand(r)
  PROVE  HookInv'
<1>1. /\ UNCHANGED <<telegram, redis, serving, handled, stranded, interrupted>>
      /\ step[r] # "idle"
      /\ step' = [step EXCEPT ![r] = step'[r]] /\ step'[r] \in {"resolving", "acting", "sending"}
  BY DEF StartResolving, Admitted, StoreCommand, effects, TypeOK, HookTypeOK
<1>2. OneHandler'
  BY <1>1 DEF HookInv, OneHandler, TypeOK, HookTypeOK
<1>3. AckedIsHandled' /\ KeysTell'
  BY <1>1 DEF HookInv, AckedIsHandled, KeysTell
<1>4. CASE StoreCommand(r)
  <2>1. /\ commands' = [commands EXCEPT ![serving[r]] = @ + 1]
        /\ step[r] = "acting" /\ step'[r] = "sending"
        /\ serving[r] \in Updates
    BY <1>4 DEF StoreCommand, TypeOK, HookTypeOK
  <2>2. redis[serving[r]] = "processing" /\ \A q \in Requests \ {r} : serving[q] # serving[r]
    BY <2>1 DEF HookInv, OneHandler
  <2>3. SecondFollowsFailure'
    BY <1>1, <2>1 DEF HookInv, SecondFollowsFailure, CommandsEven, TypeOK, HookTypeOK
  <2>4. CommandsEven'
    BY <1>1, <2>1, <2>2 DEF HookInv, CommandsEven, TypeOK, HookTypeOK
  <2>5. QED
    BY <1>2, <1>3, <2>3, <2>4 DEF HookInv
<1>5. CASE StartResolving(r) \/ Admitted(r)
  <2>1. commands' = commands /\ step[r] \in {"begun", "resolving"}
    BY <1>5 DEF StartResolving, Admitted, effects
  <2>2. SecondFollowsFailure' /\ CommandsEven'
    BY <1>1, <2>1 DEF HookInv, SecondFollowsFailure, CommandsEven, TypeOK, HookTypeOK
  <2>3. QED
    BY <1>2, <1>3, <2>2 DEF HookInv
<1>6. QED
  BY <1>4, <1>5

LEMMA WebhookInductive == ASSUME TypeOK, HookInv, [Next]_vars PROVE HookInv'
<1>1. ASSUME UNCHANGED hookVars PROVE HookInv'
  BY <1>1 DEF hookVars, HookInv, OneHandler, AckedIsHandled, SecondFollowsFailure, KeysTell,
              CommandsEven
<1>2. ASSUME NEW r \in Requests, Handle(r) PROVE HookInv'
  BY <1>1, <1>2, HandlerSteps, EndIsSafe, WithinIsSafe DEF Resolve
<1>3. ASSUME NEW r \in Requests, NEW u \in Updates, Receive(r, u) PROVE HookInv'
  BY <1>3, ReceiveIsSafe
<1>4. ASSUME NEW u \in Updates, TimeOut(u) PROVE HookInv'
  <2>1. UNCHANGED <<redis, step, serving, effects>>
        /\ telegram' = [telegram EXCEPT ![u] = "queued"]
        /\ interrupted' = interrupted \cup {u}
    BY <1>4 DEF TimeOut
  <2>2. AckedIsHandled' /\ KeysTell'
    BY <2>1, WebhookAssumption DEF HookInv, AckedIsHandled, KeysTell, effects, TypeOK, HookTypeOK
  <2>3. OneHandler' /\ SecondFollowsFailure' /\ CommandsEven'
    BY <2>1 DEF HookInv, OneHandler, SecondFollowsFailure, CommandsEven, effects
  <2>4. QED
    BY <2>2, <2>3 DEF HookInv
<1>5. CASE Crash
  <2>1. /\ UNCHANGED <<redis, effects>>
        /\ step' = [q \in Requests |-> "idle"]
        /\ telegram' = [u \in Updates |-> IF telegram[u] \in Requests THEN "queued" ELSE telegram[u]]
        /\ interrupted' = interrupted \cup {u \in Updates : redis[u] = "processing"}
    BY <1>5 DEF Crash
  <2>2. OneHandler' /\ SecondFollowsFailure' /\ CommandsEven'
    BY <2>1 DEF HookInv, OneHandler, SecondFollowsFailure, CommandsEven, effects
  <2>3. AckedIsHandled'
    BY <2>1 DEF HookInv, AckedIsHandled, effects
  <2>4. KeysTell'
    BY <2>1, WebhookAssumption DEF HookInv, KeysTell, effects
  <2>5. QED
    BY <2>2, <2>3, <2>4 DEF HookInv
<1>6. QED
  BY <1>1, <1>2, <1>3, <1>4, <1>5 DEF Next, vars

(* It holds in every reachable state.                                          *)
LEMMA WebhookInvariant == Spec => []HookInv
<1>1. Init => HookInv
  BY WebhookAssumption DEF Init, HookInv, OneHandler, AckedIsHandled, SecondFollowsFailure, KeysTell, CommandsEven
<1>2. TypeOK /\ HookInv /\ [Next]_vars => HookInv'
  BY WebhookInductive
<1>3. QED
  BY <1>1, <1>2, WebhookTypeCorrect, PTL DEF Spec

(* SET NX and the deletion in the except clause let one request at a time       *)
(* handle an update, and none after one has.                                    *)
THEOREM HandledOnce == Spec => []OneHandler
BY WebhookInvariant, PTL DEF HookInv

(* A 200 stands for a handled update, but for those sent again too early.       *)
THEOREM AckIsTrue == Spec => []AckedIsHandled
BY WebhookInvariant, PTL DEF HookInv

(* A second pending command of an update needs a request that stored the one     *)
(* before and ended in 500, for any number of updates, requests, repeated        *)
(* deliveries and crashes (telegram_webhook, its outer except clause).           *)
THEOREM CommandsCounted == Spec => []SecondFollowsFailure
BY WebhookInvariant, PTL DEF HookInv

(* What holds of identities holds of the webhook, as it resolves them: however  *)
(* updates are sent again, time out, fail and lose their worker, no two users   *)
(* act as one, the operator's last word stands, and who was switched off is     *)
(* asked about by no update (resolve_user_context_from_company_context).        *)
THEOREM WebhookKeepsUsersApart == Spec => [](OneToOne /\ OperatorWins /\ OffMeansDenied)
BY WebhookResolves, UsersApart, OperatorKept, OffIsOff, PTL

=============================================================================
