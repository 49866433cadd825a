------------------------ MODULE SecretRotationProofs ------------------------
(***************************************************************************)
(* Proofs about SecretRotation, for any number of runs and any secrets.    *)
(***************************************************************************)
EXTENDS SecretRotation, TLAPS

-----------------------------------------------------------------------------
(* What the classes of rotation have in common. *)

Named == {"write", "env"}

\* A step of class c writes file f.
WritesTo(c, i, f) ==
    \/ c.steps[i][1] \in Named /\ c.steps[i][2] = f
    \/ c.steps[i][1] = "rewrite" /\ f = "redisConf"

(* What is written is in the backup, and update_env_file is the first to write *)
(* the file it reads; a secret is asked for before it is written, and the      *)
(* configuration of Redis is written before Redis is told to.                  *)
Orderly(c) ==
    /\ Len(c.steps) \in Nat \ {0}
    /\ c.backup \subseteq Files
    /\ \A i \in 1..Len(c.steps), f \in Files : WritesTo(c, i, f) => f \in c.backup
    /\ \A i \in 1..Len(c.steps), j \in 1..Len(c.steps) :
          j < i /\ c.steps[i][1] \in {"read", "env"} => ~WritesTo(c, j, c.steps[i][2])
    /\ \A i \in 1..Len(c.steps) : c.steps[i][1] = "given" => i = 1
    /\ \A i \in 1..Len(c.steps) : c.steps[i][1] = "rewrite" =>
          \E j \in 1..Len(c.steps) : j < i /\ c.steps[j] = <<"write", "redisConf">>

(* A class is about one credential and writes every file that has its line.    *)
Thorough(c, k) ==
    /\ c.concerns = {k}
    /\ \A f \in Files : k \in Lines[f] => \E i \in 1..Len(c.steps) : WritesTo(c, i, f)

(* Services are what is restarted.                                             *)
Restarts(c) == \A i \in 1..Len(c.steps) : c.steps[i][1] = "restart" => c.steps[i][2] \in Services

Plain(c) == \A i \in 1..Len(c.steps) : c.steps[i][1] # "rewrite"

EnvFiles == {"env", "inst"}

(* An env file is read right before it is written, and written in no other way. *)
ReadsFirst(c) ==
    \A i \in 1..Len(c.steps) :
        /\ c.steps[i][1] = "env" => i > 1 /\ c.steps[i][2] \in EnvFiles /\ c.steps[i - 1] = <<"read", c.steps[i][2]>>
        /\ c.steps[i][1] = "write" => c.steps[i][2] \notin EnvFiles

(* Every class that is validated is orderly, and only that of Redis rewrites a *)
(* configuration.                                                              *)
LEMMA Programs ==
    \A k \in Kinds : /\ Len(Program(k)) \in Nat \ {0}
                     /\ k # "redis" => Plain(Class[k])
                     /\ k # "all" => Orderly(Class[k]) /\ Thorough(Class[k], k)
                     /\ Restarts(Class[k]) /\ ReadsFirst(Class[k])
<1>. USE DEF Orderly, Thorough, Plain, Restarts, ReadsFirst, WritesTo, Named, Files, EnvFiles, Lines, Services
<1>1. Orderly(RedisRotation) /\ Restarts(RedisRotation) /\ ReadsFirst(RedisRotation) /\ Thorough(RedisRotation, "redis")
  BY DEF RedisRotation
<1>2. Orderly(InternalSecretsRotation) /\ Restarts(InternalSecretsRotation) /\ ReadsFirst(InternalSecretsRotation) /\ Thorough(InternalSecretsRotation, "internal") /\ Plain(InternalSecretsRotation)
  BY DEF InternalSecretsRotation
<1>3. Orderly(CloudflareRotation) /\ Restarts(CloudflareRotation) /\ ReadsFirst(CloudflareRotation) /\ Thorough(CloudflareRotation, "tunnel") /\ Plain(CloudflareRotation)
  BY DEF CloudflareRotation
<1>4. Orderly(DolibarrDbPasswordRotation) /\ Restarts(DolibarrDbPasswordRotation) /\ ReadsFirst(DolibarrDbPasswordRotation) /\ Thorough(DolibarrDbPasswordRotation, "db") /\ Plain(DolibarrDbPasswordRotation)
  BY DEF DolibarrDbPasswordRotation
<1>5. Orderly(TelegramRotation) /\ Restarts(TelegramRotation) /\ ReadsFirst(TelegramRotation) /\ Thorough(TelegramRotation, "token") /\ Plain(TelegramRotation)
  BY DEF TelegramRotation
<1>6. Orderly(WebhookSecretRotation) /\ Restarts(WebhookSecretRotation) /\ ReadsFirst(WebhookSecretRotation) /\ Thorough(WebhookSecretRotation, "hook") /\ Plain(WebhookSecretRotation)
  BY DEF WebhookSecretRotation
<1>7. Orderly(DolibarrUserApiKeyRotation) /\ Restarts(DolibarrUserApiKeyRotation) /\ ReadsFirst(DolibarrUserApiKeyRotation) /\ Thorough(DolibarrUserApiKeyRotation, "apikey") /\ Plain(DolibarrUserApiKeyRotation)
  BY DEF DolibarrUserApiKeyRotation
<1>8. Plain(OlderScript) /\ Restarts(OlderScript) /\ ReadsFirst(OlderScript) /\ Len(OlderScript.steps) = 7
  BY DEF OlderScript
<1>. HIDE DEF Orderly, Thorough, Plain, Restarts, ReadsFirst
<1>9. \A k \in Kinds : k \in {"redis", "internal", "tunnel", "db", "token", "hook", "apikey", "all"}
  BY DEF Kinds, Credentials, Lines
<1>10. /\ Class["redis"] = RedisRotation /\ Class["internal"] = InternalSecretsRotation
     /\ Class["tunnel"] = CloudflareRotation /\ Class["db"] = DolibarrDbPasswordRotation
     /\ Class["token"] = TelegramRotation /\ Class["hook"] = WebhookSecretRotation
     /\ Class["apikey"] = DolibarrUserApiKeyRotation /\ Class["all"] = OlderScript
  BY DEF Class
<1>11. \A c : Orderly(c) => Len(c.steps) \in Nat \ {0}
  BY DEF Orderly
<1>12. ASSUME NEW k \in Kinds PROVE k # "redis" => Plain(Class[k])
  BY <1>2, <1>3, <1>4, <1>5, <1>6, <1>7, <1>8, <1>9, <1>10
<1>13. ASSUME NEW k \in Kinds PROVE k # "all" => Orderly(Class[k]) /\ Thorough(Class[k], k)
  BY <1>1, <1>2, <1>3, <1>4, <1>5, <1>6, <1>7, <1>9, <1>10
<1>14. ASSUME NEW k \in Kinds PROVE Len(Program(k)) \in Nat \ {0}
  <2>1. CASE k = "all"
    <3>1. Program(k) = OlderScript.steps
      BY <2>1, <1>10 DEF Program
    <3>2. QED
      BY <3>1, <1>8
  <2>2. CASE k # "all"
    BY <2>2, <1>13, <1>11 DEF Program
  <2>3. QED
    BY <2>1, <2>2
<1>15. ASSUME NEW k \in Kinds PROVE Restarts(Class[k]) /\ ReadsFirst(Class[k])
  BY <1>1, <1>2, <1>3, <1>4, <1>5, <1>6, <1>7, <1>8, <1>9, <1>10
<1>16. QED
  BY <1>12, <1>13, <1>14, <1>15

-----------------------------------------------------------------------------
(* Types. A run that has not begun is at its first step, and the older script  *)
(* is never validated.                                                         *)
RunsTyped ==
    /\ TypeOK
    /\ \A r \in Runs : phase[r] = "idle" => at[r] = 1
    /\ \A r \in Runs : phase[r] \in {"validate", "rollback"} => kind[r] # "all"

(* A step ends with Advance, which leaves at and phase as typed.               *)
LEMMA AdvanceTyped ==
    ASSUME RunsTyped, NEW r \in Runs, phase[r] = "change", Advance(r), kind' = kind
    PROVE  /\ phase' \in [Runs -> Active \cup {"idle", "failed", "done", "rolledback", "dead"}]
           /\ at' \in [Runs -> Nat]
           /\ \A s \in Runs : at'[s] \in 1..Len(Program(kind'[s]))
           /\ \A s \in Runs : phase'[s] = "idle" => at'[s] = 1
           /\ \A s \in Runs : phase'[s] \in {"validate", "rollback"} => kind'[s] # "all"
           /\ \A s \in Runs : s # r => phase'[s] = phase[s] /\ at'[s] = at[s]
           /\ phase'[r] \in {"change", "validate", "done"}
           /\ Moves(r)
<1>1. at[r] \in Nat /\ kind[r] \in Kinds /\ at[r] \in 1..Len(Program(kind[r]))
  BY DEF RunsTyped, TypeOK
<1>2. Len(Program(kind[r])) \in Nat
  BY <1>1, Programs
<1>. /\ at \in [Runs -> Nat] /\ kind \in [Runs -> Kinds]
     /\ phase \in [Runs -> Active \cup {"idle", "failed", "done", "rolledback", "dead"}]
     /\ \A s \in Runs : at[s] \in 1..Len(Program(kind[s]))
     /\ \A s \in Runs : phase[s] = "idle" => at[s] = 1
     /\ \A s \in Runs : phase[s] \in {"validate", "rollback"} => kind[s] # "all"
  BY DEF RunsTyped, TypeOK
<1>. DEFINE L == Len(Program(kind[r]))
<1>3. CASE at[r] < L
  <2>1. at' = [at EXCEPT ![r] = at[r] + 1] /\ phase' = phase
    BY <1>3 DEF Advance
  <2>2. at[r] + 1 \in 1..L
    BY <1>1, <1>2, <1>3
  <2>3. /\ at' \in [Runs -> Nat] /\ at'[r] # at[r] /\ \A s \in Runs : s # r => at'[s] = at[s]
        /\ at'[r] \in 1..L
    BY <1>1, <2>1, <2>2
  <2>4. \A s \in Runs : at'[s] \in 1..Len(Program(kind'[s]))
    BY <2>3
  <2>5. QED
    BY <2>1, <2>3, <2>4 DEF Moves
<1>4. CASE ~(at[r] < L)
  <2>1. /\ at' = at
        /\ phase' = [phase EXCEPT ![r] = IF kind[r] = "all" THEN "done" ELSE "validate"]
    BY <1>4 DEF Advance
  <2>2. /\ phase'[r] \in {"validate", "done"} /\ (phase'[r] = "validate" => kind[r] # "all")
        /\ \A s \in Runs : s # r => phase'[s] = phase[s]
    BY <2>1
  <2>3. phase' \in [Runs -> Active \cup {"idle", "failed", "done", "rolledback", "dead"}]
    BY <2>1 DEF Active
  <2>4. QED
    BY <2>1, <2>2, <2>3 DEF Moves
<1>5. QED
  BY <1>3, <1>4

(* A write puts secrets into lines that the file has.                          *)
LEMMA WithNewTyped ==
    ASSUME RunsTyped, NEW r \in Runs, NEW f, NEW t \in Texts PROVE WithNew(r, f, t[f]) \in Texts
<1>1. new[r] \in Values /\ "none" \notin Values
  BY RotationAssumption DEF RunsTyped, TypeOK, Values
<1>2. /\ text \in [Files -> [Credentials -> Values \cup {"none"}]]
      /\ t \in [Files -> [Credentials -> Values \cup {"none"}]]
  BY DEF RunsTyped, TypeOK, Texts
<1>3. \A g \in Files, l \in Credentials : (text[g][l] = "none" <=> l \notin Lines[g]) /\ (t[g][l] = "none" <=> l \notin Lines[g])
  BY DEF RunsTyped, TypeOK, Texts
<1>. DEFINE row == [l \in Credentials |-> IF l \in Lines[f] \cap Concerns(kind[r]) THEN new[r] ELSE t[f][l]]
<1>4. CASE f \in Files
  <2>1. WithNew(r, f, t[f]) = [text EXCEPT ![f] = row]
    BY <1>2, <1>4 DEF WithNew
  <2>2. row \in [Credentials -> Values \cup {"none"}]
    BY <1>1, <1>2, <1>4
  <2>3. \A l \in Credentials : row[l] = "none" <=> l \notin Lines[f]
    BY <1>1, <1>3, <1>4
  <2>. HIDE DEF row
  <2>4. QED
    BY <1>2, <1>3, <1>4, <2>1, <2>2, <2>3 DEF Texts
<1>5. CASE f \notin Files
  <2>1. WithNew(r, f, t[f]) = text
    BY <1>2, <1>5 DEF WithNew
  <2>2. QED
    BY <2>1 DEF RunsTyped, TypeOK
<1>6. QED
  BY <1>4, <1>5

(* The steps of a change, all of which end with Advance.                       *)
Changes(r) == Given(r) \/ WriteFile(r) \/ ReadEnv(r) \/ WriteEnv(r) \/ Ask(r) \/ Rewrite(r) \/ Restart(r)

LEMMA ChangesAdvance ==
    ASSUME NEW r \in Runs, Changes(r)
    PROVE  /\ phase[r] = "change" /\ Advance(r)
           /\ UNCHANGED <<kind, asked, wasUp, before, mixed>>
  BY DEF Changes, Given, WriteFile, ReadEnv, WriteEnv, Ask, Rewrite, Restart, Doing

LEMMA SecretsAreValues ==
    ASSUME RunsTyped
    PROVE  /\ text.redisConf.redis \in Values /\ text.env.internal \in Values
           /\ \A r \in Runs : r \in Values
           /\ First \in Values /\ Typo \in Values
<1>1. text \in Texts
  BY DEF RunsTyped, TypeOK
<1>2. text.redisConf.redis \in Values /\ text.env.internal \in Values
  BY <1>1 DEF Texts, Lines, Files, Credentials
<1>3. QED
  BY <1>2 DEF Values

LEMMA LoadedTyped ==
    ASSUME RunsTyped, NEW s, NEW t \in Texts PROVE Loaded(s, t) \in [Credentials -> Values]
<1>1. t.redisConf.redis \in Values /\ t.env.internal \in Values
  BY DEF Texts, Lines, Files, Credentials
<1>2. live \in [Credentials -> Values]
  BY DEF RunsTyped, TypeOK
<1>3. QED
  BY <1>1, <1>2 DEF Loaded

(* What a change leaves in the files, in the servers and in its own records.   *)
LEMMA ChangeTyped ==
    ASSUME RunsTyped, NEW r \in Runs, Changes(r)
    PROVE  /\ text' \in Texts /\ live' \in [Credentials -> Values] /\ up' \subseteq Services
           /\ new' \in [Runs -> Values] /\ saved' \in [Runs -> Texts] /\ overtaken' \subseteq Runs
<1>. /\ text \in Texts /\ live \in [Credentials -> Values] /\ up \subseteq Services
     /\ new \in [Runs -> Values] /\ saved \in [Runs -> Texts] /\ overtaken \subseteq Runs
     /\ \A f : WithNew(r, f, text[f]) \in Texts /\ WithNew(r, f, saved[r][f]) \in Texts
  BY WithNewTyped DEF RunsTyped, TypeOK
<1>1. CASE Given(r)
  BY <1>1, SecretsAreValues DEF Given
<1>2. CASE WriteFile(r)
  BY <1>2 DEF WriteFile
<1>3. CASE ReadEnv(r)
  <2>1. /\ UNCHANGED <<text, live, up, new, overtaken>>
        /\ saved' \in {saved, [saved EXCEPT ![r][Object(r)] = text[Object(r)]]}
    BY <1>3 DEF ReadEnv
  <2>2. [saved EXCEPT ![r][Object(r)] = text[Object(r)]] \in [Runs -> Texts]
    <3>1. saved[r] \in Texts
      OBVIOUS
    <3>2. ASSUME NEW f PROVE [saved[r] EXCEPT ![f] = text[f]] \in Texts
      BY <3>1 DEF Texts
    <3>3. QED
      BY <3>2
  <2>3. QED
    BY <2>1, <2>2
<1>8. CASE WriteEnv(r)
  BY <1>8 DEF WriteEnv, Overtaking
<1>4. CASE Ask(r)
  <2>1. live' \in {live, [live EXCEPT ![Object(r)] = new[r]]} /\ UNCHANGED <<text, up, new, saved, overtaken>>
    BY <1>4 DEF Ask
  <2>2. QED
    BY <2>1
<1>5. CASE Rewrite(r)
  <2>1. /\ UNCHANGED <<live, up, new, saved, overtaken>>
        /\ text' = text \/ text' = [text EXCEPT !.redisConf.redis = live.redis]
    BY <1>5 DEF Rewrite
  <2>2. live.redis \in Values /\ "none" \notin Values /\ "redis" \in Credentials /\ "redis" \in Lines.redisConf
    BY RotationAssumption DEF Credentials, Lines, Values
  <2>3. [text EXCEPT !.redisConf.redis = live.redis] \in Texts
    <3>1. /\ text \in [Files -> [Credentials -> Values \cup {"none"}]]
          /\ \A f \in Files, l \in Credentials : text[f][l] = "none" <=> l \notin Lines[f]
      BY DEF Texts
    <3>. DEFINE row == [text["redisConf"] EXCEPT !["redis"] = live.redis]
                new_text == [text EXCEPT !["redisConf"] = row]
    <3>2. "redisConf" \in Files
      BY DEF Files, Lines
    <3>3. /\ row \in [Credentials -> Values \cup {"none"}]
          /\ \A l \in Credentials : row[l] = "none" <=> l \notin Lines["redisConf"]
      BY <2>2, <3>1, <3>2
    <3>. HIDE DEF row
    <3>4. new_text \in Texts
      BY <3>1, <3>2, <3>3 DEF Texts
    <3>5. QED
      BY <3>4 DEF row
  <2>4. QED
    BY <2>1, <2>3
<1>6. CASE Restart(r)
  <2>1. /\ UNCHANGED <<text, new, saved, overtaken>>
        /\ live' \in {live, Loaded(Object(r), text)} /\ up' \in {up, up \cup {Object(r)}, up \ {Object(r)}}
    BY <1>6 DEF Restart
  <2>2. Object(r) \in Services
    BY <1>6, Programs DEF Restart, Doing, Object, Program, Restarts, RunsTyped, TypeOK
  <2>3. QED
    BY <2>1, <2>2, LoadedTyped
<1>7. QED
  BY <1>1, <1>2, <1>3, <1>4, <1>5, <1>6, <1>8 DEF Changes

(* A run fails, is validated or dies: nothing but its phase changes, but for   *)
(* MariaDB, which may have taken the password when the answer was lost.        *)
Turns(r) == ChangeFails(r) \/ Validates(r) \/ ValidationFails(r) \/ Dies(r)

LEMMA TurnsOf ==
    ASSUME NEW r \in Runs, Turns(r)
    PROVE  /\ phase[r] \in Active
           /\ \E e \in {"failed", "done", "rollback", "dead"} :
                 /\ phase' = [phase EXCEPT ![r] = e]
                 /\ e = "rollback" => phase[r] = "validate"
           /\ live' \in {live, [live EXCEPT !["db"] = new[r]]}
           /\ UNCHANGED <<text, up, kind, asked, at, new, saved, wasUp, before, mixed, overtaken>>
  BY DEF Turns, ChangeFails, Validates, ValidationFails, Dies, Active

LEMMA RollbackTyped ==
    ASSUME RunsTyped, NEW r \in Runs, Rollback(r)
    PROVE  /\ text' \in Texts /\ live' \in [Credentials -> Values] /\ up' \subseteq Services
           /\ phase[r] = "rollback" /\ phase' = [phase EXCEPT ![r] = "rolledback"]
           /\ UNCHANGED <<kind, asked, at, new, saved, wasUp, before, mixed>> /\ overtaken' \subseteq Runs
<1>. DEFINE old == [f \in Files |-> IF f \in Restored(kind[r]) THEN saved[r][f] ELSE text[f]]
<1>1. /\ text \in Texts /\ saved[r] \in Texts /\ live \in [Credentials -> Values] /\ up \subseteq Services
      /\ overtaken \subseteq Runs
  BY DEF RunsTyped, TypeOK
<1>2. old \in Texts
  BY <1>1 DEF Texts
<1>3. Loaded(kind[r], old) \in [Credentials -> Values]
  BY <1>2, LoadedTyped
<1>4. text' \in {text, old} /\ live' \in {live, Loaded(kind[r], old)} /\ up' \subseteq Services
  BY <1>1 DEF Rollback
<1>5. QED
  BY <1>1, <1>2, <1>3, <1>4 DEF Rollback, Overtaking

LEMMA RunsTypedInductive == ASSUME RunsTyped, [Next]_vars PROVE RunsTyped'
<1>1. ASSUME NEW r \in Runs, NEW k \in Kinds, NEW option \in {"no", "before", "after"}, Start(r, k, option)
      PROVE  RunsTyped'
  <2>1. at[r] = 1 /\ 1 \in 1..Len(Program(k))
    BY <1>1, Programs DEF Start, RunsTyped
  <2>2. /\ kind' \in [Runs -> Kinds] /\ asked' \in [Runs -> {"no", "before", "after"}]
        /\ phase' \in [Runs -> Active \cup {"idle", "failed", "done", "rolledback", "dead"}]
    BY <1>1 DEF Start, RunsTyped, TypeOK, Active
  <2>3. \A s \in Runs : at'[s] \in 1..Len(Program(kind'[s]))
    BY <1>1, <2>1 DEF Start, RunsTyped, TypeOK
  <2>4. /\ saved' \in [Runs -> Texts] /\ before' \in [Runs -> Texts] /\ wasUp' \in [Runs -> SUBSET Services]
        /\ mixed' \subseteq Runs
    BY <1>1 DEF Start, RunsTyped, TypeOK, InProgress
  <2>5. /\ \A s \in Runs : phase'[s] = "idle" => at'[s] = 1
        /\ \A s \in Runs : phase'[s] \in {"validate", "rollback"} => kind'[s] # "all"
    BY <1>1 DEF Start, RunsTyped, TypeOK
  <2>6. QED
    BY <1>1, <2>2, <2>3, <2>4, <2>5 DEF Start, RunsTyped, TypeOK
<1>2. ASSUME NEW r \in Runs, Changes(r) PROVE RunsTyped'
  <2>1. phase[r] = "change" /\ Advance(r) /\ UNCHANGED <<kind, asked, wasUp, before, mixed>>
    BY <1>2, ChangesAdvance
  <2>2. QED
    BY <1>2, <2>1, AdvanceTyped, ChangeTyped DEF RunsTyped, TypeOK
<1>3. ASSUME NEW r \in Runs, Turns(r) PROVE RunsTyped'
  <2>1. PICK e \in {"failed", "done", "rollback", "dead"} :
            phase' = [phase EXCEPT ![r] = e] /\ (e = "rollback" => phase[r] = "validate")
    BY <1>3, TurnsOf
  <2>2. /\ live' \in {live, [live EXCEPT !["db"] = new[r]]}
        /\ UNCHANGED <<text, up, kind, asked, at, new, saved, wasUp, before, mixed, overtaken>>
    BY <1>3, TurnsOf
  <2>6. live' \in [Credentials -> Values]
    BY <2>2 DEF RunsTyped, TypeOK
  <2>3. phase' \in [Runs -> Active \cup {"idle", "failed", "done", "rolledback", "dead"}]
    BY <2>1 DEF RunsTyped, TypeOK, Active
  <2>4. /\ \A s \in Runs : phase'[s] = "idle" => at'[s] = 1
        /\ \A s \in Runs : phase'[s] \in {"validate", "rollback"} => kind'[s] # "all"
    BY <2>1, <2>2 DEF RunsTyped, TypeOK
  <2>5. QED
    BY <2>2, <2>3, <2>4, <2>6 DEF RunsTyped, TypeOK
<1>4. ASSUME NEW r \in Runs, Rollback(r) PROVE RunsTyped'
  BY <1>4, RollbackTyped DEF RunsTyped, TypeOK
<1>5. CASE UNCHANGED vars
  BY <1>5 DEF RunsTyped, TypeOK, vars, runVars
<1>6. QED
  BY <1>1, <1>2, <1>3, <1>4, <1>5 DEF Next, Changes, Turns

LEMMA InitTyped == Init => RunsTyped
<1>. SUFFICES ASSUME Init PROVE RunsTyped
  OBVIOUS
<1>1. text \in Texts
  <2>1. text = [f \in Files |-> [l \in Credentials |-> IF l \in Lines[f] THEN First ELSE "none"]]
    BY DEF Init
  <2>2. First \in Values /\ First # "none"
    BY RotationAssumption DEF Values
  <2>3. QED
    BY <2>1, <2>2 DEF Texts
<1>2. \A r \in Runs : at[r] = 1 /\ 1 \in 1..Len(Program("all")) /\ kind[r] = "all"
  <2>1. "all" \in Kinds
    BY DEF Kinds
  <2>2. Len(Program("all")) \in Nat \ {0}
    BY <2>1, Programs
  <2>3. 1 \in 1..Len(Program("all"))
    BY <2>2
  <2>4. QED
    BY <2>3 DEF Init
<1>3. /\ live \in [Credentials -> Values] /\ new \in [Runs -> Values]
      /\ saved \in [Runs -> Texts] /\ before \in [Runs -> Texts]
  BY <1>1 DEF Init, Values
<1>4. /\ phase \in [Runs -> Active \cup {"idle", "failed", "done", "rolledback", "dead"}]
      /\ kind \in [Runs -> Kinds] /\ asked \in [Runs -> {"no", "before", "after"}]
      /\ \A r \in Runs : phase[r] = "idle"
  BY DEF Init, Kinds
<1>5. /\ up \subseteq Services /\ wasUp \in [Runs -> SUBSET Services]
      /\ mixed \subseteq Runs /\ overtaken \subseteq Runs
      /\ at \in [Runs -> Nat]
  BY DEF Init
<1>6. QED
  BY <1>1, <1>2, <1>3, <1>4, <1>5 DEF RunsTyped, TypeOK

(* The files hold secrets in the lines they have, and every run is somewhere   *)
(* in the program of its kind (run and the change methods).                    *)
THEOREM TypeCorrect == Spec => []TypeOK
<1>1. RunsTyped => TypeOK
  BY DEF RunsTyped
<1>2. QED
  BY <1>1, InitTyped, RunsTypedInductive, PTL DEF Spec

-----------------------------------------------------------------------------
(***************************************************************************)
(* What a run disturbs. Runs in progress at the same time are marked as    *)
(* mixed, so the text around one that is not mixed stands still: it is the *)
(* text of the start but for the files that the run itself wrote, and in   *)
(* those but for its own lines. As update_env_file comes before any other  *)
(* write of its file, the copy it takes is the copy of the start. What it  *)
(* wrote is its new secret, but for identities.db. Between reading an env  *)
(* file and writing it a run holds what is in the file (Holds), unless it  *)
(* was overtaken.                                                          *)
(***************************************************************************)

\* Run r is past a step that writes file f.
Wrote(r, f) ==
    \E j \in 1..Len(Program(kind[r])) :
        (phase[r] = "change" => j < at[r]) /\ WritesTo(Class[kind[r]], j, f)

Renewed(r) ==
    ~Dry(r) /\ phase[r] \in {"change", "validate"} =>
        \A f \in Files \ {"identities"}, l \in Credentials :
            Wrote(r, f) /\ l \in Lines[f] \cap Concerns(kind[r]) => text[f][l] = new[r]

Undisturbed(r) ==
    /\ \A f \in Files : saved[r][f] = before[r][f]
    /\ \A f \in Files : ~Wrote(r, f) => text[f] = before[r][f]
    /\ \A f \in Files, l \in Credentials \ Concerns(kind[r]) : text[f][l] = before[r][f][l]
    /\ Renewed(r)

Met == \A r \in InProgress, s \in InProgress : r # s => r \in mixed

Alone(r) == phase[r] \in Active /\ kind[r] # "all" /\ r \notin mixed

Holds(r) ==
    Doing(r, "env") /\ ~Spared(r) /\ r \notin overtaken => saved[r][Object(r)] = text[Object(r)]

RotationInv == RunsTyped /\ Met /\ \A r \in Runs : (Alone(r) => Undisturbed(r)) /\ Holds(r)

(* A run that has advanced wrote what it wrote before and what the step wrote. *)
LEMMA AdvanceWrote ==
    ASSUME RunsTyped, NEW r \in Runs, phase[r] = "change", Advance(r), kind' = kind, NEW f
    PROVE  Wrote(r, f)' <=> Wrote(r, f) \/ WritesTo(Class[kind[r]], at[r], f)
<1>1. at[r] \in Nat /\ at[r] \in 1..Len(Program(kind[r])) /\ Len(Program(kind[r])) \in Nat
  BY Programs DEF RunsTyped, TypeOK
<1>2. /\ at \in [Runs -> Nat] /\ phase \in [Runs -> Active \cup {"idle", "failed", "done", "rolledback", "dead"}]
  BY DEF RunsTyped, TypeOK
<1>4. \A j \in 1..Len(Program(kind[r])) : j <= at[r] <=> (phase'[r] = "change" => j < at'[r])
  <2>1. CASE at[r] < Len(Program(kind[r]))
    BY <1>1, <1>2, <2>1 DEF Advance
  <2>2. CASE ~(at[r] < Len(Program(kind[r])))
    BY <1>1, <1>2, <2>2 DEF Advance
  <2>3. QED
    BY <2>1, <2>2
<1>5. Wrote(r, f)' <=> \E j \in 1..Len(Program(kind[r])) : j <= at[r] /\ WritesTo(Class[kind[r]], j, f)
  BY <1>4 DEF Wrote, WritesTo
<1>6. QED
  BY <1>1, <1>5 DEF Wrote

(* A change writes in the file of its step, and what it does there.            *)
LEMMA ChangesWrite ==
    ASSUME RunsTyped, NEW r \in Runs, Changes(r)
    PROVE  /\ \A f \in Files : text'[f] # text[f] => WritesTo(Class[kind[r]], at[r], f)
           /\ \/ text' = text
              \/ WriteFile(r) /\ text' = WithNew(r, Object(r), text[Object(r)])
              \/ WriteEnv(r) /\ ~Spared(r) /\ text' = WithNew(r, Object(r), saved[r][Object(r)])
              \/ /\ Rewrite(r) /\ kind[r] = "redis"
                 /\ text' = [text EXCEPT !["redisConf"] = [text["redisConf"] EXCEPT !["redis"] = live["redis"]]]
<1>. DEFINE c == Class[kind[r]]
<1>1. at[r] \in 1..Len(c.steps) /\ (kind[r] # "redis" => Plain(c))
  BY Programs DEF RunsTyped, TypeOK, Program
<1>. text \in [Files -> [Credentials -> Values \cup {"none"}]]
  BY DEF RunsTyped, TypeOK, Texts
<1>2. CASE text' = text
  BY <1>2
<1>3. CASE WriteFile(r) /\ text' # text
  <2>1. text' = WithNew(r, Object(r), text[Object(r)]) /\ c.steps[at[r]][1] = "write"
    BY <1>3 DEF WriteFile, Doing, Program
  <2>2. \A f \in Files : f # Object(r) => text'[f] = text[f]
    BY <2>1 DEF WithNew
  <2>3. WritesTo(c, at[r], Object(r))
    BY <2>1 DEF WritesTo, Object, Program, Named
  <2>4. QED
    BY <1>3, <2>1, <2>2, <2>3
<1>4. CASE WriteEnv(r) /\ text' # text
  <2>1. ~Spared(r) /\ text' = WithNew(r, Object(r), saved[r][Object(r)]) /\ c.steps[at[r]][1] = "env"
    BY <1>4 DEF WriteEnv, Doing, Program
  <2>2. \A f \in Files : f # Object(r) => text'[f] = text[f]
    BY <2>1 DEF WithNew
  <2>3. WritesTo(c, at[r], Object(r))
    BY <2>1 DEF WritesTo, Object, Program, Named
  <2>4. QED
    BY <1>4, <2>1, <2>2, <2>3
<1>5. CASE Rewrite(r) /\ text' # text
  <2>1. c.steps[at[r]][1] = "rewrite" /\ kind[r] = "redis"
    BY <1>5, <1>1 DEF Rewrite, Doing, Program, Plain
  <2>2. text' = [text EXCEPT !["redisConf"] = [text["redisConf"] EXCEPT !["redis"] = live["redis"]]]
    BY <1>5 DEF Rewrite
  <2>3. WritesTo(c, at[r], "redisConf")
    BY <2>1 DEF WritesTo
  <2>4. QED
    BY <1>5, <2>1, <2>2, <2>3
<1>6. Given(r) \/ Ask(r) \/ Restart(r) \/ ReadEnv(r) => text' = text
  BY DEF Given, Ask, Restart, ReadEnv
<1>7. QED
  BY <1>2, <1>3, <1>4, <1>5, <1>6 DEF Changes

(* It changes the lines of its own credential, if it holds what is in the file. *)
LEMMA ChangesKeepOthers ==
    ASSUME RunsTyped, NEW r \in Runs, Changes(r),
           WriteEnv(r) /\ ~Spared(r) => saved[r][Object(r)] = text[Object(r)]
    PROVE  \A f \in Files, l \in Credentials \ Concerns(kind[r]) : text'[f][l] = text[f][l]
<1>. text \in [Files -> [Credentials -> Values \cup {"none"}]]
  BY DEF RunsTyped, TypeOK, Texts
<1>1. CASE text' = text
  BY <1>1
<1>2. CASE text' = WithNew(r, Object(r), text[Object(r)])
  BY <1>2 DEF WithNew
<1>3. CASE /\ kind[r] = "redis"
           /\ text' = [text EXCEPT !["redisConf"] = [text["redisConf"] EXCEPT !["redis"] = live["redis"]]]
  <2>1. "redis" \in Concerns(kind[r])
    BY <1>3 DEF Concerns, Class, RedisRotation
  <2>2. QED
    BY <1>3, <2>1
<1>4. QED
  BY <1>1, <1>2, <1>3, ChangesWrite

(* A step of the change of a run that is alone.                                *)
LEMMA ChangeUndisturbed ==
    ASSUME RunsTyped, NEW r \in Runs, Changes(r), Alone(r), Undisturbed(r)
    PROVE  Undisturbed(r)'
<1>. DEFINE c == Class[kind[r]]
<1>1. /\ phase[r] = "change" /\ Advance(r) /\ kind' = kind /\ before' = before
  BY ChangesAdvance
<1>2. /\ kind[r] \in Kinds /\ at[r] \in 1..Len(c.steps) /\ Orderly(c)
      /\ kind[r] # "redis" => Plain(c)
  BY Programs DEF RunsTyped, TypeOK, Alone, Program
<1>10. ASSUME c.steps[at[r]][1] \in {"read", "env"}, Object(r) \in Files
       PROVE  saved[r][Object(r)] = text[Object(r)] /\ text[Object(r)] = before[r][Object(r)]
  <2>1. Object(r) = c.steps[at[r]][2]
    BY DEF Object, Program
  <2>2. ~Wrote(r, Object(r))
    BY <2>1, <1>10, <1>1, <1>2 DEF Wrote, Orderly, Program
  <2>3. QED
    BY <1>10, <2>2 DEF Undisturbed
<1>11. WriteEnv(r) => Object(r) \in Files /\ c.steps[at[r]][1] = "env"
  BY <1>2, Programs DEF WriteEnv, Doing, Object, Program, ReadsFirst, EnvFiles, Files, Lines
<1>3. /\ \A f \in Files : text'[f] # text[f] => WritesTo(c, at[r], f)
      /\ \A f \in Files, l \in Credentials \ Concerns(kind[r]) : text'[f][l] = text[f][l]
  BY ChangesKeepOthers, ChangesWrite, <1>10, <1>11
<1>4. \A f \in Files : ~Wrote(r, f)' => ~Wrote(r, f) /\ ~WritesTo(c, at[r], f)
  BY <1>1, AdvanceWrote
<1>5. \A f \in Files : saved'[r][f] = before'[r][f]
  <2>. /\ saved \in [Runs -> Texts] /\ saved[r] \in [Files -> [Credentials -> Values \cup {"none"}]]
    BY DEF RunsTyped, TypeOK, Texts
  <2>1. CASE saved' = saved
    BY <2>1, <1>1 DEF Undisturbed
  <2>2. CASE ReadEnv(r) /\ saved' = [saved EXCEPT ![r][Object(r)] = text[Object(r)]]
    <3>1. c.steps[at[r]][1] = "read"
      BY <2>2 DEF ReadEnv, Doing, Program
    <3>3. Object(r) \in Files => text[Object(r)] = before[r][Object(r)]
      BY <3>1, <1>10
    <3>4. \A f \in Files : saved'[r][f] = IF f = Object(r) THEN text[f] ELSE saved[r][f]
      BY <2>2
    <3>5. QED
      BY <3>3, <3>4, <1>1 DEF Undisturbed
  <2>3. QED
    BY <2>1, <2>2 DEF Changes, Given, WriteFile, ReadEnv, WriteEnv, Ask, Rewrite, Restart
<1>6. \A f \in Files : ~Wrote(r, f)' => text'[f] = before'[r][f]
  BY <1>1, <1>3, <1>4 DEF Undisturbed
<1>7. \A f \in Files, l \in Credentials \ Concerns(kind'[r]) : text'[f][l] = before'[r][f][l]
  BY <1>1, <1>3 DEF Undisturbed
<1>8. Renewed(r)'
  <2>. SUFFICES ASSUME ~Dry(r), NEW f \in Files \ {"identities"}, NEW l \in Credentials,
                       Wrote(r, f)', l \in Lines[f] \cap Concerns(kind[r])
                PROVE  text'[f][l] = new'[r]
    BY <1>1, ChangesAdvance DEF Renewed, Dry
  <2>. /\ text \in [Files -> [Credentials -> Values \cup {"none"}]]
       /\ new \in [Runs -> Values]
    BY DEF RunsTyped, TypeOK, Texts
  <2>1. Wrote(r, f) \/ WritesTo(c, at[r], f)
    BY <1>1, AdvanceWrote
  <2>2. Wrote(r, f) => text[f][l] = new[r]
    BY <1>1 DEF Undisturbed, Renewed
  <2>3. CASE Given(r)
    <3>1. at[r] = 1 /\ c.steps[1][1] = "given"
      BY <2>3, <1>2 DEF Given, Doing, Program, Orderly
    <3>2. ~Wrote(r, f) /\ ~WritesTo(c, at[r], f)
      BY <1>1, <3>1 DEF Wrote, WritesTo, Named
    <3>3. QED
      BY <2>1, <3>2
  <2>4. CASE Ask(r) \/ Restart(r) \/ ReadEnv(r)
    <3>1. ~WritesTo(c, at[r], f)
      BY <2>4 DEF Ask, Restart, ReadEnv, Doing, Program, WritesTo, Named
    <3>2. QED
      BY <2>1, <2>2, <2>4, <3>1 DEF Ask, Restart, ReadEnv
  <2>5. CASE WriteFile(r) \/ WriteEnv(r)
    <3>1. c.steps[at[r]][1] \in Named /\ new' = new
      BY <2>5 DEF WriteFile, WriteEnv, Doing, Program, Named
    <3>2. WritesTo(c, at[r], f) => f = Object(r)
      BY <3>1 DEF WritesTo, Named, Object, Program
    <3>7. ~Spared(r)
      BY DEF Spared
    <3>3. \/ \E t : text' = WithNew(r, Object(r), t)
          \/ Object(r) = "identities" /\ text' = text
      BY <2>5, <3>7 DEF WriteFile, WriteEnv
    <3>4. f = Object(r) => text'[f][l] = new[r]
      BY <3>3 DEF WithNew
    <3>5. f # Object(r) => text'[f] = text[f]
      BY <3>3 DEF WithNew
    <3>6. QED
      BY <2>1, <2>2, <3>1, <3>2, <3>4, <3>5
  <2>6. CASE Rewrite(r)
    <3>1. c.steps[at[r]][1] = "rewrite" /\ new' = new
      BY <2>6 DEF Rewrite, Doing, Program
    <3>2. PICK j \in 1..Len(c.steps) : j < at[r] /\ c.steps[j] = <<"write", "redisConf">>
      BY <1>2, <3>1 DEF Orderly
    <3>3. Wrote(r, "redisConf")
      BY <3>2 DEF Wrote, WritesTo, Named, Program
    <3>4. WritesTo(c, at[r], f) => f = "redisConf"
      BY <3>1 DEF WritesTo, Named
    <3>5. text[f][l] = new[r]
      BY <2>1, <2>2, <3>3, <3>4
    <3>6. text' = text \/ (live.redis = new[r] /\
                text' = [text EXCEPT !["redisConf"] = [text["redisConf"] EXCEPT !["redis"] = live.redis]])
      BY <2>6 DEF Rewrite
    <3>7. QED
      BY <3>1, <3>5, <3>6
  <2>7. QED
    BY <2>3, <2>4, <2>5, <2>6 DEF Changes
<1>9. QED
  BY <1>5, <1>6, <1>7, <1>8 DEF Undisturbed

(* What does not depend on the step of another run stands still with the text. *)
LEMMA UndisturbedStutters ==
    ASSUME NEW s \in Runs, Undisturbed(s), UNCHANGED <<text, kind>>,
           saved'[s] = saved[s], before'[s] = before[s],
           \A f : ~Wrote(s, f)' => ~Wrote(s, f), phase'[s] = "rollback"
    PROVE  Undisturbed(s)'
  BY DEF Undisturbed, Renewed

(* A run that goes on after a step of another was in progress with it.         *)
LEMMA MetOnStep ==
    ASSUME RotationInv, NEW r \in Runs, NEW s \in Runs, r # s, phase[r] \in Active,
           UNCHANGED <<kind, mixed>>, phase'[s] = phase[s], Alone(s)'
    PROVE  FALSE
  BY DEF RotationInv, Met, InProgress, Alone

LEMMA StartMeets ==
    ASSUME RotationInv, NEW r \in Runs, NEW k \in Kinds, NEW option, Start(r, k, option)
    PROVE  Met' /\ \A s \in Runs : (Alone(s)' => Undisturbed(s)') /\ Holds(s)'
<1>1. /\ phase \in [Runs -> Active \cup {"idle", "failed", "done", "rolledback", "dead"}]
      /\ kind \in [Runs -> Kinds] /\ saved \in [Runs -> Texts] /\ before \in [Runs -> Texts]
      /\ phase[r] = "idle" /\ at[r] = 1 /\ text \in Texts
  BY DEF RotationInv, RunsTyped, TypeOK, Start
<1>2. InProgress' = InProgress \cup {r} /\ r \notin InProgress
  BY <1>1 DEF Start, InProgress, Active
<1>3. mixed' = IF InProgress = {} THEN mixed ELSE mixed \cup InProgress \cup {r}
  BY DEF Start
<1>4. Met'
  BY <1>2, <1>3 DEF Met
<1>5. ASSUME NEW s \in Runs, s # r, Alone(s)' PROVE FALSE
  <2>1. phase'[s] = phase[s] /\ phase[s] \in Active
    BY <1>1, <1>5 DEF Start, Alone
  <2>2. s \in mixed'
    BY <2>1, <1>3 DEF InProgress
  <2>3. QED
    BY <2>2, <1>5 DEF Alone
<1>6. Undisturbed(r)'
  <2>1. saved'[r] = text /\ before'[r] = text /\ text' = text
    BY <1>1 DEF Start
  <2>2. \A f : ~Wrote(r, f)'
    BY <1>1 DEF Start, Wrote
  <2>3. QED
    BY <2>1, <2>2 DEF Undisturbed, Renewed
<1>7. ASSUME NEW s \in Runs PROVE Holds(s)'
  <2>1. CASE s = r
    <3>1. kind'[r] \in Kinds /\ at'[r] = 1 /\ 1 \in 1..Len(Program(kind'[r]))
      BY <1>1, Programs DEF Start, RotationInv, RunsTyped, TypeOK
    <3>2. ~(Program(kind'[r])[1][1] = "env")
      BY <3>1, Programs DEF ReadsFirst, Program
    <3>3. QED
      BY <2>1, <3>1, <3>2 DEF Holds, Doing
  <2>2. CASE s # r
    <3>1. /\ kind'[s] = kind[s] /\ asked'[s] = asked[s] /\ phase'[s] = phase[s] /\ saved'[s] = saved[s]
          /\ UNCHANGED <<text, at, overtaken>>
      BY <1>1, <2>2 DEF Start, RotationInv, RunsTyped, TypeOK
    <3>2. Holds(s)
      BY DEF RotationInv
    <3>3. QED
      BY <3>1, <3>2 DEF Holds, Doing, Object, Spared, Dry
  <2>3. QED
    BY <2>1, <2>2
<1>8. QED
  BY <1>4, <1>5, <1>6, <1>7

(* A write of another run either leaves the file or overtakes; one's own reading *)
(* comes right before.                                                         *)
LEMMA HoldsOn ==
    ASSUME RunsTyped, NEW r \in Runs, NEW s \in Runs, Changes(s), Holds(r) PROVE Holds(r)'
<1>1. phase[s] = "change" /\ Advance(s) /\ UNCHANGED <<kind, asked>>
  BY ChangesAdvance
<1>2. /\ text \in [Files -> [Credentials -> Values \cup {"none"}]] /\ saved \in [Runs -> Texts]
      /\ at \in [Runs -> Nat] /\ \A q \in Runs : at[q] \in 1..Len(Program(kind[q])) /\ kind[q] \in Kinds
      /\ phase \in [Runs -> Active \cup {"idle", "failed", "done", "rolledback", "dead"}]
      /\ saved[s] \in [Files -> [Credentials -> Values \cup {"none"}]]
  BY DEF RunsTyped, TypeOK, Texts
<1>3. \A q \in Runs : at'[q] \in 1..Len(Program(kind[q]))
  BY <1>1, AdvanceTyped
<1>. SUFFICES ASSUME Doing(r, "env")', ~Spared(r)', r \notin overtaken'
              PROVE  saved'[r][Object(r)'] = text'[Object(r)']
  BY DEF Holds
<1>4. Spared(r)' <=> Spared(r)
  BY <1>1 DEF Spared, Dry
<1>5. overtaken \subseteq overtaken'
  BY DEF Changes, Given, WriteFile, ReadEnv, WriteEnv, Ask, Rewrite, Restart, Overtaking
<1>6. CASE r # s
  <2>1. phase'[r] = phase[r] /\ at'[r] = at[r]
    BY <1>1, <1>6, AdvanceTyped
  <2>2. Doing(r, "env") /\ Object(r)' = Object(r)
    BY <1>1, <2>1 DEF Doing, Object
  <2>3. saved[r][Object(r)] = text[Object(r)]
    BY <1>4, <1>5, <2>2 DEF Holds
  <2>4. saved'[r] = saved[r]
    BY <1>2, <1>6 DEF Changes, Given, WriteFile, ReadEnv, WriteEnv, Ask, Rewrite, Restart
  <2>5. Object(r) \in EnvFiles
    BY <1>2, <2>2, Programs DEF Doing, Object, Program, ReadsFirst
  <2>6. WriteFile(s) => Object(s) \notin EnvFiles
    BY <1>2, Programs DEF WriteFile, Doing, Object, Program, ReadsFirst
  <2>7. text'[Object(r)] = text[Object(r)]
    <3>1. CASE WriteEnv(s)
      BY <1>6, <2>2, <3>1 DEF WriteEnv, Overtaking
    <3>2. CASE WriteFile(s) /\ text' = WithNew(s, Object(s), text[Object(s)])
      BY <1>2, <2>5, <2>6, <3>2 DEF WithNew, EnvFiles, Files, Lines
    <3>3. CASE text' = [text EXCEPT !["redisConf"] = [text["redisConf"] EXCEPT !["redis"] = live["redis"]]]
      BY <1>2, <2>5, <3>3 DEF EnvFiles, Files, Lines
    <3>4. QED
      BY <3>1, <3>2, <3>3, ChangesWrite
  <2>8. QED
    BY <2>2, <2>3, <2>4, <2>7
<1>7. CASE r = s
  <2>1. phase'[r] = "change" /\ Program(kind[r])[at'[r]][1] = "env"
    BY <1>1 DEF Doing
  <2>2. at[r] < Len(Program(kind[r])) /\ at'[r] = at[r] + 1
    <3>1. ~(at[r] < Len(Program(kind[r]))) => phase'[r] # "change"
      BY <1>1, <1>2, <1>7 DEF Advance
    <3>2. QED
      BY <1>1, <1>2, <1>7, <2>1, <3>1 DEF Advance
  <2>3. /\ Program(kind[r])[at'[r] - 1] = <<"read", Program(kind[r])[at'[r]][2]>>
        /\ Program(kind[r])[at'[r]][2] \in EnvFiles
    BY <1>2, <1>3, <2>1, Programs DEF ReadsFirst, Program
  <2>4. Program(kind[r])[at[r]] = <<"read", Object(r)'>> /\ Object(r)' \in EnvFiles
    BY <1>1, <1>2, <2>2, <2>3 DEF Object
  <2>5. ReadEnv(r) /\ Object(r) = Object(r)'
    BY <1>7, <2>4 DEF Changes, Given, WriteFile, WriteEnv, Ask, Rewrite, Restart, Doing, Object
  <2>6. saved' = [saved EXCEPT ![r][Object(r)] = text[Object(r)]] /\ text' = text
    BY <1>4, <2>5 DEF ReadEnv
  <2>7. QED
    BY <1>2, <1>7, <2>4, <2>5, <2>6 DEF EnvFiles, Files, Lines
<1>8. QED
  BY <1>6, <1>7

LEMMA RotationInductive == ASSUME RotationInv, [Next]_vars PROVE RotationInv'
<1>. USE RunsTypedInductive DEF RotationInv
<1>1. ASSUME NEW r \in Runs, NEW k \in Kinds, NEW option \in {"no", "before", "after"}, Start(r, k, option)
      PROVE  RotationInv'
  BY <1>1, StartMeets
<1>2. ASSUME NEW r \in Runs, Changes(r) PROVE RotationInv'
  <2>1. phase[r] = "change" /\ Advance(r) /\ UNCHANGED <<kind, mixed>>
    BY <1>2, ChangesAdvance
  <2>2. \A s \in Runs : s # r => phase'[s] = phase[s]
    BY <2>1, AdvanceTyped
  <2>3. Met'
    BY <2>1, <2>2 DEF Met, InProgress, Active
  <2>4. ASSUME NEW s \in Runs, Alone(s)' PROVE Undisturbed(s)'
    <3>1. s = r
      BY <2>1, <2>2, <2>4, MetOnStep DEF Active
    <3>2. Alone(r)
      BY <2>1, <2>4, <3>1 DEF Alone, Active
    <3>3. QED
      BY <1>2, <3>1, <3>2, ChangeUndisturbed
  <2>5. \A s \in Runs : Holds(s)'
    BY <1>2, HoldsOn
  <2>6. QED
    BY <2>3, <2>4, <2>5
<1>3. ASSUME NEW r \in Runs, Turns(r) PROVE RotationInv'
  <2>1. PICK e \in {"failed", "done", "rollback", "dead"} :
            phase' = [phase EXCEPT ![r] = e] /\ (e = "rollback" => phase[r] = "validate")
    BY <1>3, TurnsOf
  <2>2. phase[r] \in Active /\ UNCHANGED <<text, kind, asked, at, saved, before, mixed, overtaken>>
    BY <1>3, TurnsOf
  <2>3. \A s \in Runs : s # r => phase'[s] = phase[s]
    BY <2>1
  <2>4. phase'[r] \in Active => phase[r] = "validate" /\ phase'[r] = "rollback"
    BY <2>1 DEF RunsTyped, TypeOK, Active
  <2>5. Met'
    BY <2>2, <2>3, <2>4 DEF Met, InProgress, Active
  <2>6. ASSUME NEW s \in Runs, Alone(s)' PROVE Undisturbed(s)'
    <3>1. s = r
      BY <2>2, <2>3, <2>6, MetOnStep
    <3>2. Alone(r) /\ phase[r] = "validate"
      BY <2>2, <2>4, <2>6, <3>1 DEF Alone, Active
    <3>3. \A f : ~Wrote(r, f)' => ~Wrote(r, f)
      BY <2>2, <2>4, <3>1, <2>6, <3>2 DEF Wrote, WritesTo, Alone
    <3>4. QED
      BY <2>2, <2>4, <2>6, <3>1, <3>2, <3>3, UndisturbedStutters DEF Alone
  <2>8. ASSUME NEW s \in Runs PROVE Holds(s)'
    <3>1. phase'[s] = "change" => phase[s] = "change"
      BY <2>3, <2>4 DEF Active
    <3>2. QED
      BY <2>2, <3>1 DEF Holds, Doing, Object, Spared, Dry
  <2>7. QED
    BY <2>5, <2>6, <2>8
<1>4. ASSUME NEW r \in Runs, Rollback(r) PROVE RotationInv'
  <2>1. /\ phase[r] = "rollback" /\ phase' = [phase EXCEPT ![r] = "rolledback"]
        /\ UNCHANGED <<kind, mixed>>
    BY <1>4, RollbackTyped
  <2>2. /\ \A s \in Runs : s # r => phase'[s] = phase[s]
        /\ phase'[r] \notin Active
    BY <2>1 DEF RunsTyped, TypeOK, Active
  <2>3. Met'
    BY <2>1, <2>2 DEF Met, InProgress
  <2>4. \A s \in Runs : ~Alone(s)'
    BY <2>1, <2>2, MetOnStep DEF Alone, Active
  <2>5. ASSUME NEW s \in Runs PROVE Holds(s)'
    <3>. SUFFICES ASSUME Doing(s, "env")', ~Spared(s)', s \notin overtaken'
                  PROVE  saved'[s][Object(s)'] = text'[Object(s)']
      BY DEF Holds
    <3>1. UNCHANGED <<kind, asked, at, saved>> /\ s # r
      BY <1>4, <2>2, RollbackTyped DEF Doing, Active
    <3>2. Doing(s, "env") /\ ~Spared(s) /\ Object(s)' = Object(s)
      BY <2>2, <3>1 DEF Doing, Spared, Dry, Object
    <3>3. s \notin overtaken /\ text'[Object(s)] = text[Object(s)]
      BY <1>4, <3>1, <3>2 DEF Rollback, Overtaking
    <3>4. QED
      BY <3>1, <3>2, <3>3 DEF Holds
  <2>6. QED
    BY <2>3, <2>4, <2>5
<1>5. CASE UNCHANGED vars
  <2>1. Met' /\ \A s \in Runs : Alone(s)' => Undisturbed(s)'
    BY <1>5 DEF vars, runVars, Met, InProgress, Alone, Undisturbed, Renewed, Dry, Wrote, WritesTo, Concerns
  <2>2. \A s \in Runs : Holds(s)'
    BY <1>5 DEF vars, runVars, Holds, Doing, Object, Spared, Dry
  <2>3. QED
    BY <1>5, <2>1, <2>2
<1>6. QED
  BY <1>1, <1>2, <1>3, <1>4, <1>5 DEF Next, Changes, Turns

LEMMA InitRotation == Init => RotationInv
<1>1. Init => \A r \in Runs : phase[r] = "idle"
  BY DEF Init
<1>2. QED
  BY <1>1, InitTyped DEF RotationInv, Met, InProgress, Alone, Active, Holds, Doing

(* Only a rollback rolls back, and only a validation is followed by success.   *)
LEMMA OnlyRollbackEnds ==
    ASSUME RunsTyped, [Next]_vars, NEW r \in Runs, phase[r] = "rollback", phase'[r] = "rolledback"
    PROVE  Rollback(r)
<1>1. /\ phase \in [Runs -> Active \cup {"idle", "failed", "done", "rolledback", "dead"}]
  BY DEF RunsTyped, TypeOK
<1>2. ASSUME NEW s \in Runs, NEW k \in Kinds, NEW option \in {"no", "before", "after"}, Start(s, k, option)
      PROVE  FALSE
  BY <1>1, <1>2 DEF Start
<1>3. ASSUME NEW s \in Runs, Changes(s) PROVE FALSE
  BY <1>3, ChangesAdvance, AdvanceTyped
<1>4. ASSUME NEW s \in Runs, Turns(s), s # r PROVE FALSE
  BY <1>1, <1>4, TurnsOf
<1>5. ~Turns(r)
  BY <1>1, TurnsOf
<1>6. ASSUME NEW s \in Runs, Rollback(s) PROVE s = r
  BY <1>1, <1>6 DEF Rollback
<1>7. QED
  BY <1>2, <1>3, <1>4, <1>5, <1>6 DEF Next, Changes, Turns, vars, runVars

LEMMA OnlyValidatesEnds ==
    ASSUME RunsTyped, [Next]_vars, NEW r \in Runs, phase[r] = "validate", phase'[r] = "done"
    PROVE  Validates(r)
<1>1. /\ phase \in [Runs -> Active \cup {"idle", "failed", "done", "rolledback", "dead"}]
  BY DEF RunsTyped, TypeOK
<1>2. ASSUME NEW s \in Runs, NEW k \in Kinds, NEW option \in {"no", "before", "after"}, Start(s, k, option)
      PROVE  FALSE
  BY <1>1, <1>2 DEF Start
<1>3. ASSUME NEW s \in Runs, Changes(s) PROVE FALSE
  BY <1>3, ChangesAdvance, AdvanceTyped
<1>4. ASSUME NEW s \in Runs, Turns(s), s # r PROVE FALSE
  BY <1>1, <1>4, TurnsOf
<1>5. Turns(r) => Validates(r)
  BY <1>1 DEF Turns, ChangeFails, ValidationFails, Dies
<1>6. ASSUME NEW s \in Runs, Rollback(s) PROVE FALSE
  BY <1>1, <1>6 DEF Rollback
<1>7. QED
  BY <1>2, <1>3, <1>4, <1>5, <1>6 DEF Next, Changes, Turns, vars, runVars

(* What the validate methods check, of a credential that was written to every  *)
(* file but identities.db.                                                     *)
LEMMA ValidIsWhole ==
    ASSUME NEW l \in Credentials, Valid(l), NEW v,
           \A f \in Files \ {"identities"} : l \in Lines[f] => text[f][l] = v,
           UNCHANGED <<text, live>>
    PROVE  Whole(l)'
<1>1. /\ l = "redis" => RedisValid
      /\ l = "db" => DbValid
      /\ l = "token" => TelegramValid
      /\ l = "apikey" => ApiKeyValid
  BY DEF Valid
<1>2. CASE l = "apikey"
  <2>1. text.inst.apikey = live.apikey /\ text.identities.apikey = text.inst.apikey
    BY <1>1, <1>2 DEF ApiKeyValid
  <2>2. \A f \in Files : "apikey" \in Lines[f] => f \in {"inst", "identities"}
    BY DEF Files, Lines
  <2>3. QED
    BY <1>2, <2>1, <2>2 DEF Whole
<1>3. CASE l # "apikey"
  <2>1. \A f \in Files : l \in Lines[f] => text[f][l] = v
    BY <1>3 DEF Files, Lines
  <2>2. l = "redis" => v = live[l]
    BY <1>1, <2>1 DEF RedisValid, Files, Lines
  <2>3. l \in {"db", "token"} => v = live[l]
    BY <1>1, <2>1 DEF DbValid, TelegramValid, Files, Lines
  <2>4. QED
    BY <1>3, <2>1, <2>2, <2>3 DEF Whole
<1>4. QED
  BY <1>2, <1>3

-----------------------------------------------------------------------------
(* The theorems: each of the action properties holds of every step.            *)

(* "One credential, one isolated operation": a run changes lines of its own    *)
(* credential only, but for one whose env file another wrote after it had read *)
(* it, and for the rollback of a run that met another.                         *)
THEOREM RotationsApart == Spec => OthersKept
<1>. DEFINE A == \A f \in Files, l \in Credentials :
                    text'[f][l] # text[f][l] =>
                        \E r \in Runs : /\ Moves(r)
                                        /\ \/ l \in Concerns(kind[r])
                                           \/ phase[r] = "change" /\ r \in overtaken
                                           \/ phase[r] = "rollback" /\ r \in mixed
<1>1. RotationInv /\ [Next]_vars => A
  <2>. SUFFICES ASSUME RotationInv, [Next]_vars, text' # text PROVE A
    OBVIOUS
  <2>1. ASSUME NEW r \in Runs, Changes(r), r \notin overtaken,
               NEW f \in Files, NEW l \in Credentials \ Concerns(kind[r])
        PROVE  text'[f][l] = text[f][l]
    <3>1. WriteEnv(r) /\ ~Spared(r) => saved[r][Object(r)] = text[Object(r)]
      BY <2>1 DEF RotationInv, Holds, WriteEnv
    <3>2. QED
      BY <2>1, <3>1, ChangesKeepOthers DEF RotationInv
  <2>2. ASSUME NEW r \in Runs, Changes(r) PROVE A
    <3>1. Moves(r) /\ phase[r] = "change"
      BY <2>2, ChangesAdvance, AdvanceTyped DEF RotationInv
    <3>2. QED
      BY <2>1, <2>2, <3>1
  <2>3. ASSUME NEW r \in Runs, Rollback(r) PROVE A
    <3>1. Moves(r) /\ phase[r] = "rollback"
      BY <2>3 DEF Rollback, Moves, RotationInv, RunsTyped, TypeOK
    <3>2. \A f \in Files : text'[f] \in {text[f], saved[r][f]}
      BY <2>3 DEF Rollback
    <3>3. r \notin mixed => Undisturbed(r)
      BY <3>1 DEF RotationInv, RunsTyped, Alone, Active
    <3>4. r \notin mixed => \A f \in Files, l \in Credentials \ Concerns(kind[r]) : saved[r][f][l] = text[f][l]
      BY <3>3 DEF Undisturbed
    <3>5. QED
      BY <3>1, <3>2, <3>4
  <2>4. \A r \in Runs : Turns(r) \/ (\E k \in Kinds, option \in {"no", "before", "after"} : Start(r, k, option))
                        => text' = text
    BY TurnsOf DEF Start
  <2>5. QED
    BY <2>2, <2>3, <2>4 DEF Next, Changes, Turns, vars
<1>2. QED
  BY <1>1, InitRotation, RotationInductive, PTL DEF Spec, OthersKept

(* A run that met no other and is rolled back leaves every file as it found    *)
(* it, but for identities.db (RotationBase.rollback).                          *)
THEOREM RollbackIsWhole == Spec => RollbackRestores
<1>. DEFINE A == \A r \in Runs :
                    phase[r] = "rollback" /\ phase'[r] = "rolledback" /\ ~Dry(r) /\ r \notin mixed
                    => \A f \in Files \ {"identities"} : text'[f] = before[r][f]
<1>1. RotationInv /\ [Next]_vars => A
  <2>. SUFFICES ASSUME RotationInv, [Next]_vars, NEW r \in Runs, phase[r] = "rollback",
                       phase'[r] = "rolledback", ~Dry(r), r \notin mixed,
                       NEW f \in Files \ {"identities"}
                PROVE  text'[f] = before[r][f]
    OBVIOUS
  <2>1. Rollback(r)
    BY OnlyRollbackEnds DEF RotationInv
  <2>2. kind[r] \in Kinds /\ Orderly(Class[kind[r]]) /\ Undisturbed(r)
    BY Programs DEF RotationInv, RunsTyped, TypeOK, Alone, Active
  <2>3. text'[f] = IF f \in Restored(kind[r]) THEN saved[r][f] ELSE text[f]
    BY <2>1 DEF Rollback
  <2>4. f \notin Restored(kind[r]) => ~Wrote(r, f)
    BY <2>2 DEF Restored, Wrote, Orderly, Program
  <2>5. QED
    BY <2>2, <2>3, <2>4 DEF Undisturbed
<1>2. QED
  BY <1>1, InitRotation, RotationInductive, PTL DEF Spec, RollbackRestores

(* A run that reports success, was no dry run and met no other, leaves one     *)
(* secret everywhere: in all the files, and in the server if the validation    *)
(* asks it.                                                                    *)
THEOREM SuccessIsTrue == Spec => SuccessIsWhole
<1>. DEFINE A == \A r \in Runs :
                    phase[r] = "validate" /\ phase'[r] = "done" /\ ~Dry(r) /\ r \notin mixed
                    => Whole(kind[r])'
<1>1. RotationInv /\ [Next]_vars => A
  <2>. SUFFICES ASSUME RotationInv, [Next]_vars, NEW r \in Runs, phase[r] = "validate",
                       phase'[r] = "done", ~Dry(r), r \notin mixed
                PROVE  Whole(kind[r])'
    OBVIOUS
  <2>1. Validates(r)
    BY OnlyValidatesEnds DEF RotationInv
  <2>2. kind[r] \in Kinds \ {"all"} /\ Thorough(Class[kind[r]], kind[r]) /\ Undisturbed(r)
    BY Programs DEF RotationInv, RunsTyped, TypeOK, Alone, Active
  <2>3. Valid(kind[r]) /\ UNCHANGED <<text, live, kind>>
    BY <2>1 DEF Validates, Skipped
  <2>. DEFINE l == kind[r]
  <2>4. \A f \in Files : l \in Lines[f] => Wrote(r, f)
    BY <2>2 DEF Thorough, Wrote, Program
  <2>5. l \in Credentials /\ l \in Concerns(l)
    BY <2>2 DEF Kinds, Thorough, Concerns
  <2>6. \A f \in Files \ {"identities"} : l \in Lines[f] => text[f][l] = new[r]
    BY <2>2, <2>4, <2>5 DEF Undisturbed, Renewed
  <2>7. QED
    BY <2>3, <2>5, <2>6, ValidIsWhole
<1>2. QED
  BY <1>1, InitRotation, RotationInductive, PTL DEF Spec, SuccessIsWhole

-----------------------------------------------------------------------------
(***************************************************************************)
(* The password of Redis. While nothing speaks against it (Quiet), a run   *)
(* that rotates it has the server to itself, and at each of its steps it   *)
(* is known which of redis.conf, .env and the server have the new secret   *)
(* (Stage): the server may have kept the old one, as nobody looks at what  *)
(* became of CONFIG SET. A rotation of another credential writes .env back *)
(* with the password that is there (Kept).                                 *)
(***************************************************************************)

AboutRedis(k) == "redis" \in Concerns(k)

Quiet ==
    \A r \in Runs : phase[r] # "idle" /\ AboutRedis(kind[r]) =>
        kind[r] = "redis" /\ ~Dry(r) /\ r \notin mixed /\ phase[r] # "rolledback"

Known ==
    \/ live.redis \in {text.redisConf.redis, text.env.redis}
    \/ \E r \in Runs : /\ phase[r] # "idle" /\ kind[r] = "redis"
                       /\ text.redisConf.redis = new[r] /\ text.env.redis = new[r]

Stage(r) ==
    phase[r] = "change" /\ kind[r] = "redis" =>
        /\ at[r] \in {1, 2} => text.env.redis = live.redis /\ "redis" \in up
        /\ at[r] >= 2 => text.redisConf.redis = new[r]
        /\ at[r] \in 3..5 => live.redis \in {new[r], text.env.redis}
        /\ at[r] = 6 => text.env.redis = new[r]

Kept(r) == phase[r] \in Active /\ ~AboutRedis(kind[r]) => saved[r].env.redis = text.env.redis

RedisInv == Quiet => Known /\ \A r \in Runs : Stage(r) /\ Kept(r)

(* Only the classes of Redis and of everything are about its password.         *)
LEMMA Strangers ==
    /\ AboutRedis("redis") /\ AboutRedis("all")
    /\ \A k \in Kinds \ {"redis", "all"} :
          /\ ~AboutRedis(k) /\ "redisConf" \notin Class[k].backup
          /\ \A i \in 1..Len(Program(k)) : Program(k)[i][2] # "redis" /\ Program(k)[i][1] # "rewrite"
<1> DEFINE Strange(c) == /\ "redis" \notin c.concerns /\ "redisConf" \notin c.backup
                         /\ \A i \in 1..Len(c.steps) : c.steps[i][2] # "redis" /\ c.steps[i][1] # "rewrite"
<1>1. Strange(InternalSecretsRotation)
  BY DEF InternalSecretsRotation
<1>2. Strange(CloudflareRotation)
  BY DEF CloudflareRotation
<1>3. Strange(DolibarrDbPasswordRotation)
  BY DEF DolibarrDbPasswordRotation
<1>4. Strange(TelegramRotation)
  BY DEF TelegramRotation
<1>5. Strange(WebhookSecretRotation)
  BY DEF WebhookSecretRotation
<1>6. Strange(DolibarrUserApiKeyRotation)
  BY DEF DolibarrUserApiKeyRotation
<1>. HIDE DEF Strange
<1>7. \A k \in Kinds \ {"redis", "all"} : k \in {"internal", "tunnel", "db", "token", "hook", "apikey"}
  BY DEF Kinds, Credentials, Lines
<1>8. /\ Class["internal"] = InternalSecretsRotation
      /\ Class["tunnel"] = CloudflareRotation /\ Class["db"] = DolibarrDbPasswordRotation
      /\ Class["token"] = TelegramRotation /\ Class["hook"] = WebhookSecretRotation
      /\ Class["apikey"] = DolibarrUserApiKeyRotation
  BY DEF Class
<1>9. \A k \in Kinds \ {"redis", "all"} : Strange(Class[k])
  BY <1>1, <1>2, <1>3, <1>4, <1>5, <1>6, <1>7, <1>8
<1>10. AboutRedis("redis") /\ AboutRedis("all")
  BY DEF AboutRedis, Concerns, Class, RedisRotation, OlderScript, Credentials, Lines
<1>11. QED
  BY <1>9, <1>10 DEF Strange, AboutRedis, Concerns, Program

(* The steps of RedisRotation.change.                                          *)
LEMMA RedisSteps ==
    /\ Len(Program("redis")) = 6 /\ Concerns("redis") = {"redis"}
    /\ Program("redis")[1] = <<"write", "redisConf">> /\ Program("redis")[2] = <<"ask", "redis">>
    /\ Program("redis")[3] = <<"rewrite", "redis">> /\ Program("redis")[4] = <<"read", "env">>
    /\ Program("redis")[5] = <<"env", "env">> /\ Program("redis")[6] = <<"restart", "redis">>
  BY DEF Program, Concerns, Class, RedisRotation

LEMMA Credential ==
    /\ "redis" \in Credentials /\ "env" \in Files /\ "redisConf" \in Files
    /\ "redis" \in Lines["env"] /\ "redis" \in Lines["redisConf"]
  BY DEF Credentials, Files, Lines

(* What speaks against it is never taken back.                                 *)
LEMMA QuietBefore == ASSUME RunsTyped, [Next]_vars, Quiet' PROVE Quiet
<1>. phase \in [Runs -> Active \cup {"idle", "failed", "done", "rolledback", "dead"}]
  BY DEF RunsTyped, TypeOK
<1>1. ASSUME NEW r \in Runs, NEW k \in Kinds, NEW option \in {"no", "before", "after"}, Start(r, k, option)
      PROVE  Quiet
  <2>1. mixed \subseteq mixed' /\ phase[r] = "idle"
    BY <1>1 DEF Start
  <2>2. \A s \in Runs : s # r => phase'[s] = phase[s] /\ kind'[s] = kind[s] /\ asked'[s] = asked[s]
    BY <1>1 DEF Start, RunsTyped, TypeOK
  <2>3. QED
    BY <2>1, <2>2 DEF Quiet, Dry
<1>2. ASSUME NEW r \in Runs, phase[r] \in Active, UNCHANGED <<kind, asked, mixed>>,
             \A s \in Runs : s # r => phase'[s] = phase[s], phase'[r] # "idle"
      PROVE  Quiet
  BY <1>2 DEF Quiet, Dry, Active
<1>3. ASSUME NEW r \in Runs, Changes(r) PROVE Quiet
  BY <1>2, <1>3, ChangesAdvance, AdvanceTyped DEF Active
<1>4. ASSUME NEW r \in Runs, Turns(r) PROVE Quiet
  <2>1. PICK e \in {"failed", "done", "rollback", "dead"} : phase' = [phase EXCEPT ![r] = e]
    BY <1>4, TurnsOf
  <2>2. QED
    BY <1>2, <1>4, <2>1, TurnsOf
<1>5. ASSUME NEW r \in Runs, Rollback(r) PROVE Quiet
  BY <1>2, <1>5, RollbackTyped DEF Active
<1>6. CASE UNCHANGED vars
  BY <1>6 DEF vars, runVars, Quiet, Dry
<1>7. QED
  BY <1>1, <1>3, <1>4, <1>5, <1>6 DEF Next, Changes, Turns

(* What the rotation of Redis does, one step after the other.                  *)
LEMMA RedisChanges ==
    ASSUME RunsTyped, NEW r \in Runs, Changes(r), kind[r] = "redis", ~Dry(r), Stage(r)
    PROVE  Known' /\ Stage(r)'
<1>1. phase[r] = "change" /\ Advance(r) /\ kind' = kind /\ at[r] \in 1..6 /\ Program(kind[r]) = Program("redis")
  BY ChangesAdvance, RedisSteps DEF RunsTyped, TypeOK
<1>2. /\ at \in [Runs -> Nat] /\ phase \in [Runs -> Active \cup {"idle", "failed", "done", "rolledback", "dead"}]
      /\ live \in [Credentials -> Values] /\ text \in [Files -> [Credentials -> Values \cup {"none"}]]
  BY DEF RunsTyped, TypeOK, Texts
<1>3. /\ at[r] < 6 => phase' = phase /\ at'[r] = at[r] + 1
      /\ at[r] = 6 => phase'[r] # "change"
      /\ phase'[r] # "idle"
  <2>1. Len(Program(kind[r])) = 6
    BY <1>1, RedisSteps
  <2>2. ASSUME at[r] < 6 PROVE phase' = phase /\ at'[r] = at[r] + 1
    BY <1>1, <1>2, <2>1, <2>2 DEF Advance
  <2>3. ASSUME at[r] = 6 PROVE phase'[r] # "change"
    <3>1. ~(at[r] < Len(Program(kind[r])))
      <4>1. \A i, n \in Nat : i = 6 /\ n = 6 => ~(i < n)
        OBVIOUS
      <4>2. QED
        BY <1>2, <2>1, <2>3, <4>1
    <3>2. phase' = [phase EXCEPT ![r] = IF kind[r] = "all" THEN "done" ELSE "validate"]
      BY <1>1, <3>1 DEF Advance
    <3>3. QED
      BY <1>2, <3>2
  <2>4. phase'[r] # "idle"
    BY <1>1, AdvanceTyped
  <2>5. QED
    BY <2>2, <2>3, <2>4
<1>4. \A t : \A f \in {"env", "redisConf"} : /\ WithNew(r, f, t)[f]["redis"] = new[r]
                                             /\ \A g \in Files : g # f => WithNew(r, f, t)[g] = text[g]
  BY <1>1, <1>2, Credential, RedisSteps DEF WithNew
<1>5. CASE at[r] = 1
  <2>1. WriteFile(r) /\ Object(r) = "redisConf"
    BY <1>1, <1>5, RedisSteps DEF Changes, Given, ReadEnv, WriteEnv, Ask, Rewrite, Restart, Doing, Object
  <2>2. text' = WithNew(r, "redisConf", text["redisConf"]) /\ UNCHANGED <<live, up, new>>
    BY <2>1 DEF WriteFile
  <2>3. text'["redisConf"]["redis"] = new[r] /\ text'["env"] = text["env"]
    BY <1>4, <2>2, Credential
  <2>4. text["env"]["redis"] = live["redis"] /\ "redis" \in up
    BY <1>1, <1>5 DEF Stage
  <2>5. QED
    BY <1>3, <1>5, <2>2, <2>3, <2>4 DEF Known, Stage
<1>6. CASE at[r] = 2
  <2>1. Ask(r) /\ Object(r) = "redis"
    BY <1>1, <1>6, RedisSteps DEF Changes, Given, ReadEnv, WriteEnv, WriteFile, Rewrite, Restart, Doing, Object
  <2>2. text["env"]["redis"] = live["redis"] /\ text["redisConf"]["redis"] = new[r]
    BY <1>1, <1>6 DEF Stage
  <2>3. live' \in {live, [live EXCEPT !["redis"] = new[r]]} /\ UNCHANGED <<text, up, new>>
    BY <1>1, <2>1 DEF Ask
  <2>4. live'["redis"] \in {new[r], text["env"]["redis"]}
    BY <1>2, <2>2, <2>3, Credential
  <2>5. QED
    BY <1>3, <1>6, <2>2, <2>3, <2>4 DEF Known, Stage
<1>7. CASE at[r] = 3
  <2>1. Rewrite(r)
    BY <1>1, <1>7, RedisSteps DEF Changes, Given, ReadEnv, WriteEnv, WriteFile, Ask, Restart, Doing
  <2>2. live["redis"] \in {new[r], text["env"]["redis"]} /\ text["redisConf"]["redis"] = new[r]
    BY <1>1, <1>7 DEF Stage
  <2>3. /\ UNCHANGED <<live, up, new>>
        /\ \/ text' = text
           \/ /\ live["redis"] = new[r]
              /\ text' = [text EXCEPT !["redisConf"] = [text["redisConf"] EXCEPT !["redis"] = live["redis"]]]
    BY <2>1 DEF Rewrite
  <2>4. text'["redisConf"]["redis"] = new[r] /\ text'["env"] = text["env"]
    BY <1>2, <2>2, <2>3, Credential
  <2>5. QED
    BY <1>3, <1>7, <2>2, <2>3, <2>4 DEF Known, Stage
<1>8. CASE at[r] = 4
  <2>1. ReadEnv(r)
    BY <1>1, <1>8, RedisSteps DEF Changes, Given, WriteEnv, Rewrite, WriteFile, Ask, Restart, Doing
  <2>2. live["redis"] \in {new[r], text["env"]["redis"]} /\ text["redisConf"]["redis"] = new[r]
    BY <1>1, <1>8 DEF Stage
  <2>3. UNCHANGED <<text, live, up, new>>
    BY <2>1 DEF ReadEnv
  <2>4. QED
    BY <1>3, <1>8, <2>2, <2>3 DEF Known, Stage
<1>9. CASE at[r] = 5
  <2>1. WriteEnv(r) /\ Object(r) = "env"
    BY <1>1, <1>9, RedisSteps DEF Changes, Given, ReadEnv, Rewrite, WriteFile, Ask, Restart, Doing, Object
  <2>2. text["redisConf"]["redis"] = new[r]
    BY <1>1, <1>9 DEF Stage
  <2>3. text' = WithNew(r, "env", saved[r]["env"]) /\ UNCHANGED <<live, up, new>>
    BY <2>1 DEF WriteEnv, Spared
  <2>4. text'["redisConf"] = text["redisConf"] /\ text'["env"]["redis"] = new[r]
    BY <1>4, <2>3, Credential
  <2>5. QED
    BY <1>1, <1>3, <1>9, <2>2, <2>3, <2>4 DEF Known, Stage
<1>10. CASE at[r] = 6
  <2>1. Restart(r)
    BY <1>1, <1>10, RedisSteps DEF Changes, Given, ReadEnv, Rewrite, WriteFile, Ask, WriteEnv, Doing
  <2>2. text["env"]["redis"] = new[r] /\ text["redisConf"]["redis"] = new[r]
    BY <1>1, <1>10 DEF Stage
  <2>3. UNCHANGED <<text, new>>
    BY <2>1 DEF Restart
  <2>4. QED
    BY <1>1, <1>3, <1>10, <2>2, <2>3 DEF Known, Stage
<1>11. QED
  BY <1>1, <1>5, <1>6, <1>7, <1>8, <1>9, <1>10

(* What the other rotations leave alone.                                       *)
LEMMA StrangeChanges ==
    ASSUME RunsTyped, NEW r \in Runs, Changes(r), ~AboutRedis(kind[r]), Kept(r)
    PROVE  /\ text'["env"]["redis"] = text["env"]["redis"] /\ text'["redisConf"]["redis"] = text["redisConf"]["redis"]
           /\ live'["redis"] = live["redis"] /\ ("redis" \in up' <=> "redis" \in up)
           /\ \A s \in Runs : s # r => new'[s] = new[s] /\ saved'[s] = saved[s]
           /\ saved'[r]["env"] \in {saved[r]["env"], text["env"]}
<1>1. kind[r] \in Kinds \ {"redis", "all"} /\ at[r] \in 1..Len(Program(kind[r]))
  BY Strangers DEF RunsTyped, TypeOK
<1>2. Object(r) # "redis"
  BY <1>1, Strangers DEF Object
<1>3. /\ live \in [Credentials -> Values] /\ new \in [Runs -> Values] /\ saved \in [Runs -> Texts]
      /\ saved[r] \in [Files -> [Credentials -> Values \cup {"none"}]]
  BY DEF RunsTyped, TypeOK, Texts
<1>4. text'["env"]["redis"] = text["env"]["redis"] /\ text'["redisConf"]["redis"] = text["redisConf"]["redis"]
  <2>1. Class[kind[r]].backup \subseteq Files /\ ~WritesTo(Class[kind[r]], at[r], "redisConf")
    BY <1>1, Programs, Strangers, Credential DEF Orderly, Program
  <2>2. text'["redisConf"] = text["redisConf"]
    BY <2>1, ChangesWrite, Credential
  <2>3. /\ text \in [Files -> [Credentials -> Values \cup {"none"}]]
        /\ phase[r] = "change"
    BY ChangesAdvance DEF RunsTyped, TypeOK, Texts
  <2>4. saved[r]["env"]["redis"] = text["env"]["redis"]
    BY <2>3 DEF Kept, Active
  <2>5. ASSUME NEW t \in {text, saved[r]}, text' = WithNew(r, Object(r), t[Object(r)])
        PROVE  text'["env"]["redis"] = text["env"]["redis"]
    <3>1. CASE Object(r) = "env"
      BY <2>3, <2>4, <2>5, <3>1, Credential DEF WithNew, AboutRedis
    <3>2. CASE Object(r) # "env"
      BY <2>3, <2>5, <3>2, Credential DEF WithNew
    <3>3. QED
      BY <3>1, <3>2
  <2>6. ASSUME text' = [text EXCEPT !["redisConf"] = [text["redisConf"] EXCEPT !["redis"] = live["redis"]]]
        PROVE  text'["env"]["redis"] = text["env"]["redis"]
    <3>1. \A f \in Files : f # "redisConf" => text'[f] = text[f]
      BY <2>3, <2>6
    <3>2. QED
      BY <3>1, Credential
  <2>9. text' \in {WithNew(r, Object(r), text[Object(r)]), WithNew(r, Object(r), saved[r][Object(r)])} =>
           text'["env"]["redis"] = text["env"]["redis"]
    BY <2>5
  <2>7. text'["env"]["redis"] = text["env"]["redis"]
    BY <2>6, <2>9, ChangesWrite
  <2>8. QED
    BY <2>2, <2>7
<1>5. /\ live' \in {live, Loaded(Object(r), text)} \/ \E v : live' = [live EXCEPT ![Object(r)] = v]
      /\ up' \in {up, up \cup {Object(r)}, up \ {Object(r)}}
  BY DEF Changes, Given, WriteFile, ReadEnv, WriteEnv, Ask, Rewrite, Restart
<1>6. live'["redis"] = live["redis"]
  <2>1. Loaded(Object(r), text)["redis"] = live["redis"]
    BY <1>2, <1>3, Credential DEF Loaded
  <2>2. \A v : [live EXCEPT ![Object(r)] = v]["redis"] = live["redis"]
    BY <1>2, <1>3, Credential
  <2>3. QED
    BY <1>5, <2>1, <2>2
<1>7. "redis" \in up' <=> "redis" \in up
  BY <1>2, <1>5
<1>8. \A s \in Runs : s # r => new'[s] = new[s]
  BY <1>3 DEF Changes, Given, WriteFile, ReadEnv, WriteEnv, Ask, Rewrite, Restart
<1>9. saved' \in {saved, [saved EXCEPT ![r][Object(r)] = text[Object(r)]]}
  BY DEF Changes, Given, WriteFile, ReadEnv, WriteEnv, Ask, Rewrite, Restart
<1>10. /\ \A s \in Runs : s # r => saved'[s] = saved[s]
       /\ saved'[r]["env"] \in {saved[r]["env"], text["env"]}
  BY <1>3, <1>9, Credential
<1>11. QED
  BY <1>4, <1>6, <1>7, <1>8, <1>10

LEMMA ChangesKnown ==
    ASSUME RotationInv, RedisInv, Quiet, NEW r \in Runs, Changes(r)
    PROVE  Known' /\ \A s \in Runs : Stage(s)' /\ Kept(s)'
<1>1. /\ RunsTyped /\ Met /\ Known /\ \A s \in Runs : Stage(s) /\ Kept(s)
  BY DEF RotationInv, RedisInv
<1>2. /\ phase[r] = "change" /\ phase'[r] \in {"change", "validate", "done"} /\ kind' = kind
      /\ \A s \in Runs : s # r => phase'[s] = phase[s] /\ at'[s] = at[s]
  BY <1>1, ChangesAdvance, AdvanceTyped
<1>3. CASE AboutRedis(kind[r])
  <2>1. kind[r] = "redis" /\ ~Dry(r) /\ r \notin mixed
    BY <1>2, <1>3 DEF Quiet
  <2>2. Known' /\ Stage(r)'
    BY <1>1, <2>1, RedisChanges
  <2>3. \A s \in Runs : s # r => phase'[s] \notin Active
    BY <1>1, <1>2, <2>1 DEF Met, InProgress, Active
  <2>4. \A s \in Runs : s # r => Stage(s)' /\ Kept(s)'
    BY <2>3 DEF Stage, Kept, Active
  <2>5. Kept(r)'
    BY <1>2, <1>3 DEF Kept
  <2>6. QED
    BY <2>2, <2>4, <2>5
<1>4. CASE ~AboutRedis(kind[r])
  <2>1. /\ text'["env"]["redis"] = text["env"]["redis"] /\ text'["redisConf"]["redis"] = text["redisConf"]["redis"]
        /\ live'["redis"] = live["redis"] /\ ("redis" \in up' <=> "redis" \in up)
        /\ \A s \in Runs : s # r => new'[s] = new[s] /\ saved'[s] = saved[s]
        /\ saved'[r]["env"] \in {saved[r]["env"], text["env"]}
    BY <1>1, <1>4, StrangeChanges
  <2>2. Known'
    <3>1. kind[r] # "redis"
      BY <1>4, Strangers
    <3>2. QED
      BY <1>1, <1>2, <2>1, <3>1 DEF Known
  <2>3. \A s \in Runs : s # r => Stage(s)' /\ Kept(s)'
    BY <1>1, <1>2, <2>1 DEF Stage, Kept
  <2>4. Stage(r)'
    BY <1>2, <1>4, Strangers DEF Stage
  <2>5. Kept(r)'
    BY <1>1, <1>2, <1>4, <2>1 DEF Kept, Active
  <2>6. QED
    BY <2>2, <2>3, <2>4, <2>5
<1>5. QED
  BY <1>3, <1>4

LEMMA RollbackKnown ==
    ASSUME RotationInv, RedisInv, Quiet, Quiet', NEW r \in Runs, Rollback(r)
    PROVE  Known' /\ \A s \in Runs : Stage(s)' /\ Kept(s)'
<1>1. /\ RunsTyped /\ Known /\ \A s \in Runs : Stage(s) /\ Kept(s)
  BY DEF RotationInv, RedisInv
<1>2. /\ phase[r] = "rollback" /\ phase' = [phase EXCEPT ![r] = "rolledback"]
      /\ UNCHANGED <<kind, at, new, saved, mixed>>
  BY <1>1, RollbackTyped
<1>3. phase'[r] = "rolledback" /\ \A s \in Runs : s # r => phase'[s] = phase[s]
  BY <1>1, <1>2 DEF RunsTyped, TypeOK
<1>4. ~AboutRedis(kind[r])
  BY <1>2, <1>3 DEF Quiet
<1>5. kind[r] \in Kinds \ {"redis", "all"} /\ "redisConf" \notin Restored(kind[r])
  BY <1>1, <1>4, Strangers DEF RunsTyped, TypeOK, Restored
<1>6. saved[r]["env"]["redis"] = text["env"]["redis"]
  BY <1>1, <1>2, <1>4 DEF Kept, Active
<1> DEFINE old == [f \in Files |-> IF f \in Restored(kind[r]) THEN saved[r][f] ELSE text[f]]
<1>7. text' \in {text, old} /\ live' \in {live, Loaded(kind[r], old)} /\ up' \in {up, up \cup {kind[r]}, up \ {kind[r]}}
  BY DEF Rollback
<1>8. text'["env"]["redis"] = text["env"]["redis"] /\ text'["redisConf"] = text["redisConf"]
  BY <1>5, <1>6, <1>7, Credential
<1>9. live'["redis"] = live["redis"]
  <2>1. live \in [Credentials -> Values]
    BY <1>1 DEF RunsTyped, TypeOK
  <2>. HIDE DEF old
  <2>2. Loaded(kind[r], old)["redis"] = live["redis"]
    BY <1>5, <2>1, Credential DEF Loaded
  <2>3. QED
    BY <1>7, <2>2
<1>10. "redis" \in up' <=> "redis" \in up
  BY <1>5, <1>7
<1>11. Known'
  BY <1>1, <1>2, <1>3, <1>8, <1>9 DEF Known
<1>12. \A s \in Runs : s # r => Stage(s)' /\ Kept(s)'
  BY <1>1, <1>2, <1>3, <1>8, <1>9, <1>10 DEF Stage, Kept
<1>13. Stage(r)' /\ Kept(r)'
  BY <1>3 DEF Stage, Kept, Active
<1>14. QED
  BY <1>11, <1>12, <1>13

LEMMA RedisInductive == ASSUME RotationInv, RedisInv, [Next]_vars PROVE RedisInv'
<1>. SUFFICES ASSUME Quiet' PROVE Known' /\ \A s \in Runs : Stage(s)' /\ Kept(s)'
  BY DEF RedisInv
<1>1. /\ Quiet /\ RunsTyped /\ Known /\ \A s \in Runs : Stage(s) /\ Kept(s)
  BY QuietBefore DEF RotationInv, RedisInv
<1>. phase \in [Runs -> Active \cup {"idle", "failed", "done", "rolledback", "dead"}]
  BY <1>1 DEF RunsTyped, TypeOK
<1>2. ASSUME NEW r \in Runs, NEW k \in Kinds, NEW option \in {"no", "before", "after"}, Start(r, k, option)
      PROVE  Known' /\ \A s \in Runs : Stage(s)' /\ Kept(s)'
  <2>1. /\ UNCHANGED <<text, live, up, at, new>> /\ phase'[r] = "change" /\ kind'[r] = k
        /\ saved'[r] = text /\ phase[r] = "idle" /\ Preflight(k)
        /\ \A s \in Runs : s # r => phase'[s] = phase[s] /\ kind'[s] = kind[s] /\ saved'[s] = saved[s]
    BY <1>1, <1>2 DEF Start, RunsTyped, TypeOK
  <2>2. at[r] = 1
    BY <1>1, <2>1 DEF RunsTyped
  <2>3. Known'
    BY <1>1, <2>1 DEF Known
  <2>4. \A s \in Runs : s # r => Stage(s)' /\ Kept(s)'
    BY <1>1, <2>1 DEF Stage, Kept
  <2>5. Stage(r)'
    BY <2>1, <2>2 DEF Stage, Preflight, RedisPreflight
  <2>6. Kept(r)'
    BY <2>1 DEF Kept
  <2>7. QED
    BY <2>3, <2>4, <2>5, <2>6
<1>3. ASSUME NEW r \in Runs, Changes(r) PROVE Known' /\ \A s \in Runs : Stage(s)' /\ Kept(s)'
  BY <1>1, <1>3, ChangesKnown
<1>4. ASSUME NEW r \in Runs, Turns(r) PROVE Known' /\ \A s \in Runs : Stage(s)' /\ Kept(s)'
  <2>1. PICK e \in {"failed", "done", "rollback", "dead"} : phase' = [phase EXCEPT ![r] = e]
    BY <1>4, TurnsOf
  <2>2. phase[r] \in Active /\ UNCHANGED <<text, up, kind, at, new, saved>>
    BY <1>4, TurnsOf
  <2>4. live'["redis"] = live["redis"]
    <3>1. live \in [Credentials -> Values] /\ live' \in {live, [live EXCEPT !["db"] = new[r]]}
      BY <1>1, <1>4, TurnsOf DEF RunsTyped, TypeOK
    <3>2. QED
      BY <3>1, Credential
  <2>3. /\ phase'[r] # "change" /\ phase[r] \in Active
        /\ \A s \in Runs : s # r => phase'[s] = phase[s]
    BY <2>1, <2>2
  <2>5. phase'[r] # "idle"
    BY <2>1
  <2>6. QED
    BY <1>1, <2>2, <2>3, <2>4, <2>5 DEF Known, Stage, Kept
<1>5. ASSUME NEW r \in Runs, Rollback(r) PROVE Known' /\ \A s \in Runs : Stage(s)' /\ Kept(s)'
  BY <1>1, <1>5, RollbackKnown
<1>6. CASE UNCHANGED vars
  BY <1>1, <1>6 DEF vars, runVars, Known, Stage, Kept
<1>7. QED
  BY <1>2, <1>3, <1>4, <1>5, <1>6 DEF Next, Changes, Turns

(* Wherever its rotation is interrupted, the password Redis asks for is        *)
(* written in redis.conf or in .env, or both have that of a run, which Redis   *)
(* asks for once it is restarted (RedisRotation.change).                       *)
THEOREM PasswordKnown == Spec => []RedisKnown
<1>1. Init => RedisInv
  <2>. SUFFICES ASSUME Init PROVE Known /\ \A r \in Runs : Stage(r) /\ Kept(r)
    BY DEF RedisInv
  <2>1. \A r \in Runs : phase[r] = "idle"
    BY DEF Init
  <2>2. live["redis"] = First /\ text["env"]["redis"] = First
    BY Credential DEF Init
  <2>3. QED
    BY <2>1, <2>2 DEF Known, Stage, Kept, Active
<1>2. RedisInv => RedisKnown
  BY DEF RedisInv, RedisKnown, Quiet, AboutRedis, Known
<1>3. QED
  BY <1>1, <1>2, InitRotation, RotationInductive, RedisInductive, PTL DEF Spec
=============================================================================
