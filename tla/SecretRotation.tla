--------------------------- MODULE SecretRotation ---------------------------
(***************************************************************************)
(* The rotation of secrets (scripts/rotate-secrets, scripts/rotate/).      *)
(* Every kind of credential has a class that goes through preflight,       *)
(* backup, change, validation and, when the validation fails, rollback.    *)
(* What it changes are lines of text files, which several kinds share, and *)
(* the server that takes the credential. The older scripts/rotate-secrets.py  *)
(* is the kind "all": it writes and restarts everything and validates      *)
(* nothing.                                                                *)
(*                                                                         *)
(* A run is a process started by hand. It can die anywhere, every write    *)
(* can raise, and two runs can be in progress at once. One instance is     *)
(* modelled, and the one row of identities.db that the API key concerns.   *)
(* An env file, which has lines of several credentials, is read in one step *)
(* and written as a whole in another, without a lock. In a file of one     *)
(* credential nothing can be lost in between, so it is written in one.     *)
(***************************************************************************)
EXTENDS Naturals, Sequences

CONSTANTS
    Runs,   \* runs of the scripts; a run stands for the secrets it makes, too
    First,  \* the secrets of the installation
    Typo    \* a secret the operator typed wrong, in the right format

ASSUME RotationAssumption ==
    First # Typo /\ First \notin Runs /\ Typo \notin Runs /\ "none" \notin Runs \cup {First, Typo}

VARIABLES
    text,   \* text[f][l]: the secret in line l of file f
    live,   \* live[l]: the secret that its server takes
    up,     \* services that are active
    phase,  \* phase[r]: where run r is
    kind,   \* kind[r]: what it rotates
    asked,  \* asked[r]: whether, and on which side of the command, --dry-run was given
    at,     \* at[r]: the next step of its change
    new,    \* new[r]: the secret it writes
    saved,  \* saved[r]: BackupInfo.files
    wasUp,  \* wasUp[r]: the services that were active at its backup
    before, \* before[r]: the files when it began
    mixed,  \* runs that were in progress together with another
    overtaken \* runs that had read an env file and not written it yet when another wrote it

runVars == <<phase, kind, asked, at, new, saved, wasUp>>
vars    == <<text, live, up, runVars, before, mixed, overtaken>>

Lines == [ env        |-> {"redis", "internal", "tunnel"},
           inst       |-> {"token", "hook", "db", "apikey"},
           redisConf  |-> {"redis"},
           confPhp    |-> {"db"},
           tokenFile  |-> {"tunnel"},
           identities |-> {"apikey"} ]
Files       == DOMAIN Lines
Credentials == Lines.env \cup Lines.inst
Services    == {"redis", "internal", "tunnel"}
Kinds       == Credentials \cup {"all"}
Values      == Runs \cup {First, Typo}

Texts == {t \in [Files -> [Credentials -> Values \cup {"none"}]] :
             \A f \in Files, l \in Credentials : t[f][l] = "none" <=> l \notin Lines[f]}

\* Mutated: CONFIG SET before the configuration file is written.
RedisAsksFirst ==
    [ concerns |-> {"redis"}, backup |-> {"env", "redisConf"},
      steps |-> << <<"ask", "redis">>, <<"write", "redisConf">>, <<"rewrite", "redis">>,
                   <<"read", "env">>, <<"env", "env">>, <<"restart", "redis">> >> ]

\* A class of rotation: the lines it is about, the files of its backup method, and the steps of its
\* change method: what is done, to which file, server or service.
RedisRotation ==
    [ concerns |-> {"redis"}, backup |-> {"env", "redisConf"},
      steps |-> << <<"write", "redisConf">>, <<"ask", "redis">>, <<"rewrite", "redis">>,
                   <<"read", "env">>, <<"env", "env">>, <<"restart", "redis">> >> ]

InternalSecretsRotation ==
    [ concerns |-> {"internal"}, backup |-> {"env"},
      steps |-> << <<"read", "env">>, <<"env", "env">>, <<"restart", "internal">> >> ]

CloudflareRotation ==
    [ concerns |-> {"tunnel"}, backup |-> {"tokenFile", "env"},
      steps |-> << <<"given", "tunnel">>, <<"write", "tokenFile">>, <<"read", "env">>, <<"env", "env">>,
                   <<"restart", "tunnel">> >> ]

DolibarrDbPasswordRotation ==
    [ concerns |-> {"db"}, backup |-> {"inst", "confPhp"},
      steps |-> << <<"ask", "db">>, <<"read", "inst">>, <<"env", "inst">>, <<"write", "confPhp">> >> ]

TelegramRotation ==
    [ concerns |-> {"token"}, backup |-> {"inst"},
      steps |-> << <<"given", "token">>, <<"read", "inst">>, <<"env", "inst">> >> ]

WebhookSecretRotation ==
    [ concerns |-> {"hook"}, backup |-> {"inst"},
      steps |-> << <<"read", "inst">>, <<"env", "inst">>, <<"ask", "hook">> >> ]

DolibarrUserApiKeyRotation ==
    [ concerns |-> {"apikey"}, backup |-> {"inst", "identities"},
      steps |-> << <<"given", "apikey">>, <<"read", "inst">>, <<"env", "inst">>, <<"write", "identities">> >> ]

\* The older script, without a backup. It asks Redis without a password, which changes nothing.
OlderScript ==
    [ concerns |-> Credentials \ {"tunnel"}, backup |-> {},
      steps |-> << <<"read", "env">>, <<"env", "env">>, <<"read", "inst">>, <<"env", "inst">>, <<"ask", "db">>,
                   <<"restart", "redis">>, <<"restart", "internal">> >> ]

Class == [ redis  |-> RedisRotation,          internal |-> InternalSecretsRotation,
           tunnel |-> CloudflareRotation,     db       |-> DolibarrDbPasswordRotation,
           token  |-> TelegramRotation,       hook     |-> WebhookSecretRotation,
           apikey |-> DolibarrUserApiKeyRotation, all  |-> OlderScript ]

Concerns(k) == Class[k].concerns
Program(k)  == Class[k].steps

Active == {"change", "validate", "rollback"}
InProgress == {r \in Runs : phase[r] \in Active}

\* The option before the command is parsed, and then reset by the default of the subcommand's own.
Dry(r) == asked[r] = "after"

Init ==
    /\ text   = [f \in Files |-> [l \in Credentials |-> IF l \in Lines[f] THEN First ELSE "none"]]
    /\ live   = [l \in Credentials |-> First]
    /\ up     = Services
    /\ phase  = [r \in Runs |-> "idle"]
    /\ kind   = [r \in Runs |-> "all"]
    /\ asked  = [r \in Runs |-> "no"]
    /\ at     = [r \in Runs |-> 1]
    /\ new    = [r \in Runs |-> r]
    /\ saved  = [r \in Runs |-> text]
    /\ wasUp  = [r \in Runs |-> Services]
    /\ before = [r \in Runs |-> text]
    /\ mixed  = {}
    /\ overtaken = {}

-----------------------------------------------------------------------------
(* Preflight and backup. What is checked of files that exist is left out. *)

RedisPreflight   == "redis" \in up /\ text.env.redis = live.redis
WebhookPreflight == "internal" \in up

Preflight(k) == (k = "redis" => RedisPreflight) /\ (k = "hook" => WebhookPreflight)

Start(r, k, option) ==
    /\ phase[r] = "idle"
    /\ k = "all" => option = "no"
    /\ Preflight(k)
    /\ phase'  = [phase EXCEPT ![r] = "change"]
    /\ kind'   = [kind EXCEPT ![r] = k]
    /\ asked'  = [asked EXCEPT ![r] = option]
    /\ saved'  = [saved EXCEPT ![r] = text]
    /\ wasUp'  = [wasUp EXCEPT ![r] = up]
    /\ before' = [before EXCEPT ![r] = text]
    /\ mixed'  = IF InProgress = {} THEN mixed ELSE mixed \cup InProgress \cup {r}
    /\ UNCHANGED <<text, live, up, at, new, overtaken>>

-----------------------------------------------------------------------------
(* Change. *)

Doing(r, op) == phase[r] = "change" /\ Program(kind[r])[at[r]][1] = op
Object(r)    == Program(kind[r])[at[r]][2]

\* On to the next step, or to the validation, which the older script does not have.
Advance(r) ==
    IF at[r] < Len(Program(kind[r]))
    THEN at' = [at EXCEPT ![r] = @ + 1] /\ UNCHANGED phase
    ELSE /\ phase' = [phase EXCEPT ![r] = IF kind[r] = "all" THEN "done" ELSE "validate"]
         /\ UNCHANGED at

\* File f as t, with the lines of the run overwritten.
WithNew(r, f, t) ==
    [text EXCEPT ![f] = [l \in Credentials |-> IF l \in Lines[f] \cap Concerns(kind[r]) THEN new[r] ELSE t[l]]]

\* Whoever has read a file that run r changes will put the old lines back.
Overtaking(r) ==
    overtaken' = overtaken \cup {s \in Runs \ {r} : Doing(s, "env") /\ text'[Object(s)] # text[Object(s)]}

\* The operator regenerates the secret at its issuer and types it, right or wrong.
Given(r) ==
    /\ Doing(r, "given")
    /\ \E v \in {r, Typo} : new' = [new EXCEPT ![r] = v]
    /\ \/ live' = [live EXCEPT ![Object(r)] = r]
       \/ Dry(r) /\ UNCHANGED live
    /\ Advance(r)
    /\ UNCHANGED <<text, up, kind, asked, saved, wasUp, before, mixed, overtaken>>

\* A file that is not an env file; the row of identities.db may not be there.
WriteFile(r) ==
    /\ Doing(r, "write")
    /\ IF Dry(r) THEN UNCHANGED text
       ELSE \/ text' = WithNew(r, Object(r), text[Object(r)])
            \/ Object(r) = "identities" /\ UNCHANGED text
    /\ Advance(r)
    /\ UNCHANGED <<live, up, kind, asked, new, saved, wasUp, before, mixed, overtaken>>

\* A dry run writes the env files as well, but for the internal secrets.
Spared(r) == Dry(r) /\ kind[r] = "internal"

\* Mutated: what is written is the copy of the backup method.
ReadEnvOnce(r) ==
    /\ Doing(r, "read")
    /\ Advance(r)
    /\ UNCHANGED <<text, live, up, kind, asked, new, saved, wasUp, before, mixed, overtaken>>

\* update_env_file takes the whole file, into the backup once more and into the lines it works on.
ReadEnv(r) ==
    /\ Doing(r, "read")
    /\ saved' = IF Spared(r) THEN saved ELSE [saved EXCEPT ![r][Object(r)] = text[Object(r)]]
    /\ Advance(r)
    /\ UNCHANGED <<text, live, up, kind, asked, new, wasUp, before, mixed, overtaken>>

\* Mutated: the backup is renewed after the file was written.
WriteEnvThenSave(r) ==
    /\ Doing(r, "env")
    /\ IF Spared(r) THEN UNCHANGED <<text, saved>>
       ELSE /\ text'  = WithNew(r, Object(r), saved[r][Object(r)])
            /\ saved' = [saved EXCEPT ![r][Object(r)] = text'[Object(r)]]
    /\ Advance(r)
    /\ Overtaking(r)
    /\ UNCHANGED <<live, up, kind, asked, new, wasUp, before, mixed>>

\* It writes what it read, with its own lines overwritten.
WriteEnv(r) ==
    /\ Doing(r, "env")
    /\ text' = IF Spared(r) THEN text ELSE WithNew(r, Object(r), saved[r][Object(r)])
    /\ Advance(r)
    /\ Overtaking(r)
    /\ UNCHANGED <<live, up, kind, asked, new, saved, wasUp, before, mixed>>

\* Who must be asked with what: Redis with the password of .env, Telegram with the token of
\* instance.env, and MariaDB as root.
Admitted(l) ==
    /\ l = "redis" => ("redis" \in up /\ text.env.redis = live.redis)
    /\ l = "hook"  => text.inst.token = live.token

\* CONFIG SET, setWebhook and ALTER USER. The first two go on whatever came of them, as "all" does with
\* the last.
Ask(r) ==
    /\ Doing(r, "ask")
    /\ \/ ~Dry(r) /\ Admitted(Object(r)) /\ live' = [live EXCEPT ![Object(r)] = new[r]]
       \/ (Dry(r) \/ Object(r) # "db" \/ kind[r] = "all") /\ UNCHANGED live
    /\ Advance(r)
    /\ UNCHANGED <<text, up, kind, asked, new, saved, wasUp, before, mixed, overtaken>>

\* CONFIG REWRITE, with the new password; a failure is passed over, too.
Rewrite(r) ==
    /\ Doing(r, "rewrite")
    /\ \/ /\ ~Dry(r) /\ "redis" \in up /\ live.redis = new[r]
          /\ text' = [text EXCEPT !.redisConf.redis = live.redis]
       \/ UNCHANGED text
    /\ Advance(r)
    /\ UNCHANGED <<live, up, kind, asked, new, saved, wasUp, before, mixed, overtaken>>

\* What a service takes when it starts: Redis what its configuration says, Hermes what .env says.
Loaded(s, t) ==
    [live EXCEPT ![s] = CASE s = "redis" -> t.redisConf.redis
                          [] s = "internal" -> t.env.internal
                          [] OTHER -> @]

\* The service comes up again, or not.
Restart(r) ==
    /\ Doing(r, "restart")
    /\ \/ ~Dry(r) /\ up' = up \cup {Object(r)} /\ live' = Loaded(Object(r), text)
       \/ ~Dry(r) /\ up' = up \ {Object(r)} /\ UNCHANGED live
       \/ Dry(r) /\ UNCHANGED <<up, live>>
    /\ Advance(r)
    /\ UNCHANGED <<text, kind, asked, new, saved, wasUp, before, mixed, overtaken>>

\* A file cannot be read or written, or MariaDB refuses or goes away after the change: run wraps the
\* exception and leaves everything as it is.
ChangeFails(r) ==
    /\ phase[r] = "change"
    /\ \/ Program(kind[r])[at[r]][1] \in {"write", "read", "env"} /\ UNCHANGED live
       \/ /\ Program(kind[r])[at[r]] = <<"ask", "db">> /\ kind[r] = "db" /\ ~Dry(r)
          /\ live' \in {live, [live EXCEPT !.db = new[r]]}
    /\ phase' = [phase EXCEPT ![r] = "failed"]
    /\ UNCHANGED <<text, up, kind, asked, at, new, saved, wasUp, before, mixed, overtaken>>

-----------------------------------------------------------------------------
(* Validation and rollback. *)

\* Mutated: a token that can be read from the file is taken for valid.
TelegramUnasked == text.inst.token # "none"

\* What the validate methods find when nothing else is wrong.
RedisValid    == text.env.redis = live.redis /\ "redis" \in up
DbValid       == text.inst.db = live.db
TelegramValid == text.inst.token = live.token
WebhookValid  == text.inst.token = live.token
ApiKeyValid   == text.inst.apikey = live.apikey /\ text.identities.apikey = text.inst.apikey
InternalValid == "internal" \in up
TunnelValid   == "tunnel" \in up

Valid(k) == [ redis |-> RedisValid,     db       |-> DbValid,       token  |-> TelegramValid,
              hook  |-> WebhookValid,   internal |-> InternalValid, tunnel |-> TunnelValid,
              apikey |-> ApiKeyValid ][k]

\* A dry run skips the validation, but for the API key and the internal secrets.
Skipped(r) == Dry(r) /\ kind[r] \notin {"apikey", "internal"}

Validates(r) ==
    /\ phase[r] = "validate"
    /\ Skipped(r) \/ Valid(kind[r])
    /\ phase' = [phase EXCEPT ![r] = "done"]
    /\ UNCHANGED <<text, live, up, kind, asked, at, new, saved, wasUp, before, mixed, overtaken>>

\* The check finds something wrong, or cannot be made.
ValidationFails(r) ==
    /\ phase[r] = "validate"
    /\ ~Skipped(r)
    /\ phase' = [phase EXCEPT ![r] = "rollback"]
    /\ UNCHANGED <<text, live, up, kind, asked, at, new, saved, wasUp, before, mixed, overtaken>>

\* The files that rollback writes back: the bytes of identities.db are no text, and write_text raises.
Restored(k) == Class[k].backup \ {"identities"}

\* The whole files are written back; a service that was active is started, which does
\* nothing if it is; a dry run says what it would do.
Rollback(r) ==
    /\ phase[r] = "rollback"
    /\ phase' = [phase EXCEPT ![r] = "rolledback"]
    /\ IF Dry(r) THEN UNCHANGED <<text, live, up>>
       ELSE LET old == [f \in Files |-> IF f \in Restored(kind[r]) THEN saved[r][f] ELSE text[f]]
                s   == kind[r]
            IN /\ text' = old
               /\ \/ s \in Services \cap wasUp[r] /\ s \in up /\ UNCHANGED <<up, live>>
                  \/ /\ s \in Services \cap wasUp[r] /\ s \notin up
                     /\ \/ up' = up \cup {s} /\ live' = Loaded(s, old)
                        \/ UNCHANGED <<up, live>>
                  \/ s \in Services \ wasUp[r] /\ up' = up \ {s} /\ UNCHANGED live
                  \/ s \notin Services /\ UNCHANGED <<up, live>>
    /\ Overtaking(r)
    /\ UNCHANGED <<kind, asked, at, new, saved, wasUp, before, mixed>>

\* The script is interrupted: nothing is undone.
Dies(r) ==
    /\ phase[r] \in Active
    /\ phase' = [phase EXCEPT ![r] = "dead"]
    /\ UNCHANGED <<text, live, up, kind, asked, at, new, saved, wasUp, before, mixed, overtaken>>

Next ==
    \E r \in Runs :
        \/ \E k \in Kinds, option \in {"no", "before", "after"} : Start(r, k, option)
        \/ Given(r) \/ WriteFile(r) \/ ReadEnv(r) \/ WriteEnv(r) \/ Ask(r) \/ Rewrite(r) \/ Restart(r)
        \/ ChangeFails(r) \/ Validates(r) \/ ValidationFails(r) \/ Rollback(r) \/ Dies(r)

Spec == Init /\ [][Next]_vars

-----------------------------------------------------------------------------
(* Properties. *)

\* Files hold secrets in the lines they have, and every run is somewhere in the program of its kind.
TypeOK ==
    /\ text \in Texts
    /\ live \in [Credentials -> Values]
    /\ up \subseteq Services
    /\ phase \in [Runs -> Active \cup {"idle", "failed", "done", "rolledback", "dead"}]
    /\ kind \in [Runs -> Kinds]
    /\ asked \in [Runs -> {"no", "before", "after"}]
    /\ at \in [Runs -> Nat]
    /\ \A r \in Runs : at[r] \in 1..Len(Program(kind[r]))
    /\ new \in [Runs -> Values]
    /\ saved \in [Runs -> Texts]
    /\ wasUp \in [Runs -> SUBSET Services]
    /\ before \in [Runs -> Texts]
    /\ mixed \subseteq Runs
    /\ overtaken \subseteq Runs

Moves(r) == phase'[r] # phase[r] \/ at'[r] # at[r]

\* Every file that has line l has the same secret in it, and its server takes it where validate
\* asks the server.
Whole(l) ==
    /\ \A f, g \in Files : l \in Lines[f] \cap Lines[g] => text[f][l] = text[g][l]
    /\ l \in {"redis", "db", "token", "apikey"} =>
          \A f \in Files : l \in Lines[f] => text[f][l] = live[l]

\* A run that reports success, was no dry run and met no other, leaves one secret everywhere: in all
\* the files, and in the server if the validation asks it (run and the validate methods).
SuccessIsWhole ==
    [][\A r \in Runs :
          phase[r] = "validate" /\ phase'[r] = "done" /\ ~Dry(r) /\ r \notin mixed
          => Whole(kind[r])']_vars

\* A run that met no other and is rolled back leaves every file as it found it, but for identities.db
\* (RotationBase.rollback with the backup that update_env_file renews).
RollbackRestores ==
    [][\A r \in Runs :
          phase[r] = "rollback" /\ phase'[r] = "rolledback" /\ ~Dry(r) /\ r \notin mixed
          => \A f \in Files \ {"identities"} : text'[f] = before[r][f]]_vars

\* "One credential, one isolated operation": a run changes lines of its own credential only. The
\* exceptions are a run whose env file another wrote after it had read it, and the rollback of a run
\* that met another: both put whole files back.
OthersKept ==
    [][\A f \in Files, l \in Credentials :
          text'[f][l] # text[f][l] =>
              \E r \in Runs : /\ Moves(r)
                              /\ \/ l \in Concerns(kind[r])
                                 \/ phase[r] = "change" /\ r \in overtaken
                                 \/ phase[r] = "rollback" /\ r \in mixed]_vars

\* Wherever its runs die, the password Redis asks for is written in redis.conf or in .env, or both have
\* the password of a run, which Redis asks for once it is restarted: CONFIG SET may have failed, which
\* nobody looks at. This is so as long as the runs are no dry runs, do not meet, are not rolled back
\* and the older script is left alone (RedisRotation.change).
RedisKnown ==
    (\A r \in Runs : phase[r] # "idle" /\ "redis" \in Concerns(kind[r]) =>
        kind[r] = "redis" /\ ~Dry(r) /\ r \notin mixed /\ phase[r] # "rolledback")
    => \/ live.redis \in {text.redisConf.redis, text.env.redis}
       \/ \E r \in Runs : kind[r] = "redis" /\ text.redisConf.redis = new[r] /\ text.env.redis = new[r]

\* "DRY RUN MODE - No changes will be made" (base.py:169), "Simular sin hacer cambios reales".
DryRunHarmless ==
    [][\A r \in Runs : Moves(r) /\ asked[r] # "no" /\ ~Doing(r, "given")
          => UNCHANGED <<text, live, up>>]_vars
=============================================================================
