-------------------------------- MODULE Config --------------------------------
(***************************************************************************)
(* config.go: what Load makes of the file and of the environment.          *)
(*                                                                         *)
(* A file is a record of the fields of type Config that the rest of the    *)
(* program looks at, a missing one being "" or 0; an environment maps a    *)
(* variable to its text, "" if it is not set, but METRICS_PORT to the set  *)
(* of the number that strconv.Atoi finds there, {} if it finds none.       *)
(* Durations are in seconds.  Reading and parsing the file are left out:   *)
(* they fail, or they do not.                                              *)
(***************************************************************************)
EXTENDS Integers, Sequences

Rejected == [accepted |-> FALSE]

\* Overridden by the variable unless it is empty.
Override(text, field) == IF text # "" THEN text ELSE field

ApplyEnvOverrides(env, c) ==
    [c EXCEPT !.url = Override(env.RPC_URL, @),
              !.port = IF env.METRICS_PORT = {} THEN @ ELSE CHOOSE n \in env.METRICS_PORT : TRUE,
              !.level = Override(env.LOG_LEVEL, @),
              !.enabled = IF env.NOTIFY_ENABLED # "" THEN env.NOTIFY_ENABLED \in {"true", "1"}
                          ELSE @]

Defaults(c) ==
    [c EXCEPT !.requestTimeout = IF @ = 0 THEN 30 ELSE @,
              !.callConcurrency = IF @ <= 0 THEN 8 ELSE @,
              !.port = IF @ = 0 THEN 8080 ELSE @,
              !.path = Override(@, "/metrics"),
              !.quickInterval = IF @ = 0 THEN 3600 ELSE @,
              !.dailyAtUTC = Override(@, "00:00")]

VersionComplete(v) == v.name # "" /\ v.dataStore # "" /\ v.roleStore # ""

Valid(c) ==
    /\ c.url # ""
    /\ c.versions # <<>>
    /\ \A i \in DOMAIN c.versions : VersionComplete(c.versions[i])

\* Mutated form: what is required is looked for before the environment is.
LoadValidatesFirst(file, env) ==
    IF Valid(file) THEN [accepted |-> TRUE, cfg |-> Defaults(ApplyEnvOverrides(env, file))]
    ELSE Rejected

\* main exits if the configuration is refused.
Load(file, env) ==
    LET c == ApplyEnvOverrides(env, file)
    IN IF Valid(c) THEN [accepted |-> TRUE, cfg |-> Defaults(c)] ELSE Rejected

SlackWebhookURL(c, env) == IF c.slackWebhookEnv = "" THEN "" ELSE env[c.slackWebhookEnv]

=============================================================================
