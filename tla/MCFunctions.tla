----------------------------- MODULE MCFunctions -----------------------------
(***************************************************************************)
(* The pure functions of the program against what they are meant to        *)
(* compute: decoding of replies (Codec), keys (Keys), the configuration    *)
(* (Config), the digest (Digest) and the series of the metrics (TaskPlans  *)
(* and Metrics).  A behaviour asks for one result after the other: each    *)
(* action picks the input of one function, and each property looks at one. *)
(***************************************************************************)
EXTENDS Integers, Sequences, FiniteSets, SequencesExt, Keys, Config, Digest, Metrics

Names == [MIN_COLLATERAL_FACTOR       |-> <<1>>,
          MAX_OPEN_INTEREST           |-> <<1, 1>>,
          POOL_AMOUNT                 |-> <<2, 1, 1>>,
          MAX_POOL_AMOUNT             |-> <<1, 2, 1, 1>>,
          OPEN_INTEREST               |-> <<1, 2, 1, 1, 3>>,
          BORROWING_FACTOR            |-> <<2, 1>>,
          LIQUIDATION_FEE_FACTOR      |-> <<3>>,
          CLAIMABLE_FEE_AMOUNT        |-> <<1, 2, 1, 2>>,
          FUNDING_FEE_AMOUNT_PER_SIZE |-> <<1, 2, 1, 1, 1>>,
          MAX_ORACLE_PRICE_AGE        |-> <<1, 2, 1, 1, 3, 1>>,
          ORDER_LIST                  |-> <<3, 3>>,
          DEPOSIT_LIST                |-> <<3, 1>>,
          WITHDRAWAL_LIST             |-> <<1, 3>>,
          POSITION_LIST               |-> <<3, 3, 3>>,
          MARKET_LIST                 |-> <<1, 2, 1, 1, 3, 1, 1, 1, 2>>,
          CREATE_ORDER_FEATURE_DISABLED |-> <<2, 2>>,
          CANCEL_ORDER_FEATURE_DISABLED |-> <<1, 2, 1, 1, 3, 1, 1, 1, 3>>]

\* The configuration of module TaskPlans, but for the versions, and the tasks of main.
CONSTANTS Vaults, Markets, Timelocks, Handlers, UsdtSet, RoleNames, Keepers, FeatureNames,
          Feeds, Tasks

TaskNames == {"vault_balances", "roles", "timelock", "market_params", "fees", "funding",
              "keeper_gas", "features", "queue", "market_oi", "oracle_config", "chainlink"}

\* Lists are lists, and main.go builds no task twice.
ASSUME SeriesAssumption ==
    /\ Tasks \in Seq(TaskNames) /\ Tasks # <<>> /\ IsInjective(Tasks)
    /\ RoleNames \in Seq(STRING) /\ FeatureNames \in Seq(STRING)

\* A small configuration.
AllTasks == <<"vault_balances", "roles", "timelock", "market_params", "fees", "funding",
              "keeper_gas", "features", "queue", "market_oi", "oracle_config", "chainlink">>
Both(things) == [v \in {"v1", "v2"} |-> things]
SomeVaults == Both({"OrderVault", "FeeDistributorVault"})
SomeMarkets == Both({"BTC"})
SomeTimelocks == Both({"gov"})
SomeHandlers == Both({"OrderHandler"})
SomeRoles == <<"CONTROLLER">>
SomeFeatures == <<"CREATE_ORDER_FEATURE_DISABLED">>

VARIABLES fun, arg      \* the function asked for, and its argument
vars == <<fun, arg>>

T == INSTANCE TaskPlans WITH Versions <- arg

Ask(f, a) == fun' = f /\ arg' = a

-----------------------------------------------------------------------------
(* The inputs.                                                              *)

MaxWord == Pow(Word) - 1

\* Zero, small offsets and lengths, the largest of a uint64 and beyond.
Words == {0, 1, 2, Word, Pow(Small) \div Word, Pow(Small) - Word, Pow(Small) - 1,
          Pow(Small) + Word, MaxWord}

Replies(n) ==
    {BytesToHex(FlattenSeq([i \in 1..n |-> Bytes(w[i], Word)])) : w \in [1..n -> Words]}

Spoil(text, i) == [text EXCEPT ![i] = NoDigit]

AskNumber == \E n \in (-(MaxWord + 1) \div 2)..MaxWord : Ask("number", n)
AskAddresses == \E a \in BoundedSeq({0, 1, 6, 15}, 3) : Ask("addresses", a)
AskReply ==
    \E n \in 0..4 : \E text \in Replies(n) :
        \/ Ask("reply", text)
        \/ text # <<>> /\ Ask("reply", Front(text))
        \/ text # <<>> /\ Ask("reply", Spoil(text, Len(text) - 1))

ListNames == {"ORDER_LIST", "DEPOSIT_LIST", "WITHDRAWAL_LIST", "POSITION_LIST", "MARKET_LIST"}
TwoFeatures == {"CREATE_ORDER_FEATURE_DISABLED", "CANCEL_ORDER_FEATURE_DISABLED"}

\* Every kind of value that a task looks up in the DataStore.
Lookups ==
    {<<k, m>> : k \in {"minCollateral", "liquidationFee"}, m \in {1, 6}}
    \cup {<<k, m, side>> : k \in {"maxOI", "borrowing"}, m \in {1, 6}, side \in BOOLEAN}
    \cup {<<k, m, 7>> : k \in {"pool", "maxPool", "claimable"}, m \in {1, 6}}
    \cup {<<k, m, 7, side>> : k \in {"oi", "funding"}, m \in {1, 6}, side \in BOOLEAN}
    \cup {<<"feature", c>> : c \in TwoFeatures}
    \cup {<<"feature", c, h>> : c \in TwoFeatures, h \in {1, 6}}
    \cup {<<"list", c>> : c \in ListNames} \cup {<<"maxPriceAge">>}

AskKeys == \E a, b \in Lookups : Ask("keys", <<a, b>>)
AskName == \E s \in BoundedSeq({1, 2}, 2 * Word + 1) : Ask("name", s)

\* Left out, or so.
Either(text) == {"", text}
Times == Either("06:30")
Ports == {{}, {0}, {7070}}

VersionEntries == [name : Either("v1"), dataStore : {"0x1"}, roleStore : Either("0x2")]
Files ==
    [url : Either("http"), requestTimeout : {-1, 0, 5}, callConcurrency : {-1, 0, 3},
     port : {0, 9090}, path : Either("/m"), quickInterval : {-1, 0, 60}, dailyAtUTC : Times,
     level : {"info"}, enabled : {TRUE}, slackWebhookEnv : {"HOOK"},
     versions : {<<>>} \cup {<<v>> : v \in VersionEntries}]
Environments ==
    [RPC_URL : Either("https"), METRICS_PORT : Ports, LOG_LEVEL : Either("WARN"),
     NOTIFY_ENABLED : {"", "1", "no"}, HOOK : {"hook"}]

AskConfig == \E f \in Files, e \in Environments : Ask("config", <<f, e>>)

\* What RunAll returns for these versions and that many tasks.
RunReports(versions, tasks, contents) ==
    FlattenSeq([i \in DOMAIN versions |->
        [t \in 1..tasks |->
            [version |-> versions[i], task |-> t,
             lines |-> contents[i][t][1], findings |-> contents[i][t][2]]]])

AskDigest ==
    \E vs \in BoundedSeq({"v1", "v2"}, 3), tasks \in 1..2 :
        /\ Len(vs) + tasks <= 4
        /\ \E c \in [DOMAIN vs -> [1..tasks -> {<<>>, <<"l">>} \X {<<>>, <<"f">>, <<"f", "g">>}]] :
               Ask("digest", RunReports(vs, tasks, c))

AskSeries == \E vs \in BoundedSeq({"v1", "v2"}, 2) : Ask("series", vs)

-----------------------------------------------------------------------------

Init == fun = "none" /\ arg = <<>>

Next ==
    \/ /\ fun = "none"
       /\ \/ AskNumber \/ AskAddresses \/ AskReply \/ AskKeys \/ AskName
          \/ AskConfig \/ AskDigest \/ AskSeries
    \/ fun # "none" /\ Ask("none", <<>>)

Spec == Init /\ [][Next]_vars

-----------------------------------------------------------------------------
(* Properties.                                                              *)

Decoded(bytes) == HexToBytes(BytesToHex(bytes))
Word0(n) == Decoded(Bytes(n, Word))

\* client.go: a number that the contract returns is the number the task gets: as a
\* signed one, as an unsigned one, as a uint64 if it is one, as a bool, as the fourth
\* word of a feed's answer.  A uint64 in a request is the number meant.
NumbersSurvive ==
    fun = "number" =>
        /\ 2 * arg <= MaxWord => GetInt(Word0((arg + MaxWord + 1) % (MaxWord + 1))) = arg
        /\ arg >= 0 => /\ GetUint(Word0(arg)) = arg
                       /\ Number(PadUint(arg)) = arg
        /\ arg \in 0..(Pow(Small) - 1) =>
              /\ GetCount(Word0(arg)) = arg
              /\ LatestUpdatedAt(PadUint(1) \o PadUint(2) \o PadUint(3)
                                   \o Word0(arg) \o PadUint(5)) = <<arg>>
        /\ arg \in {0, 1} => GetBool(Word0(arg)) = (arg = 1)

Encoded(addresses) ==
    Bytes(Word, Word) \o Bytes(Len(addresses), Word)
    \o FlattenSeq([i \in DOMAIN addresses |-> Bytes(addresses[i], Word)])

\* client.go: the members that the RoleStore returns are the members the task gets.
ArraysSurvive ==
    fun = "addresses" => DecodeAddressArray(Decoded(Encoded(arg))) = arg

SlotsOf(out) ==
    {Number(SubSeq(out, i + Word - Addr + 1, i + Word)) : i \in 0..(Len(out) - Word)}

\* client.go: no reply, however it is broken, becomes a value it does not hold.  A text
\* that is no hex gives nothing: 0, false, no members, an error for a feed.  Addresses
\* are cut out of the reply, as many as it says; if the sizes it says pass 2^64, and
\* only then, decoding may end in a panic.
NothingInvented ==
    fun = "reply" =>
        LET out == HexToBytes(arg)
            res == DecodeAddressArray(out)
            word(i) == Number(SubSeq(out, i + 1, i + Word)) % Pow(Small)
            huge == \/ word(0) + Word >= Pow(Small)
                    \/ word(word(0)) * Word >= Pow(Small)
        IN /\ Len(arg) % 2 = 1 \/ NoDigit \in ToSet(arg) =>
                 /\ GetUint(out) = 0 /\ GetInt(out) = 0 /\ GetCount(out) = 0
                 /\ ~GetBool(out) /\ LatestUpdatedAt(out) = Refused
           /\ IF res = Panic THEN huge
              ELSE res # Refused /\ res # <<>> =>
                      Len(res) = word(word(0)) /\ ToSet(res) \subseteq SlotsOf(out)

\* keys.go: two different values are never looked up under one key, even if the name of
\* one begins like that of the other.
KeysDistinct ==
    fun = "keys" => (KeyOf(arg[1]) = KeyOf(arg[2]) => arg[1] = arg[2])

\* keys.go: the encoding of a name "matches Solidity abi.encode(string)": read as the ABI
\* says, it gives the name back, and it is made of whole words.
NamesEncoded ==
    fun = "name" =>
        LET out == AbiEncodeString(arg)
            offset == Number(SubSeq(out, 1, Word))
            length == Number(SubSeq(out, offset + 1, offset + Word))
        IN /\ Len(out) >= offset + Word + length
           /\ SubSeq(out, offset + Word + 1, offset + Word + length) = arg
           /\ Len(out) % Word = 0
           /\ \A i \in (offset + Word + length + 1)..Len(out) : out[i] = 0

\* What a file and its environment must have, and what a loaded configuration is then good
\* for: a negative time is neither refused nor replaced.
Required(file, env) ==
    /\ file.url # "" \/ env.RPC_URL # ""
    /\ file.versions # <<>>
    /\ \A i \in DOMAIN file.versions :
          "" \notin {file.versions[i][k] : k \in DOMAIN file.versions[i]}
Usable(file, c) ==
    /\ \A k \in {"requestTimeout", "quickInterval"} : c[k] > 0 \/ (c[k] < 0 /\ c[k] = file[k])
    /\ c.callConcurrency > 0 /\ c.port # 0 /\ c.path # "" /\ c.dailyAtUTC # ""
TakesPort(file, env, c) ==
    /\ \A n \in env.METRICS_PORT : c.port = (IF n = 0 THEN 8080 ELSE n)
    /\ env.METRICS_PORT = {} /\ file.port # 0 => c.port = file.port
TakesURLs(file, env, c) ==
    /\ c.url = (IF env.RPC_URL # "" THEN env.RPC_URL ELSE file.url)
    /\ SlackWebhookURL(c, env) = env.HOOK

LoadsWell(file, env) ==
    LET loaded == Load(file, env)
        c == loaded.cfg
    IN /\ loaded.accepted <=> Required(file, env)
       /\ loaded.accepted => Usable(file, c) /\ TakesPort(file, env, c) /\ TakesURLs(file, env, c)

\* config.go: what is required may come from the file or, the URL, from the environment; a
\* loaded configuration has everything, what it assumes of itself included (modules
\* Scheduler and TimedScheduler want positive times), unless a time in the file is
\* negative; and the environment comes before the file, but for a port 0, which asks for
\* 8080.
ConfigRuns == fun = "config" => LoadsWell(arg[1], arg[2])

\* A reader of the digest: the reports, without findings, that its sections hold.
ReadEntry(acc, e) ==
    CASE e[1] = "version" -> [acc EXCEPT !.version = e[2]]
      [] e[1] = "task"    ->
            [acc EXCEPT !.read = Append(@, [version |-> acc.version, task |-> e[2], lines |-> <<>>])]
      [] e[1] = "line"    -> [acc EXCEPT !.read[Len(acc.read)].lines = Append(@, e[2])]
      [] OTHER            -> [acc EXCEPT !.version = "none"]
Reading(d) ==
    LET reading[n \in 0..Len(d)] == IF n = 0 THEN [version |-> "none", read |-> <<>>]
                                    ELSE ReadEntry(reading[n - 1], d[n])
    IN reading[Len(d)]
SectionsOf(d) == Reading(d).read

Kept(reports) ==
    [i \in DOMAIN reports |->
        [version |-> reports[i].version, task |-> reports[i].task, lines |-> reports[i].lines]]
VersionsOf(reports) == {reports[i].version : i \in DOMAIN reports}
Is(d, kind) == FlattenSeq([i \in DOMAIN d |-> IF d[i][1] = kind THEN <<d[i]>> ELSE <<>>])
FindingsFor(d, v) ==
    LET all == Is(d, "finding")
    IN FlattenSeq([i \in DOMAIN all |-> IF all[i][2] = v THEN <<all[i]>> ELSE <<>>])
Found(reports, v) ==
    FlattenSeq([i \in DOMAIN reports |->
        IF reports[i].version = v THEN FindingEntries(reports[i]) ELSE <<>>])

OneSectionEach(reports, d) == Len(Is(d, "version")) = Cardinality(VersionsOf(reports))
NoneLost(reports, d) ==
    \A v \in VersionsOf(reports) :
        /\ ByVersion(SectionsOf(d), v) = ByVersion(Kept(reports), v)
        /\ FindingsFor(d, v) = Found(reports, v)
FindingsLast(d) == \A i, j \in DOMAIN d : d[i][1] = "finding" /\ i < j => d[j][1] = "finding"

Complete(reports, d) == OneSectionEach(reports, d) /\ NoneLost(reports, d) /\ FindingsLast(d)

\* reconciler.go: the digest is "grouped by version then by task, with all findings
\* collected at the end".  Each version has one section and in it its reports in their
\* order, none is lost, and every finding is there, under its version and task, after
\* everything else.
DigestComplete == fun = "digest" => Complete(arg, Render(arg))

\* The gauges that a job sets.
SetBy(plan) ==
    (UNION {UNION {ToSet(item[i].pub) : i \in DOMAIN item} : item \in UNION ToSet(plan.loops)})
    \ {<<"cut">>}

OneWriter(plans) ==
    \A j, k \in DOMAIN plans : j # k => SetBy(plans[j]) \cap SetBy(plans[k]) = {}
Labelled(plans) ==
    \A j \in DOMAIN plans : \A g \in SetBy(plans[j]) : Len(g) = 1 + Len(Labels[g[1]])

\* The timestamps of two jobs that set one.
OneStamp(vs) ==
    \A i, k \in DOMAIN vs : \A j, l \in DOMAIN Tasks :
        /\ T!PlanOf(vs[i], Tasks[j]).stamped /\ T!PlanOf(vs[k], Tasks[l]).stamped
        /\ LastRun(vs[i], Tasks[j]) = LastRun(vs[k], Tasks[l])
        => i = k /\ j = l

\* exporter.go, gas.go, chainlink.go: every gauge is set with a value for each label of
\* its vector, or it would panic, and, versions having different names, by one job of a
\* run only: what carries no version ("shared across V1 and V2") belongs to one of them,
\* and no job takes the timestamp of another.
SeriesHaveOneWriter ==
    fun = "series" =>
        /\ Labelled(T!AllPlans)
        /\ IsInjective(arg) => OneWriter(T!AllPlans) /\ OneStamp(arg)

=============================================================================
