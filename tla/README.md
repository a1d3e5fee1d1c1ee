# chain-reconciler in TLA+

A verification development for chain-reconciler: TLA+ modules that model the
process and what it does to its metrics and to the daily digest, TLC
configurations that check them on small instances, and theorems about them
that TLAPS proves for every value of the constants.

`PROJECT.json` lists, in machine-readable form, the components, the runs, the
mutated forms each property was tried against, the source lines every
definition stands for, the disagreements found between code and documentation,
the hazards and the theorems.

    tlc -config Scheduler_safety.cfg Scheduler.tla     # one run
    tlc -config Sweep_pair.cfg MCSweep.tla
    tlc -config Functions_all.cfg MCFunctions.tla
    tlapm SchedulerProofs.tla                          # the proofs

## 1. Inventory

### Components

| Component | Source | State it keeps | Operations |
| --- | --- | --- | --- |
| Scheduler | `main.go` | where each goroutine is, the ticker, the timer and its instant, the loops' context | start, `-once`, initial run, quick loop, daily loop, `nextDailyAt`, SIGTERM |
| Slack client | `internal/notify/slack.go` | none of its own; requests in flight | `Enabled`, `Send` |
| RunAll | `internal/reconciler/reconciler.go` | the reports of the run so far | `RunAll`, `Render` |
| Twelve tasks | `internal/reconciler/*.go` | nothing between runs; totals and counters inside one | `Run(version)` |
| Chain client | `internal/chain/client.go` | none (connection) | one read per contract function, reply decoding |
| DataStore keys | `internal/chain/keys.go` | constants | ABI encoding and hashing of keys |
| Configuration | `internal/config/config.go` | the configuration, fixed after start | `Load`, env overrides, `validate` |
| Metrics | `internal/metrics/exporter.go`, `startMetricsServer` | the gauges, shared by all goroutines | set, increment, scrape |

### How they interact

`main` loads the configuration, builds the twelve tasks and runs them once
(`runOnce`) in its own goroutine. Then it starts two goroutines. `quickLoop`
calls `RunAll` at every tick; `dailyLoop` sleeps until the next configured
instant, calls `RunAll`, renders the reports and hands the digest to the Slack
client. `RunAll` calls the `Run` of every task for every version, one after the
other. A `Run` makes RPC calls through the chain client, each with its own
deadline, and sets gauges as the answers come in. The gauges are process-wide
and set without any further synchronisation, so the two loops meet there.
Nothing is persisted: a restart begins with empty gauges and computes the next
instant anew. Nothing waits for the loops when `main` returns.

### What is hard here

* **Interleaving.** Two loops over the same gauges; between the read of a value
  and its publication the chain may move and the other loop may publish. Gauges
  that belong together are set one by one, with calls in between.
* **Time.** A run has a 5-minute context that its calls never look at, so it
  lasts as long as its calls add up to; the digest is sent with that context.
  The timer is monotonic while the instant is UTC. A ticker keeps one tick.
* **Failure.** Each call may fail on its own. An error is turned into a finding
  and the code goes on in one of three ways: with the next call, the next item,
  or the next task. Slack may accept what its client gave up on.
* **Crash and restart.** The instant of the next digest is known to a local
  variable only.
* **Numbers.** 256-bit words cut to 64 bits, two's complement, short replies.

The hazards are listed one by one, at their lines, in `PROJECT.json`.

### What makes each part correct

| Component | Correct means |
| --- | --- |
| Scheduler | at most one digest per instant and none early; none late; no day skipped; the loop never wedges; metrics stay fresh; the digest has time to be sent |
| Slack client | one request per send; a done context sends nothing; a send always returns |
| RunAll | one failed call costs only what depends on it and is reported; reports are complete |
| Tasks | what a gauge shows is a state the chain had, and it only moves forward; sums have all their terms; gauges that stand side by side belong together; a timestamp means success |
| Chain client | a reply is decoded to the value the contract returned, or to an error |
| Configuration | defaults for what is missing, refusal of what is required |
| Digest | every report once, grouped by version, every finding listed |

## 2. Plan

The order puts the two behaviours first that everything else hangs on: when
runs and digests happen, and what a run does.

| # | Module | About | State |
| --- | --- | --- | --- |
| 1 | `DailyDigest` | what readers of the channel are promised | done |
| 2 | `Scheduler` | the process of `main.go` and the Slack client | done |
| 3 | `SchedulerProofs` | theorems about 2: order, refinement, time bounds | done |
| 4 | `TaskPlans` | what the twelve tasks read and publish, as data | done |
| 5 | `Sweep`, `MCSweep` | `RunAll` by one or two goroutines over a moving chain | done |
| 6 | `SweepProofs` | theorems about 5: type correctness and order | done |
| 7 | `SweepProofs`, second part | that a sweep refreshes or reports, for regular plans | done |
| 8 | `PlansProofs` | that 4 is sound and regular for every configuration, so 6 and 7 hold of it | done |
| 9 | `TimedScheduler` | `Scheduler` with the calls inside its runs: the length of a run from its calls and their timeout | done |
| 10 | `TimedSchedulerProofs` | that 9 implements 2, for all values | done |
| 11 | `Values`, `ValuesProofs` | what tasks compute from amounts and times; sums over sets, ratios | done |
| 12 | `Alerts`, `MCAlerts`, `AlertsProofs` | the alarms of a report, one Run at a time, for all values | done |
| 13 | `SharedGauges`, `MCSharedGauges` | the computed gauges, set one by one by loops that share them | done |
| 14 | `SharedGaugesProofs` | theorems about 13, for any number of loops | done |
| 15 | `Codec`, `Keys` | `client.go` and `keys.go`: replies to values, values to keys | done |
| 16 | `Config`, `Digest`, `Metrics` | `Load` and `validate`; `Render`; the vectors | done |
| 17 | `MCFunctions` | 15 and 16 against reference definitions | done |
| 18 | `FunctionsProofs` | the same for every size of bytes and words, every configuration and any list of reports | done |

How they compose: `TimedScheduler` contains `Scheduler` and implements it;
`Scheduler` implements `DailyDigest`. `MCSweep` gives `Sweep` the plans of
`TaskPlans`, `MCFunctions` sets the same plans against the labels of `Metrics`,
and `Keys` encodes with the bytes of `Codec`. `Alerts` and `SharedGauges`
compute with `Values`. An abstract module in which each gauge only moves forward
would say no more than `NoPhantomChange` does, so there is none.

## 3. The modules

### DailyDigest and Scheduler

`Scheduler` has one action per step of a goroutine between two points where
another could step in.

| Code | Model |
| --- | --- |
| `main` up to the initial run, `-once` | `Boot`, `BootOnce` |
| return of `RunAll` and what follows it | `RunEnd(l)` with `AfterRun`, `AfterDigest`; after the initial run it starts both loops |
| `quickLoop` | `QuickStart` (the ticker), `QuickFire` (a tick is taken), `LoopReturn` |
| `dailyLoop` | `DailyArm` (`nextDailyAt`, timer), `DailyFire`, `LoopReturn` |
| `slack.Send(runCtx, ...)` | `Send` puts one request on the wire unless `ContextDone`; `SendReturn` returns for any reason, and is the only step left when the context is done |
| SIGTERM, deferred cancel, return of `main` | `Sigterm`, `CancelLoops`, `Exit` |
| a panic, a kill, SIGTERM during the initial run | `Crash` |
| time | `Tick`: ages of runs, countdowns, the ticker's one-place channel |
| the host sets its clock | `StepClock` |
| Slack and the network | `SlackAccept`, `SlackLose`, also long after the sender gave up |

A run is an interval here. `age[l]` is the time since it began, which is also
the age of its context; `MaxRun` bounds it, `RunLimit` does not, because no call
looks at the context of the run (`Client.ctx` starts from `Background`).
`left[l]` is the countdown of the goroutine's ticker, timer or HTTP deadline,
`target` is `next`, `wire` and `posted` count the digests of a slot that are in
flight and accepted, `dataAge` is what freshness is stated about.

`DailyDigest` knows only the UTC clock and what the channel received.
`DigestPromise` is its specification with `wall` and `posted` of `Scheduler`;
everything else the process does is a stutter.

### TaskPlans, Sweep and MCSweep

`TaskPlans` says for each task what its `Run` reads, which gauges it sets after
which answer, and where an error leads: to the `"next"` step, out of the
`"item"` (a `continue` over several calls) or out of the `"task"` (an early
`return`). `GaugeInputs` names the reads a gauge is computed from.

`Sweep` executes the plans. The value of a read is represented by the block it
was answered at, so a gauge is a record of where its value comes from:
`gauge[g][x]` is the block of the read `x` behind `g`, 0 for none. That keeps
apart exactly what the properties are about - old and new, whole and partial -
and nothing else.

| Code | Model |
| --- | --- |
| `RunAll` is called; next task or version | `Begin`; `FinishJob` |
| a `range` loop in `Run`; one of its iterations, in any order | `NextLoop`; `PickItem` |
| `Client.call` answered, or failed | `Answer`; `Fail` with the three ways to go on |
| `gauge.Set(...)` | `Publish`, one gauge at a time |
| `count == 0`, `maxSide.Sign() > 0` | `GoOn`: the value decides, so either |
| total of the fees | `Compute`, then `Publish` |
| `SetToCurrentTime()`; `Inc()` of the error counter | in `FinishJob`, `stamp` and `errors` |

`RunError` is the error of a `Run`. It is FALSE for every task because every
`Run` ends in `return rep, nil`; `FinishJob` still has the branch of `RunAll`
that counts it. `found` are the failures a report names and `reports` those of
the finished tasks, the return value of `RunAll`. (`quickLoop` drops that value,
`dailyLoop` renders it: a matter of `Scheduler`.) `start`, `floor`, `met` and
`suspect` are history: when the run began, when the oldest run it overlaps began,
whether it overlaps one, and what failed in the others.

`MCSweep` instantiates the plans for TLC with a small configuration: one version
with a FeeDistributorVault, one market, one handler, one keeper, one feed, one
feature, one or two roles.

### TimedScheduler

`Scheduler` is told how long a run may last. `TimedScheduler` is told what the
code knows: how many calls a run makes if none fails (`Calls`) and how long one
may take (`CallLimit`, `rpc.request_timeout`). It runs the actions of `Scheduler`
with a `MaxRun` that never binds and adds two variables: `calls[l]`, the calls
the run of `l` has not finished, and `callLeft[l]`, the time until the current
one times out.

| Code | Model |
| --- | --- |
| `RunAll` is called, first call goes out | `Starts`, `BeginRun` |
| `Client.call` returns, answered or not; the next call goes out | `CallReturn`; a failure may take calls with it (`continue`, `return`), so any smaller number may be left |
| the last call, or one that takes all others with it | `RunEnd` |
| `context.WithTimeout(context.Background(), c.timeout)` | `Tick` does not pass the timeout of a call; nothing relates it to the run's context |
| everything else of the process | `Others` |

`RunsAreBounded` is the specification `LiveSpec` of `Scheduler`, fairness
included, with `MaxRun` replaced by `Calls * CallLimit`.

### Values, Alerts and MCAlerts

`Sweep` represents a value by its block; `Alerts` has the values, on both sides
of every threshold, and looks at one Run of one task at a time: a report is made
from local variables, so no other goroutine takes part. Between two reads
values move (`Move`), and every value the Run could have read at some moment is
kept in `seen`, which is what "was so during the Run" means in the properties.

| Code | Model |
| --- | --- |
| `Run` is called; locals are initialised | `Start` |
| a call is answered; `totalClaimable.Add`; `count == 0` | `Answer` |
| a call fails: `continue` to the next market, or the end of this item | `Fail` |
| thresholds looked at | `Conclude` with `Raises` |
| `absSub`, `absMax`; `now > updatedAt` | `AbsSub`, `AbsMax`, `FeedAge` of `Values` |

The vault is an OrderVault or DepositVault, the role a privileged one: no other
raises an alarm. Amounts are in whole tokens, so the rounding of `weiToEther`
and its sisters is left out. Ages are differences modulo `Word`, which is 2^64
in the code.

### SharedGauges and MCSharedGauges

Most gauges show one read, and `Sweep` is enough for them. Six do not stand
alone: the total and the gap of the fees, the two sides and the ratio of a
market's funding, the age of a feed. The code computes them from several reads
and sets them one after the other, with a call between total and gap, and the
quick and the daily loop do so at the same time. So here every read and every
`Set` of every goroutine is a step of its own, and `shown` is shared.

| Code | Model |
| --- | --- |
| `Run` is called | `Begin` |
| the loop over the markets of `fee.go`, `continue` included | `ReadMarket` |
| `GetInt` of a side, `BalanceOfERC20`, the clock, the time of a feed | `Read`; `Fail` leaves the rest of the item undone |
| `Set` of one gauge; `maxSide.Sign() > 0` | `Set` |
| the order of these | `First`, `After` |
| a block | `NewBlock`, which adds a line to `past` |

One funding market and one feed are enough, since nothing relates two of them.
`start`, `floor`, `lost` and `alone` are history, as in `Sweep`.

### Codec, Keys, Config, Digest, Metrics and MCFunctions

These are pure. `Codec` decodes a reply digit by digit and byte by byte, with
the sizes of byte, word, uint64 and address as constants; `Panic` stands for a
slice or an allocation out of range, `Refused` for an error. `Keys` builds the
preimages of all keys and takes Keccak as a function without collisions.
`Config.Load` takes a file and an environment and returns a configuration or
`Rejected`, in the order overrides, refusals, defaults; in the code refusals and
defaults alternate, which nobody sees because a refused configuration is
dropped. `Digest.Render` returns the entries of the digest: each loop of the
code is the flattened sequence of what its turns append, and the map of reports
by version is `ByVersion`. `Reading` in `MCFunctions` is a reader who takes the
digest entry by entry and knows nothing of how it was made. `Metrics.Labels` are
the label names of each vector, `LastRun` the timestamp of a task. `MCFunctions`
asks for one result after the other: a behaviour picks a function and an
argument, and each property looks at one function.

## 4. What is checked

### Runs that pass

| Run | Shows | Bounds |
| --- | --- | --- |
| `Scheduler_safety` | `TypeOK`; `DigestInv`: at most one digest per instant leaves, none early, and while the loop is heading for an instant nothing has left for it, not even before a restart; `DigestPromise` | 12 ticks, 5 a day, which is two instants and a third on the horizon, runs up to 3 ticks against a limit of 2, goroutines arbitrarily slow, the clock put forward |
| `Scheduler_slow` | `FreshnessBound`: the newest completed sweep is at most one interval and two runs old; `ServingMeetsSlot`: whenever the configured time comes while `main` serves, the loop waits for it; `DigestOnTime`: no digest leaves later than the run limit; `GivenUpOnlyLate`: the loop goes on without a digest only if its run outlasted the limit, or `main` returns; `DailyGoesOn`: an armed instant is followed by a later one while `main` serves | as above, goroutines prompt, clock undisturbed; runs longer than limit and interval |
| `TimedScheduler` | `TypeOK`: a run stays within its time budget; `LateByItsCalls`: a digest whose context has expired owes that to calls of its own run whose timeouts add up to the limit; `RunsAreBounded`; `DigestLeaves`: the digest of every instant the loop waits for leaves, unless the process ends or the run of that digest outlasts its limit | three calls of one tick against a limit of two (the calls do not fit, as in the shipped configuration), days of four ticks, five ticks |
| `Sweep_all` | `FreshOrReported` and `Converges` for all twelve tasks and repeated sweeps | one goroutine, two blocks, one failing call, anywhere |
| `Sweep_pair` | `TypeOK`; `FreshOrReported` for two loops at once; `PhantomOnlyOverlapped`: a gauge goes back only in a run that overlaps another, and not behind the start of that run | roles and fees, two blocks, one failure |
| `Alerts` | `TypeOK`, `NoFalseAlarm`, `NoSilentMiss` | seven tasks, two markets, two moves in a Run, any calls failing, values just below, at and above each threshold, sides of both signs, a feed ahead of the clock; Runs follow each other without end |
| `SharedGauges` | `TypeOK`; `ShownOfRuns`: when a Run is over, the gauges show values of this Run and of those it overlaps, none older, a sum lacking at most markets whose call failed; `AgreeAlone`: a Run without failure that overlapped no other leaves a gap of the total and a ratio of the sides beside it | two loops, three tasks, two markets, one change of the values, any calls failing, sides of both signs and zero, a feed ahead of the clock; Runs follow each other without end |
| `Functions_all` | `NumbersSurvive`, `ArraysSurvive`, `NothingInvented`, `KeysDistinct`, `NamesEncoded`, `ConfigRuns`, `DigestComplete`, `SeriesHaveOneWriter` | see below |

Why these bounds are enough. A day of 5 ticks has room for a run that is shorter
than, as long as and longer than its limit, before, across and after the
instant. Two instants lie below the horizon, which is what a second digest, a
skipped day or a late one needs; restarts are unlimited. In a sweep, values are
blocks and only their order matters: two blocks let an old read meet a new
gauge. Tasks share no state but the reports, and no two versions share a gauge
(`SeriesHaveOneWriter`), so all twelve tasks of one version are needed once
(`Sweep_all`), and for
interleavings a task with a plain gauge and a conditional end (roles) and one
with a sum, two loops and an early return (fees). A run that fails every call is
covered by its parts: what a failure does depends on its own step only.

The three calls of `TimedScheduler` are the fewest with a first, a last and one
between them. A run takes up to three ticks, so it may end before its limit of
two, with it or past it, and before, across or after the instant. Restarts are
unlimited there too. In `SharedGauges` two blocks tell old values
from new ones, and since each loop runs again and again, what earlier Runs left is
there to be mistaken for new.

In `Functions_all` a byte has two binary digits, a word four bytes, a uint64
three and an address two, so each of the places where the code cuts, pads or
wraps has room on both sides. All 256 words are decoded, as signed ones too;
replies are up to four words of nine values each - small ones, and those around
the ends of a uint64 and of a quarter of it - whole, cut by a digit, or with a
bad digit; arrays up to three addresses; names up to two words and a byte. All
pairs of keys that the tasks look up for two markets, one token, two features,
two handlers, the five lists and the price age are compared, with names of which
some are prefixes of others. Files have zero, positive and negative times.
The digest has up to three versions, repeated or not, two tasks, and up to two
findings of each.

`Horizon`, `MaxBlock` and `MaxFaults` are bounds of the model, not of the code.
When `Horizon` is reached time stops; that is why `DailyGoesOn` speaks of the
instants below it, and why every state can still do something (a crash).

### Runs that find a disagreement

Each of these checks what a sentence of the documentation, a comment or a
metric's help text says, and TLC finds a behaviour of the code that contradicts
it.

| Run | Sentence | What the run shows |
| --- | --- | --- |
| `Scheduler_dropped` | README.md:24-25, the daily loop "runs tasks then posts a digest" | a run of more than 5 minutes loses its digest |
| `Scheduler_skipped` | the same, "at `scheduler.daily_at_utc`" | the instant passes during the initial run |
| `Sweep_phantom` | role.go:15-17, grants and revokes are detected by `changes()` | overlapping loops make a gauge go back and forth |
| `SharedGauges_ratio` | exporter.go:69, the ratio is that of the two sides | two loops set sides and ratio in turn, and the ratio that stays is not that of the sides that stay |

Next to each stands what does hold. `UpMeetsSlot` and `ServingMeetsSlot` differ by
the initial run only. `DigestBeatsDeadline` fails as soon as a run may outlast its
limit; `LateByItsCalls` and `GivenUpOnlyLate` say that nothing else makes it fail.
`NoPhantomChange` fails for two loops; `PhantomOnlyOverlapped` says that it does so
only while they overlap and how far back a gauge can go. `RatioAgrees` fails where
`AgreeAlone` holds of an undisturbed Run. So each of these pairs also shows what
would repair the promise.

Other sentences that the code does not keep can be seen in a line or two, and need
no run:

* config.yaml:2, "All fields can be overridden via env vars". `applyEnvOverrides`
  (config.go:80-95) knows four variables, `RPC_URL`, `METRICS_PORT`, `LOG_LEVEL`
  and `NOTIFY_ENABLED`; request timeout, interval, metrics path, time of the
  digest and every other field are what the file or the default says. `ConfigRuns`
  asks the environment to come first for the port and the URLs only.
* config.yaml:17: `NOTIFY_ENABLED` is stored (config.go:92) but never consulted.
  `Scheduler` posts whenever the webhook is set, as the code does.
* exporter.go:8-9 and README.md:59, all gauges are labelled with `version`. Those
  of the keepers and of the feeds are not (exporter.go:75, :151), as
  `Metrics.Labels` shows; `SeriesHaveOneWriter` says that this does no harm.
* reconciler.go:72-73, errors of tasks are surfaced by the error counter. No task
  returns an error (`RunError` of `Sweep` is FALSE), so it is never incremented.
* exporter.go:84, the timestamp is that of the last successful run. Each task sets
  it at its end whether or not its reads succeeded (`FinishJob`).
* exporter.go:54, the total is the sum "across all monitored markets". A market
  that cannot be read is left out of it (fee.go:41, `ReadMarket`); `ShownOfRuns`
  says that no other is.
* exporter.go:59, the gap is the total minus the vault's balance. A Run that cannot
  read the balance leaves the old gap beside its new total (fee.go:56, `Fail`), and
  two loops can each set one of the two without any failure, as they do with the
  ratio in `SharedGauges_ratio`. `AgreeAlone` says when they do belong together.
* exporter.go:69, the ratio is 1.0 when "fully one-sided". It passes 1.0 when the
  sides have opposite signs.

### Fairness

`Scheduler` assumes of `LiveSpec` only what the Go runtime and the deadlines
give: time passes, a run ends (its calls have timeouts), a send returns (the
client has a timeout), a goroutine that can go on does. Weak fairness is enough,
since nothing disables these steps but themselves or the end of the process.
Slack, the operator and the host owe nothing: no fairness on acceptance, on
SIGTERM, on crashes. `TimedScheduler` does not even assume that a run ends: only
that its current call returns, which its timeout gives; that a run ends is then
part of `RunsAreBounded`. `Prompt` is not fairness but the stronger
assumption of the timing properties: a ready goroutine steps before the next
tick. `Sweep` assumes in `LiveSpec` that a run goes on and that runs follow one
another; the chain need not produce blocks and calls need not succeed, beyond
the bound on failures.

## 5. What is proved

Every constant is arbitrary within `SchedulerAssumption`, `SweepAssumption`,
`TimedAssumption`, `AlertsAssumption`, `SharedGaugesAssumption`,
`CodecAssumption` or `SeriesAssumption`; TLC evaluates each on the runs of its
module. What a theorem assumes beyond that is in its statement and explained
below.

**`SchedulerProofs`, order.** `TypeCorrect`, `DigestsCorrect` and
`DigestRefinement`. `DigestInv` is inductive together with `TypeOK`, and each
part of it is needed: `DueOnce` (what is wanted) is preserved by `Send` only
because nothing has left for the target yet (`TargetUnserved`) and the instant
has come (`TimerNotEarly`). `TargetUnserved` is established by `DailyArm` from
`NextDailyAtLater`: the new target lies after the clock, and what left was due.
This needs no promptness, no bound on runs, and allows the clock to be put
forward. The refinement then has one case of interest: `SlackAccept(s)` is
`Post(s)`, because a request in flight means that none was accepted before.

**`SchedulerProofs`, time.** `GivenUpLate` needs neither promptness nor any bound
on runs, and allows the clock to be put forward: the process goes on without a
digest only if its run was still under way when the limit had passed since its
instant, or `main` returns. `OverdueInv` says that while the loop is busy with an
instant, the clock is at least as far past it as the run is old, and that is what
an expired context shows. Nothing in the code keeps a run below its limit, so
nothing is assumed about it; that such digests are lost is what
`Scheduler_dropped` shows.

`Freshness`, `DigestNotStale` and `ServingMeets` are under `Prompt`. `TimingInv`
adds what relates the countdowns, ages and the clock: where each loop is while
`main` serves (`LoopsInv`), that an age is bounded by `MaxRun` and is 0 outside
runs (`AgeInv`), that the age of the data is bounded by what the ticker still
has to count and the current run has already taken (`FreshInv`), and that the
target is exactly as far away as countdown or age says (`DueInv`, for a clock
that is not adjusted). `ServingMeets` says that an instant finds the loop
waiting for it. `MeetInv` gives it: the loop exists while `main` serves, its
target is due and nothing due comes between the clock and the target, and a
request has no more time than the context of its run. The last is why the
instant after cannot pass while the loop is busy with this one: run and send are
over within `MaxRun` or `RunLimit`, both assumed shorter than a day, and due
instants are a day apart (`DueApart`). In the shipped configuration a run makes
about 660 calls of at most 30 seconds each: five and a half hours at worst.

**`SweepProofs`, order.** `TypeCorrect`, for every table of plans and any number
of goroutines, and `PhantomOverlap`: a gauge goes back only in a run that
overlaps another, and then not behind the block that run began at. So a count
that changes back and forth is bounded by the overlap of the loops, whichever of
them publishes last. The invariant `OrderInv` says that what a job has read
comes from its run (`ReadInRun`), that in a run that overlaps no other it is at
least as new as what any gauge shows of it (`Undisturbed`), that what waits to
be shown directly has been read (`ShownIsRead`), and that this will hold for the
steps that are left. The last is a property of the plans that `SweepAssumption`
asks for and TLC evaluates for the plans of all twelve tasks: whoever sets a
gauge that shows one read makes that read first, or a failure of it drops the
step.

**`SweepProofs`, freshness.** `FreshReported`: for any number of goroutines whose
sweeps may overlap, of blocks and of failures, `FreshOrReported` holds if the
plans are regular (`RegularPlans`: every gauge has a job that sets it, and a
failure that can take a gauge with it is one the gauge's report names). The
invariant `SweepInv` has to follow a goroutine through its run. `Place`: what is
left to do belongs to the loop it is in. `TriedBefore`: every call of what is
done was answered during this run or is in the report. `Progress`: each gauge of
this run is settled - fresh, or excused by a finding - or a step that sets it is
still to come. `Overlap`: a run that others overlap knows their starts (`floor`)
and their failures (`suspect`); this is what makes the statement true of two
loops, where the other one may publish last, and `FinishJob` and `Begin` keep it.
Nothing is assumed about which calls fail or in which order items are taken.

**`PlansProofs`.** `TablesSound` and `TablesRegular`: the tables of `TaskPlans`
are what `SweepAssumption` asks of plans (`SoundPlans`), and regular,
whatever is configured - any versions, vaults, markets, timelocks, handlers,
roles, keepers, features and feeds, any of the twelve tasks in any order and
repeated. The proof sorts the items of the twelve tasks into five kinds (`Kind`):
every read shown by a gauge of its own, roles, funding, the total of the fees,
and their gap; one lemma shows that there are no others (`PlanKinds`), one per
kind that it is sound and regular. These are facts about tables, not about
states: no run has them as a property, but TLC evaluates `SweepAssumption` for the
tables of each sweep run. With `FreshReported` this gives `RunAllFresh`:
`FreshOrReported` of the program itself. `Configured` only says that `Sweep` runs
these tables. The proof of `TablesSound` does not use `SweepAssumption`; what it
leaves of it is that the bounds of `Sweep` are numbers and that there is a job
(`Plans # <<>>`, a version and a task).

**`TimedSchedulerProofs`.** `TimeBudget`: the age of a run, plus the timeouts of
the calls after the current one, plus what the current one may still take, never
exceeds the number of calls times the timeout. This is inductive together with
`Lives`: loops exist only while `main` serves, and a run starts at age 0. A call
that returns trades at least one timeout for a new one (`ProductStep`, the only
fact about products that is needed), a tick moves one unit from the rest to the
age. `CallsImplementRuns`: only `Tick` of `Scheduler` looks at `MaxRun`, and the
budget gives its guard; every other step is the same step. `LateByCalls`:
a digest that finds its context expired owes it to its own run, whose calls - those
made, and those that failures took with them - have timeouts that add up to the
limit. It assumes prompt goroutines and no relation between the calls and the
limit: in the shipped configuration a run makes about 660 calls, a timeout is 30
seconds of 5 minutes, and so ten calls that time out are enough. Nothing else,
such as the quick loop's run or an earlier digest, adds to it (`SendInv`).
(`CallsImplementRuns` is the safety half of `RunsAreBounded`; fairness stays with
TLC.)

**`ValuesProofs`.** What sums rest on: the sum over a finite set, which the
community modules define by taking elements in some order, is the same in every
order, so adding one element adds its value (`SumTakes`). This is induction over
data. The induction theorems of the library take an operator and cannot be used,
so it is done by a least counterexample: of the sets without the property take
one of least cardinality, remove an element, and contradict. And that `AbsSub`
and `AbsMax` are distance and magnitude.

**`AlertsProofs`.** The three invariants of the run, for all values, any number
of markets and any number of moves during a Run: `AlertsTypeCorrect`, `NoFalse`
and `NoSilent`. `AlertsAssumption` asks that amounts and times are not negative,
which holds of uint256 and uint64. The promises are about a Run that is over and
say nothing during one, so `AlertInv` adds what is true meanwhile (`Calling`):
what was answered was there at some moment of this Run (`seen`), every call
before `at` was answered or, for a market, failed, none after it was, and no
alarm is out yet; and that the total is the sum of the answers so far
(`SumInv`). `Conclude` is the only step that has to establish a promise. For a
missed alarm about the fees it needs that the sum of all markets is what a Run
computes in which none failed, and that the sum does not depend on the order of
the answers.

**`SharedGaugesProofs`.** `GaugesOfRuns`: for any number of loops, of markets and
of blocks, any values and any failures, what the gauges show when a Run is over
is of this Run and those it overlaps. What makes it hard is that the Set that
comes last may be another loop's. The invariant says of each Run under way that
its answers and its sum are of values since its start (`Answers`, `Totals`), and of
each Run that there has been that whoever is active now began no earlier than the
oldest start it overlaps, and lacks no market that it does not know of in `lost`
(`Spans`). So whatever an active Run sets fits every Run that has already set this
gauge (`Fits`). `AgreesAlone`: a Run that overlapped no other finds the gauges
as it set them, so the gap is that of the total and the ratio that of the sides
beside it. The first needs no lock; `SharedGauges_ratio` shows that the second
needs the Run to be alone.

**`FunctionsProofs`.** The pure functions, for every size of a digit, a byte, a
word, a uint64 and an address; those of the code are 16, 256, 32, 8 and 20.
`Number` and `Pow` are recursive functions, and their facts come from least
counterexamples as well: `PowNext`, `NumberBytes` (the number of the bytes of a
number is the number), `HexAndBack`, `DivTwice`, `FlatWords` (where the i-th word
of a sequence of words is).

* `NumbersRight`: signed, unsigned, uint64 and bool come back from their
  encodings, and the fourth word of a feed's reply is its time.
* `ArrayDecoded`: any array of addresses is decoded to itself, if the number of
  bytes of the reply is a uint64; `ArraysRight` is that for the arrays of the
  run, where `15 < Pow(Addr)` and `5 * Word < Pow(Small)` say that its addresses
  and sizes fit (in the code 2^160 and 160 < 2^64).
* `RepliesRight`: the opposite direction. Any text of digits and bad digits is
  taken: what is no hex gives nothing, and an array that is decoded was cut out
  of the reply (`MembersHeld`, for any bytes).
* `NamesRight`, `KeysApart` and `KeysRight`: the encoding of a name reads back,
  and no two lookups, of any addresses and features, have one key. Keccak is
  injective by construction. `Named` asks that the constants, the lists and
  `MAX_ORACLE_PRICE_AGE` among them, have distinct names of bytes, which the
  strings of keys.go have, and `Word > 1` tells the encoding of a name, which is
  whole words, from what begins with a root. The proof reads a preimage
  backwards: its root gives the constant (`RootsApart`), its length the number
  of parts, and each part its address or side (`PartsSame`).
* `ConfigRight`, from `Loaded`, which holds for any file and environment.
* `SeriesOwned` and `SeriesRight`: no series of the metrics has two writers,
  and no task sets the timestamp of another (`StampSame`).
  `SeriesAssumption` says of the tasks that `main.go` builds none twice; they may
  come in any order, and whatever else is configured is arbitrary. The argument:
  the name of a gauge's vector tells its task (`SetterOf`), and its first label
  its version, unless the vector is one of the two without that label
  (`Shared`), which only `v1` sets. `PlanOwned` shows this of the twelve plans,
  `JobOf` finds the version and task of every job in the flat list that `RunAll`
  works through, and distinct names of versions and tasks make it one job.

`MCFunctions` asks its functions for arguments from small sets, which do not grow
with the constants, except for `NumbersRight`, `RepliesRight` and `NamesRight`,
where they grow with `Word`; so the general statements are the lemmas, and
`ArrayDecoded`, `KeysApart`, `Loaded`, `MembersHeld`, `NameEncoded`,
`SeriesOwned` and `DigestOfReports` are the ones to look at.

**`FunctionsProofs`, the digest.** The digest of any list of reports, of any
versions in any order, with any lines and findings: `DigestOfReports`.
`DigestRight` is that for the lists of the run; `RunReportsType` shows that
whatever `RunAll` returns is such a list. Three arguments carry it, each by
induction over how a sequence grows (`Growing`, another least counterexample):

* loops. `Gather(f, s)` is what a loop over `s` appends. Loops in sequence join
  (`GatherConcat`), a loop over what another appends is one loop (`GatherTwice`),
  and of a loop over distinct elements that appends in one turn only, that turn
  remains (`GatherOnly`). So grouping by version and picking one version out
  again is picking it from the reports (`Grouped`), for sections and findings
  alike;
* the order. `VersionOrder` lists each version that was reported, once
  (`OrderIs`), so there are as many sections as versions;
* reading. From wherever the reader is, a section adds exactly the reports of its
  version (`SectionRead`), and the findings add none (`FindingsRead`).

**Only model-checked:** `DailyGoesOn`, `Converges`, `DigestLeaves` and the
fairness half of `RunsAreBounded` (liveness under fairness is outside the
prover); the type invariant of `SharedGauges`; and the disagreements, which are
behaviours.

## 6. What is not modelled

* Keccak and the function selectors: that two preimages give two hashes is
  assumed, and selectors are constants of the contracts.
* The Slack markup, the wording of lines and findings, and the rounding of
  amounts to `float64`.
* Reading and parsing the YAML file, flags, log levels.
* The HTTP server, the Prometheus registry and scrapes: I/O and third-party
  code. A scrape sees the gauges as they are, which is how they are modelled.
* A UTC clock that is put back. `nextDailyAt` then returns an instant that has
  had its digest; the promise of `DailyDigest` supposes that it is not.
* Restarts in `Sweep`, `Alerts` and `SharedGauges`: a new process begins with
  empty gauges, their `Init`.
* What negative durations do. `validate` replaces a zero only, so they stay
  (`ConfigRuns`); `time.NewTicker` panics on a negative interval, and calls with a
  negative timeout all fail.
* Replies without a value. A reply of no bytes is 0 or false to the code
  (`NothingInvented`), which cannot be told from a contract that says so.
* Two versions of one name. They are not refused, merge in the digest and set the
  same series; `SeriesHaveOneWriter` supposes different names.
* Members of a role. A grant and a revoke between two reads leave the count as it
  was, which no gauge of the program could show.
