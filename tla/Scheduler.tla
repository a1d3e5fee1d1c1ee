------------------------------ MODULE Scheduler ------------------------------
(***************************************************************************)
(* The process of main.go: the initial run, the quick loop on a ticker,    *)
(* the daily loop on a timer, the 5-minute context around each run, the    *)
(* digest handed to the Slack client of notify/slack.go, SIGTERM, crashes  *)
(* and restarts.                                                           *)
(*                                                                         *)
(* A run (one call of RunAll) is an interval here: it starts, lasts at     *)
(* most MaxRun ticks and ends.  What happens inside it is module Sweep.    *)
(* RunAll never looks at the run's context, so RunLimit does not end a run;*)
(* it only decides whether the digest can still be sent afterwards.        *)
(*                                                                         *)
(* Timers are countdowns (left) driven by the monotonic clock of Tick; the *)
(* UTC clock is wall, which the host may also adjust (StepClock).          *)
(***************************************************************************)
EXTENDS Integers

CONSTANTS
    Day,            \* ticks in 24 hours
    DailyAt,        \* scheduler.daily_at_utc as ticks after midnight, or Unparsed
    QuickInterval,  \* scheduler.quick_interval
    RunLimit,       \* the 5 minutes of the run's context
    MaxRun,         \* longest possible run: its number of calls times rpc.request_timeout
    SendLimit,      \* the 10 seconds of the Slack client
    WebhookSet,     \* the webhook environment variable holds a URL
    Prompt,         \* TRUE: a goroutine that is ready steps before the next tick
    ClockSteps,     \* adjustments the host may make to the UTC clock
    Horizon         \* bound: the UTC clock stops here

Unparsed == -1      \* daily_at_utc is not HH:MM

ASSUME SchedulerAssumption ==
    /\ Day \in Nat \ {0}
    /\ DailyAt \in 0..(Day - 1) \cup {Unparsed}
    /\ QuickInterval \in Nat \ {0}
    /\ RunLimit \in Nat \ {0}
    /\ MaxRun \in Nat
    /\ SendLimit \in Nat \ {0}
    /\ WebhookSet \in BOOLEAN
    /\ Prompt \in BOOLEAN
    /\ ClockSteps \subseteq Nat \ {0}
    /\ Horizon \in Nat

Loops == {"main", "quick", "daily"}     \* the goroutines that call RunAll
Senders == {"main", "daily"}            \* those that also post a digest
Slots == 0..(Horizon + Day)             \* instants a digest can be scheduled for

VARIABLES
    wall,       \* UTC clock of the host
    up,         \* gauge reconciler_up
    cancelled,  \* the context of the loops is cancelled
    pc,         \* where each goroutine is
    age,        \* ticks since the goroutine's current run started
    left,       \* ticks until its ticker, timer or HTTP deadline fires
    tickReady,  \* a tick waits in the ticker's channel
    target,     \* next, the instant the daily loop waits for
    wire,       \* wire[s]: requests with the digest of s that are in flight
    posted,     \* posted[s]: digests of s that Slack accepted
    dataAge     \* ticks since the start of the newest run that has completed

process == <<up, cancelled, pc, age, left, tickReady, target, dataAge>>
channel == <<wire, posted>>
vars == <<wall, process, channel>>

MinOf(a, b) == IF a <= b THEN a ELSE b

-----------------------------------------------------------------------------
(* The instant the next digest is due: today at DailyAt if that is still    *)
(* ahead, else tomorrow; a time that does not parse means 24 hours from now.*)

\* Mutated form: today's instant, past or not.
NextDailyAtToday(w) == w - (w % Day) + DailyAt

\* Mutated form: today's instant is kept when it is exactly now.
NextDailyAtInclusive(w) ==
    LET today == w - (w % Day) + DailyAt
    IN IF DailyAt = Unparsed THEN w + Day
       ELSE IF today >= w THEN today ELSE today + Day

\* Mutated form: always tomorrow.
NextDailyAtTomorrow(w) ==
    IF DailyAt = Unparsed THEN w + Day ELSE w - (w % Day) + DailyAt + Day

NextDailyAt(w) ==
    LET today == w - (w % Day) + DailyAt
    IN IF DailyAt = Unparsed THEN w + Day
       ELSE IF today > w THEN today ELSE today + Day

SlackEnabled == WebhookSet

-----------------------------------------------------------------------------
(* The life of the process.                                                 *)

Init ==
    /\ wall = 0
    /\ up = 0
    /\ cancelled = FALSE
    /\ pc = [l \in Loops |-> IF l = "main" THEN "down" ELSE "off"]
    /\ age = [l \in Loops |-> 0]
    /\ left = [l \in Loops |-> 0]
    /\ tickReady = FALSE
    /\ target = 0
    /\ wire = [s \in Slots |-> 0]
    /\ posted = [s \in Slots |-> 0]
    /\ dataAge = 0

\* Nothing of the process outlives it; the clock and the channel do.
Down ==
    /\ up' = 0
    /\ cancelled' = FALSE
    /\ pc' = [l \in Loops |-> IF l = "main" THEN "down" ELSE "off"]
    /\ age' = [l \in Loops |-> 0]
    /\ left' = [l \in Loops |-> 0]
    /\ tickReady' = FALSE
    /\ target' = 0
    /\ dataAge' = 0
    /\ UNCHANGED <<wall, channel>>

\* The long-running start: the gauge goes up before the initial run begins.
Boot ==
    /\ pc["main"] = "down"
    /\ up' = 1
    /\ pc' = [pc EXCEPT !["main"] = "run"]
    /\ UNCHANGED <<wall, channel, cancelled, age, left, tickReady, target, dataAge>>

\* The -once start: one run whose digest is sent, no loops, no gauge.
BootOnce ==
    /\ pc["main"] = "down"
    /\ pc' = [pc EXCEPT !["main"] = "once"]
    /\ UNCHANGED <<wall, channel, up, cancelled, age, left, tickReady, target, dataAge>>

\* A panic, the OOM killer, or SIGTERM while no handler is installed yet.
Crash ==
    /\ pc["main"] # "down"
    /\ Down

\* SIGTERM once main waits for it.
Sigterm ==
    /\ pc["main"] = "await"
    /\ up' = 0
    /\ pc' = [pc EXCEPT !["main"] = "stopping"]
    /\ UNCHANGED <<wall, channel, cancelled, age, left, tickReady, target, dataAge>>

\* main returns: the deferred cancel runs first.
CancelLoops ==
    /\ pc["main"] = "stopping"
    /\ ~cancelled
    /\ cancelled' = TRUE
    /\ UNCHANGED <<wall, channel, up, pc, age, left, tickReady, target, dataAge>>

\* The loops are not waited for: whatever they were doing ends here.
Exit ==
    /\ pc["main"] = "stopping"
    /\ cancelled
    /\ Down

-----------------------------------------------------------------------------
(* Runs.                                                                    *)

\* Mutated form: a request that has failed is sent again.
AfterDigestRetry(l) ==
    IF pc[l] = "sending" THEN "send" ELSE IF l = "daily" THEN "arm" ELSE "exit"

\* Where a sender goes once it is done with a run and its digest.
AfterDigest(l) == IF l = "daily" THEN "arm" ELSE "exit"

AfterRun(l) ==
    IF pc[l] = "once" THEN IF SlackEnabled THEN "send" ELSE "exit"
    ELSE CASE l = "main"  -> "await"
           [] l = "quick" -> "wait"
           [] l = "daily" -> IF SlackEnabled THEN "send" ELSE "arm"

\* RunAll returns.  After the initial run main starts both loops.
RunEnd(l) ==
    /\ pc[l] \in {"run", "once"}
    /\ pc' = [k \in Loops |->
                 IF k = l THEN AfterRun(l)
                 ELSE IF l # "main" \/ pc[l] = "once" THEN pc[k]
                 ELSE IF k = "quick" THEN "start" ELSE "arm"]
    /\ dataAge' = IF l = "main" THEN age[l] ELSE MinOf(dataAge, age[l])
    /\ age' = IF AfterRun(l) = "send" THEN age ELSE [age EXCEPT ![l] = 0]
    /\ UNCHANGED <<wall, channel, up, cancelled, left, tickReady, target>>

\* Mutated form: the ticker is given the daily period.
QuickStartDaily ==
    /\ pc["quick"] = "start"
    /\ pc' = [pc EXCEPT !["quick"] = "wait"]
    /\ left' = [left EXCEPT !["quick"] = Day]
    /\ UNCHANGED <<wall, channel, up, cancelled, age, tickReady, target, dataAge>>

\* The quick loop creates its ticker.
QuickStart ==
    /\ pc["quick"] = "start"
    /\ pc' = [pc EXCEPT !["quick"] = "wait"]
    /\ left' = [left EXCEPT !["quick"] = QuickInterval]
    /\ UNCHANGED <<wall, channel, up, cancelled, age, tickReady, target, dataAge>>

\* The quick loop takes a tick and runs.
QuickFire ==
    /\ pc["quick"] = "wait"
    /\ tickReady
    /\ tickReady' = FALSE
    /\ pc' = [pc EXCEPT !["quick"] = "run"]
    /\ UNCHANGED <<wall, channel, up, cancelled, age, left, target, dataAge>>

\* Top of the daily loop: compute next and arm a timer for the time until it.
DailyArm ==
    /\ pc["daily"] = "arm"
    /\ target' = NextDailyAt(wall)
    /\ left' = [left EXCEPT !["daily"] = NextDailyAt(wall) - wall]
    /\ pc' = [pc EXCEPT !["daily"] = "wait"]
    /\ UNCHANGED <<wall, channel, up, cancelled, age, tickReady, dataAge>>

\* The timer has fired.
DailyFire ==
    /\ pc["daily"] = "wait"
    /\ left["daily"] = 0
    /\ pc' = [pc EXCEPT !["daily"] = "run"]
    /\ UNCHANGED <<wall, channel, up, cancelled, age, left, tickReady, target, dataAge>>

\* A loop that waits sees its context done and returns.
LoopReturn(l) ==
    /\ cancelled
    /\ l # "main"
    /\ pc[l] = "wait"
    /\ pc' = [pc EXCEPT ![l] = "off"]
    /\ UNCHANGED <<wall, channel, up, cancelled, age, left, tickReady, target, dataAge>>

-----------------------------------------------------------------------------
(* The digest on its way to Slack.                                          *)

\* Mutated form: the request is not bound to the context of the run.
ContextDoneNever(l) == l = "daily" /\ cancelled

\* Mutated form: the context is cancelled when the run is over, and then sent with.
ContextDoneWithRun(l) == TRUE

\* The run's context is done: its 5 minutes are over or its parent is cancelled.
ContextDone(l) == age[l] >= RunLimit \/ (l = "daily" /\ cancelled)

\* slack.Send: a context that is done fails the request before it is written,
\* any other puts one request on the wire.  No digest of main is for a slot.
Send(l) ==
    /\ pc[l] = "send"
    /\ ~ContextDone(l)
    /\ wire' = IF l = "daily" THEN [wire EXCEPT ![target] = @ + 1] ELSE wire
    /\ left' = [left EXCEPT ![l] = MinOf(SendLimit, RunLimit - age[l])]
    /\ pc' = [pc EXCEPT ![l] = "sending"]
    /\ UNCHANGED <<wall, posted, up, cancelled, age, tickReady, target, dataAge>>

\* Mutated form: the client waits for the answer without a deadline.
SendReturnOnAnswer(l) ==
    /\ \/ pc[l] = "sending" /\ (l = "daily" => wire[target] = 0)
       \/ pc[l] = "send" /\ ContextDone(l)
    /\ pc' = [pc EXCEPT ![l] = AfterDigest(l)]
    /\ age' = [age EXCEPT ![l] = 0]
    /\ left' = [left EXCEPT ![l] = 0]
    /\ UNCHANGED <<wall, channel, up, cancelled, tickReady, target, dataAge>>

\* Send returns - an answer, a refused connection, a deadline, a context that was
\* done.  An error is only logged: nothing is retried, nothing remembered.
SendReturn(l) ==
    /\ \/ pc[l] = "sending"
       \/ pc[l] = "send" /\ ContextDone(l)
    /\ pc' = [pc EXCEPT ![l] = AfterDigest(l)]
    /\ age' = [age EXCEPT ![l] = 0]
    /\ left' = [left EXCEPT ![l] = 0]
    /\ UNCHANGED <<wall, channel, up, cancelled, tickReady, target, dataAge>>

\* main returns after a -once run.
OnceExit ==
    /\ pc["main"] = "exit"
    /\ Down

\* Slack accepts a request, perhaps after its sender gave up or died.
SlackAccept(s) ==
    /\ wire[s] > 0
    /\ wire' = [wire EXCEPT ![s] = @ - 1]
    /\ posted' = [posted EXCEPT ![s] = @ + 1]
    /\ UNCHANGED <<wall, process>>

\* The request is lost or refused.
SlackLose(s) ==
    /\ wire[s] > 0
    /\ wire' = [wire EXCEPT ![s] = @ - 1]
    /\ UNCHANGED <<wall, process, posted>>

-----------------------------------------------------------------------------
(* Time.                                                                    *)

\* Some goroutine has something to do other than to wait for time to pass.
Ready ==
    \/ pc["main"] \in {"stopping", "exit"}
    \/ pc["quick"] = "start" \/ pc["daily"] = "arm"
    \/ \E l \in Senders : pc[l] = "send"
    \/ pc["quick"] = "wait" /\ tickReady
    \/ pc["daily"] = "wait" /\ left["daily"] = 0

Ticking == pc["quick"] \in {"wait", "run"}

\* One tick of the monotonic clock.  A run ends within MaxRun and a request
\* within its deadline; a tick nobody took yet is dropped, as tickers do.
Tick ==
    /\ wall < Horizon
    /\ \A l \in Loops : pc[l] \in {"run", "once"} => age[l] < MaxRun
    /\ \A l \in Loops : pc[l] = "sending" => left[l] > 0
    /\ Prompt => ~Ready
    /\ wall' = wall + 1
    /\ age' = [l \in Loops |-> IF pc[l] \in {"run", "once", "send", "sending"}
                               THEN age[l] + 1 ELSE age[l]]
    /\ left' = [l \in Loops |->
                   IF l = "quick" /\ Ticking /\ left[l] = 1 THEN QuickInterval
                   ELSE IF left[l] > 0 THEN left[l] - 1 ELSE 0]
    /\ tickReady' = (tickReady \/ (Ticking /\ left["quick"] = 1))
    /\ dataAge' = IF pc["main"] = "await" THEN dataAge + 1 ELSE dataAge
    /\ UNCHANGED <<up, cancelled, pc, target, channel>>

\* The host adjusts the UTC clock; timers do not notice.
StepClock(d) ==
    /\ wall + d <= Horizon
    /\ wall' = wall + d
    /\ UNCHANGED <<process, channel>>

-----------------------------------------------------------------------------

LoopNext(l) == RunEnd(l) \/ LoopReturn(l)
SenderNext(l) == Send(l) \/ SendReturn(l)

Next ==
    \/ Boot \/ BootOnce \/ Crash \/ Sigterm \/ CancelLoops \/ Exit \/ OnceExit
    \/ \E l \in Loops : LoopNext(l)
    \/ QuickStart \/ QuickFire \/ DailyArm \/ DailyFire
    \/ \E l \in Senders : SenderNext(l)
    \/ \E s \in Slots : SlackAccept(s) \/ SlackLose(s)
    \/ Tick
    \/ \E d \in ClockSteps : StepClock(d)

Spec == Init /\ [][Next]_vars

\* What the Go runtime and the contexts give the process: time passes, a run and a
\* request come to an end, a goroutine that can go on does.  Nothing is assumed of
\* Slack, of the operator or of the host.
Fairness ==
    /\ WF_vars(Tick)
    /\ \A l \in Loops : WF_vars(RunEnd(l))
    /\ \A l \in Senders : WF_vars(Send(l)) /\ WF_vars(SendReturn(l))
    /\ WF_vars(QuickStart) /\ WF_vars(QuickFire)
    /\ WF_vars(DailyArm) /\ WF_vars(DailyFire)

LiveSpec == Spec /\ Fairness

-----------------------------------------------------------------------------
(* Properties.                                                              *)

\* Every variable has its type: each goroutine is at one of its own program
\* points, countdowns and ages are naturals, the target is a slot.
TypeOK ==
    /\ wall \in 0..Horizon
    /\ up \in {0, 1}
    /\ cancelled \in BOOLEAN
    /\ pc \in [Loops -> {"down", "once", "off", "start", "arm", "wait", "run",
                          "send", "sending", "await", "stopping", "exit"}]
    /\ pc["main"] \in {"down", "once", "run", "send", "sending", "exit", "await", "stopping"}
    /\ pc["quick"] \in {"off", "start", "wait", "run"}
    /\ pc["daily"] \in {"off", "arm", "wait", "run", "send", "sending"}
    /\ age \in [Loops -> Nat]
    /\ left \in [Loops -> Nat]
    /\ tickReady \in BOOLEAN
    /\ target \in Slots
    /\ wire \in [Slots -> Nat]
    /\ posted \in [Slots -> Nat]
    /\ dataAge \in Nat

Handed(s) == wire[s] + posted[s]    \* digests of s that left the process

\* Every digest that left the process was due, and no slot had two.
DueOnce == \A s \in Slots : Handed(s) <= 1 /\ (Handed(s) > 0 => s <= wall)

\* While the loop is on its way to a slot no digest of it has left, not even
\* from before a restart.
TargetUnserved == pc["daily"] \in {"wait", "run", "send"} => Handed(target) = 0

\* The timer is not ahead of the UTC clock, and what follows it is not early.
TimerNotEarly ==
    /\ pc["daily"] = "wait" => wall + left["daily"] >= target
    /\ pc["daily"] \in {"run", "send", "sending"} => wall >= target

\* The state dailyLoop keeps in its head - which digest is next, whether it was
\* sent - agrees with what Slack has or may still get, across restarts.
DigestInv == DueOnce /\ TargetUnserved /\ TimerNotEarly

\* The process keeps the promise of module DailyDigest: at most one digest per
\* configured instant and none before it, with crashes, restarts, slow runs,
\* late and lost requests, and a clock that is only ever put forward.
Digest == INSTANCE DailyDigest
DigestPromise == Digest!Spec

\* README: the quick loop "keeps metrics fresh".  The newest completed sweep
\* never started longer ago than one interval and two runs.
FreshnessBound == pc["main"] = "await" => dataAge <= QuickInterval + 2 * MaxRun

IsDue(s) == s % Day = DailyAt
Reaches(s) == wall < s /\ s <= wall'
Armed(s) == pc["daily"] = "wait" /\ target = s

\* Once main serves, the configured time finds the daily loop waiting for it:
\* neither a slow run nor a slow Slack makes the loop skip a day.
ServingMeetsSlot ==
    [][\A s \in Slots : IsDue(s) /\ Reaches(s) /\ pc["main"] = "await" => Armed(s)]_vars

\* README: "Daily loop at scheduler.daily_at_utc - runs tasks then posts a
\* digest": the configured time finds the loop waiting whenever the process runs.
UpMeetsSlot ==
    [][\A s \in Slots : IsDue(s) /\ Reaches(s) /\ pc["main"] \in {"run", "await"}
                             => Armed(s)]_vars

\* A digest leaves within the run limit of its instant, or not at all: nobody
\* reads yesterday's digest in the middle of the day.
DigestOnTime ==
    [][\A s \in Slots : wire'[s] > wire[s] => wall < s + RunLimit]_vars

\* README: the daily loop "runs tasks then posts a digest to Slack": when the run
\* is over there is still a context to post its digest in.
DigestBeatsDeadline ==
    pc["daily"] = "send" => age["daily"] < RunLimit

\* main.go dailyLoop, the other side of it: a digest that the process goes on without
\* handing to Slack is one whose run was still under way when the run limit had passed
\* since its instant, or the process is on its way out.  A run that ends in time posts.
GivenUpOnlyLate ==
    [][pc["daily"] = "send" /\ pc'["daily"] = "arm" =>
          wall >= target + RunLimit \/ cancelled]_vars

\* No outcome of a run or of a request wedges the daily loop: as long as main
\* serves, an instant the loop waits for is followed by a wait for a later one.
DailyGoesOn ==
    \A s \in 0..Horizon :
        Armed(s) ~> (pc["daily"] = "wait" /\ target > s) \/ pc["main"] # "await"

=============================================================================
