---------------------------- MODULE TimedScheduler ----------------------------
(***************************************************************************)
(* The process of module Scheduler with the calls inside its runs.         *)
(*                                                                         *)
(* Scheduler takes the longest run, MaxRun, as a constant.  Here nothing   *)
(* bounds a run but what the code does: RunAll makes its calls one after   *)
(* the other, and each has a timeout of its own, counted from context      *)
(* Background and not from the context of the run.  The process with calls *)
(* implements the Scheduler whose MaxRun is their number times the timeout.*)
(***************************************************************************)
EXTENDS Integers

CONSTANTS Day, DailyAt, QuickInterval, RunLimit, SendLimit, WebhookSet, Prompt,
          ClockSteps, Horizon   \* as in module Scheduler

CONSTANTS
    Calls,          \* the calls of a run in which none fails
    CallLimit       \* rpc.request_timeout

ASSUME TimedAssumption ==
    Calls \in Nat \ {0} /\ CallLimit \in Nat \ {0} /\ RunLimit \in Nat

VARIABLES wall, up, cancelled, pc, age, left, tickReady, target, wire, posted, dataAge

VARIABLES
    calls,      \* calls[l]: calls that the run of l has not finished
    callLeft    \* callLeft[l]: ticks until the current call of l times out

\* The steps of the process.  This MaxRun is never reached: no run of the model is
\* older than the horizon, so Scheduler's own bound on a run bounds nothing.
S == INSTANCE Scheduler WITH MaxRun <- Horizon + 1

process == <<wall, up, cancelled, pc, age, left, tickReady, target, wire, posted, dataAge>>
timing == <<calls, callLeft>>
vars == <<process, timing>>

InRun(l) == pc[l] \in {"run", "once"}

-----------------------------------------------------------------------------

Init ==
    /\ S!Init
    /\ calls = [l \in S!Loops |-> 0]
    /\ callLeft = [l \in S!Loops |-> 0]

\* RunAll is called: its first call goes out.
BeginRun(l) ==
    /\ calls' = [calls EXCEPT ![l] = Calls]
    /\ callLeft' = [callLeft EXCEPT ![l] = CallLimit]

Starts ==
    \/ (S!Boot \/ S!BootOnce) /\ BeginRun("main")
    \/ S!QuickFire /\ BeginRun("quick")
    \/ S!DailyFire /\ BeginRun("daily")

\* Mutated form: a call that failed is made again.
CallReturnRetry(l) ==
    /\ InRun(l)
    /\ \E n \in 1..calls[l] : calls' = [calls EXCEPT ![l] = n]
    /\ callLeft' = [callLeft EXCEPT ![l] = CallLimit]
    /\ UNCHANGED process

\* A call is answered, or it fails, at its timeout at the latest, and then perhaps
\* takes calls with it that depend on it (module TaskPlans).  The next one goes out.
CallReturn(l) ==
    /\ InRun(l)
    /\ \E n \in 1..(calls[l] - 1) : calls' = [calls EXCEPT ![l] = n]
    /\ callLeft' = [callLeft EXCEPT ![l] = CallLimit]
    /\ UNCHANGED process

\* The call was the last one, or took all others with it: RunAll returns.
RunEnd(l) == S!RunEnd(l) /\ UNCHANGED timing

CallOver(l) == CallReturn(l) \/ RunEnd(l)

\* Mutated form: a call waits for its answer as long as it takes.
TickNoTimeout ==
    /\ S!Tick
    /\ callLeft' = [l \in S!Loops |-> IF InRun(l) /\ callLeft[l] > 0
                                      THEN callLeft[l] - 1 ELSE callLeft[l]]
    /\ UNCHANGED calls

\* Time passes while a call is under way, and not past its timeout.
Tick ==
    /\ S!Tick
    /\ \A l \in S!Loops : InRun(l) => callLeft[l] > 0
    /\ callLeft' = [l \in S!Loops |-> IF InRun(l) THEN callLeft[l] - 1 ELSE callLeft[l]]
    /\ UNCHANGED calls

\* What has nothing to do with the calls of a run.
Others ==
    /\ \/ S!Crash \/ S!Sigterm \/ S!CancelLoops \/ S!Exit \/ S!OnceExit
       \/ \E l \in S!Loops : S!LoopReturn(l)
       \/ S!QuickStart \/ S!DailyArm
       \/ \E l \in S!Senders : S!Send(l) \/ S!SendReturn(l)
       \/ \E s \in S!Slots : S!SlackAccept(s) \/ S!SlackLose(s)
       \/ \E d \in ClockSteps : S!StepClock(d)
    /\ UNCHANGED timing

Next ==
    \/ Starts
    \/ \E l \in S!Loops : CallOver(l)
    \/ Tick
    \/ Others

Spec == Init /\ [][Next]_vars

\* Scheduler's fairness, but what is assumed of a run is only that its current call
\* returns.
LiveSpec ==
    /\ Spec
    /\ WF_vars(Tick)
    /\ \A l \in S!Loops : WF_vars(CallOver(l))
    /\ \A l \in S!Senders :
          WF_vars(S!Send(l) /\ UNCHANGED timing) /\ WF_vars(S!SendReturn(l) /\ UNCHANGED timing)
    /\ WF_vars(S!QuickStart /\ UNCHANGED timing) /\ WF_vars(S!DailyArm /\ UNCHANGED timing)
    /\ WF_vars(S!QuickFire /\ BeginRun("quick")) /\ WF_vars(S!DailyFire /\ BeginRun("daily"))

-----------------------------------------------------------------------------
(* Properties.                                                              *)

\* What the calls of a run have taken so far and what they can still take is no more
\* than the number of calls times the timeout.
TimeSpent(l) ==
    /\ calls[l] \in 0..Calls
    /\ callLeft[l] \in 0..CallLimit
    /\ InRun(l) => /\ calls[l] > 0
                   /\ age[l] + (calls[l] - 1) * CallLimit + callLeft[l] <= Calls * CallLimit

\* The type invariant: the bookkeeping of the calls, of every goroutine.
TypeOK ==
    /\ DOMAIN calls = S!Loops /\ DOMAIN callLeft = S!Loops
    /\ \A l \in S!Loops : TimeSpent(l)

\* The process with its calls implements Scheduler, fairness included: nothing that
\* was assumed there of the length of a run, or of its end, is missing here.
Abstract == INSTANCE Scheduler WITH MaxRun <- Calls * CallLimit
RunsAreBounded == Abstract!LiveSpec

\* client.go call, main.go dailyLoop: a digest that finds its context expired owes that to
\* the calls of its own run - those it made, and those that they took with them when they
\* failed, would fill the limit at one timeout each.  No other run, no earlier digest and
\* no wait of the loop adds to it, whether or not all calls of a run fit into the limit.
LateByItsCalls ==
    pc["daily"] = "send" /\ age["daily"] >= RunLimit =>
        (Calls - calls["daily"] + 1) * CallLimit >= RunLimit

\* main.go dailyLoop: the digest of every instant that the loop waits for leaves the process,
\* whatever calls fail and however long they take, unless the process ends or the run of
\* the digest itself is over only after its limit.
DigestLeaves ==
    \A s \in 0..(Horizon - RunLimit) :
        Abstract!Armed(s) ~>
            \/ Abstract!Handed(s) > 0
            \/ pc["main"] # "await"
            \/ pc["daily"] = "send" /\ target = s /\ age["daily"] >= RunLimit

=============================================================================
