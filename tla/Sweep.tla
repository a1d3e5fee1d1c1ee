-------------------------------- MODULE Sweep --------------------------------
(***************************************************************************)
(* RunAll of reconciler.go and what it does to the metrics endpoint and to *)
(* the digest, while the chain moves, calls fail, and another goroutine    *)
(* may be in a RunAll of its own.                                          *)
(*                                                                         *)
(* The value of a read is represented by where it comes from: the block    *)
(* that was the head of the chain when the node answered, 0 for none.  A   *)
(* gauge holds, for each read it is computed from, the block its value     *)
(* shows.  What the tasks read and publish is the constant Plans.          *)
(***************************************************************************)
EXTENDS Naturals, Sequences, FiniteSets, FiniteSetsExt

CONSTANTS
    Runners,        \* the goroutines that call RunAll
    Plans,          \* the plan of every job, a task of a version, in RunAll's order
    Inputs,         \* Inputs[g]: the reads that gauge g is computed from
    Cut, None,      \* marks used in plans
    MaxBlock,       \* bound: the head of the chain stops here
    MaxFaults       \* bound: calls that may fail

Items(p) == UNION {p.loops[i] : i \in DOMAIN p.loops}
AllItems == UNION {Items(Plans[j]) : j \in DOMAIN Plans}
StepsOf(item) == {item[i] : i \in DOMAIN item}
CallsOf(item) == {s.call : s \in StepsOf(item)} \ {None}
AllSteps == UNION {StepsOf(item) : item \in AllItems}
Reads == {s.call : s \in AllSteps} \ {None}
Gauges == DOMAIN Inputs
Jobs == DOMAIN Plans
Blocks == 0..MaxBlock

NothingRead == [x \in Reads |-> 0]

\* Whoever sets a gauge that shows one read has the value: the read is the call of
\* this step, or of an earlier one whose failure drops this step, or in "have".
Backed(steps, have) ==
    \A i \in DOMAIN steps : \A g \in Reads :
        (\E k \in DOMAIN steps[i].pub : steps[i].pub[k] = g)
            => \/ have[g] # 0
               \/ steps[i].call = g
               \/ \E h \in 1..(i - 1) : steps[h].call = g /\ steps[h].onErr # "next"

\* What the tables of any configuration are like (PlansProofs).
SoundPlans ==
    /\ Len(Plans) \in Nat \ {0} /\ Jobs = 1..Len(Plans)
    /\ \A j \in Jobs : Plans[j].loops \in Seq(SUBSET AllItems)
    /\ \A item \in AllItems : item \in Seq(AllSteps)
    /\ \A s \in AllSteps : s.pub \in Seq(Gauges \cup {Cut})
    /\ Cut \notin Gauges \cup Reads
    /\ \A g \in Gauges : Inputs[g] \subseteq Reads /\ (g \in Reads => Inputs[g] = {g})
    /\ \A item \in AllItems : Backed(item, NothingRead)

ASSUME SweepAssumption == MaxBlock \in Nat \ {0} /\ MaxFaults \in Nat /\ SoundPlans

VARIABLES
    head,       \* newest block of the chain
    faults,     \* calls that have failed
    gauge,      \* gauge[g][x]: block of the value of x that g shows
    stamp,      \* stamp[j]: head at the last last_run_timestamp of job j
    errors,     \* reconciler_errors_total, all labels
    job,        \* job[r]: the job r is in; 0 before its first run
    loop,       \* how many loops of the plan r has entered
    items,      \* items of the current loop that are left
    rest,       \* steps of the current item that are left
    out,        \* gauges left to set from the last answer
    got,        \* got[r][x]: block at which the current job read x
    found,      \* reads that failed in the current job: the findings of its report
    reports,    \* findings of the finished jobs of the current run
    start,      \* head when the run of r began
    floor,      \* the oldest start among the runs active then
    met,        \* met[r]: the run of r has overlapped another
    suspect     \* reads that failed in other runs that overlap the run of r

local == <<loop, items, rest, out, got, found>>
run == <<job, reports, start, floor, met>>
vars == <<head, faults, gauge, stamp, errors, local, run, suspect>>

Active(r) == job[r] \in Jobs
Done(r) == job[r] = Len(Plans) + 1
Plan(r) == Plans[job[r]]

-----------------------------------------------------------------------------

Init ==
    /\ head = 1
    /\ faults = 0
    /\ gauge = [g \in Gauges |-> [x \in Inputs[g] |-> 0]]
    /\ stamp = [j \in Jobs |-> 0]
    /\ errors = 0
    /\ job = [r \in Runners |-> 0]
    /\ loop = [r \in Runners |-> 0]
    /\ items = [r \in Runners |-> {}]
    /\ rest = [r \in Runners |-> <<>>]
    /\ out = [r \in Runners |-> <<>>]
    /\ got = [r \in Runners |-> NothingRead]
    /\ found = [r \in Runners |-> {}]
    /\ reports = [r \in Runners |-> <<>>]
    /\ start = [r \in Runners |-> 0]
    /\ floor = [r \in Runners |-> 0]
    /\ met = [r \in Runners |-> FALSE]
    /\ suspect = [r \in Runners |-> {}]

NewBlock ==
    /\ head < MaxBlock
    /\ head' = head + 1
    /\ UNCHANGED <<faults, gauge, stamp, errors, local, run, suspect>>

\* Failures reported so far by the run of r.
Reported(r) == found[r] \cup UNION {reports[r][j] : j \in DOMAIN reports[r]}

\* A loop's tick, or main: RunAll is called.
Begin(r) ==
    /\ ~Active(r)
    /\ job' = [job EXCEPT ![r] = 1]
    /\ start' = [start EXCEPT ![r] = head]
    /\ floor' = [floor EXCEPT ![r] = Min({head} \cup {start[q] : q \in {q \in Runners : Active(q)}})]
    /\ met' = LET busy == {q \in Runners : Active(q)}
              IN [q \in Runners |-> busy # {} /\ q \in busy \cup {r}]
    /\ reports' = [reports EXCEPT ![r] = <<>>]
    /\ suspect' = [suspect EXCEPT ![r] = UNION {Reported(q) : q \in {q \in Runners : Active(q)}}]
    /\ UNCHANGED <<head, faults, gauge, stamp, errors, local>>

\* The current item is finished.
ItemOver(r) == rest[r] = <<>> /\ out[r] = <<>>

NextLoop(r) ==
    /\ ItemOver(r) /\ items[r] = {}
    /\ loop[r] < Len(Plan(r).loops)
    /\ loop' = [loop EXCEPT ![r] = @ + 1]
    /\ items' = [items EXCEPT ![r] = Plan(r).loops[loop[r] + 1]]
    /\ UNCHANGED <<head, faults, gauge, stamp, errors, run, suspect, rest, out, got, found>>

PickItem(r) ==
    /\ ItemOver(r)
    /\ \E i \in items[r] :
          /\ items' = [items EXCEPT ![r] = @ \ {i}]
          /\ rest' = [rest EXCEPT ![r] = i]
    /\ UNCHANGED <<head, faults, gauge, stamp, errors, run, suspect, loop, out, got, found>>

\* Mutated form: what the endpoint shows already is not read again.
AnswerCached(r) ==
    /\ rest[r] # <<>> /\ out[r] = <<>>
    /\ Head(rest[r]).call # None
    /\ LET x == Head(rest[r]).call
       IN got' = [got EXCEPT ![r][x] =
                     IF x \in Gauges /\ gauge[x][x] # 0 THEN gauge[x][x] ELSE head]
    /\ out' = [out EXCEPT ![r] = Head(rest[r]).pub]
    /\ rest' = [rest EXCEPT ![r] = Tail(@)]
    /\ UNCHANGED <<head, faults, gauge, stamp, errors, run, suspect, loop, items, found>>

\* The node answers with the state of its newest block.
Answer(r) ==
    /\ rest[r] # <<>> /\ out[r] = <<>>
    /\ Head(rest[r]).call # None
    /\ got' = [got EXCEPT ![r][Head(rest[r]).call] = head]
    /\ out' = [out EXCEPT ![r] = Head(rest[r]).pub]
    /\ rest' = [rest EXCEPT ![r] = Tail(@)]
    /\ UNCHANGED <<head, faults, gauge, stamp, errors, run, suspect, loop, items, found>>

\* Mutated form: the items that are left go with the one that failed.
FailReturns(r) ==
    /\ rest[r] # <<>> /\ out[r] = <<>>
    /\ Head(rest[r]).call # None
    /\ faults < MaxFaults
    /\ faults' = faults + 1
    /\ found' = [found EXCEPT ![r] = @ \cup {Head(rest[r]).call}]
    /\ suspect' = [q \in Runners |-> IF q = r THEN suspect[q]
                                     ELSE suspect[q] \cup {Head(rest[r]).call}]
    /\ LET how == Head(rest[r]).onErr
       IN /\ rest' = [rest EXCEPT ![r] = IF how = "next" THEN Tail(@) ELSE <<>>]
          /\ items' = [items EXCEPT ![r] = IF how # "next" THEN {} ELSE @]
          /\ loop' = [loop EXCEPT ![r] = IF how # "next" THEN Len(Plan(r).loops) + 1 ELSE @]
    /\ UNCHANGED <<head, gauge, stamp, errors, run, out, got>>

\* A call is refused, reverts or times out.  Its error is a finding of the report.
Fail(r) ==
    /\ rest[r] # <<>> /\ out[r] = <<>>
    /\ Head(rest[r]).call # None
    /\ faults < MaxFaults
    /\ faults' = faults + 1
    /\ found' = [found EXCEPT ![r] = @ \cup {Head(rest[r]).call}]
    /\ suspect' = [q \in Runners |-> IF q = r THEN suspect[q]
                                     ELSE suspect[q] \cup {Head(rest[r]).call}]
    /\ LET how == Head(rest[r]).onErr
       IN /\ rest' = [rest EXCEPT ![r] = IF how = "next" THEN Tail(@) ELSE <<>>]
          /\ items' = [items EXCEPT ![r] = IF how = "task" THEN {} ELSE @]
          /\ loop' = [loop EXCEPT ![r] = IF how = "task" THEN Len(Plan(r).loops) + 1 ELSE @]
    /\ UNCHANGED <<head, gauge, stamp, errors, run, out, got>>

\* A step that calls nothing: only what was read before is published.
Compute(r) ==
    /\ rest[r] # <<>> /\ out[r] = <<>>
    /\ Head(rest[r]).call = None
    /\ out' = [out EXCEPT ![r] = Head(rest[r]).pub]
    /\ rest' = [rest EXCEPT ![r] = Tail(@)]
    /\ UNCHANGED <<head, faults, gauge, stamp, errors, run, suspect, loop, items, got, found>>

\* One gauge is set from what the job has read.
Publish(r) ==
    /\ out[r] # <<>> /\ Head(out[r]) # Cut
    /\ gauge' = [gauge EXCEPT ![Head(out[r])] = [x \in Inputs[Head(out[r])] |-> got[r][x]]]
    /\ out' = [out EXCEPT ![r] = Tail(@)]
    /\ UNCHANGED <<head, faults, stamp, errors, run, suspect, loop, items, rest, got, found>>

\* The value read decides whether the item goes on.
GoOn(r) ==
    /\ out[r] # <<>> /\ Head(out[r]) = Cut
    /\ \/ out' = [out EXCEPT ![r] = Tail(@)] /\ UNCHANGED rest
       \/ out' = [out EXCEPT ![r] = <<>>] /\ rest' = [rest EXCEPT ![r] = <<>>]
    /\ UNCHANGED <<head, faults, gauge, stamp, errors, run, suspect, loop, items, got, found>>

\* Every Run of every task ends in "return rep, nil".
RunError(r) == FALSE

\* Nothing of the job is left: its loops are done, or it returned early.
JobOver(r) == ItemOver(r) /\ items[r] = {} /\ loop[r] >= Len(Plan(r).loops)

\* Mutated form: the report of a finished job is not collected.
FinishJobDropsReport(r) ==
    /\ JobOver(r)
    /\ stamp' = IF Plan(r).stamped /\ loop[r] = Len(Plan(r).loops)
                THEN [stamp EXCEPT ![job[r]] = head] ELSE stamp
    /\ reports' = reports
    /\ job' = [job EXCEPT ![r] = @ + 1]
    /\ loop' = [loop EXCEPT ![r] = 0]
    /\ got' = [got EXCEPT ![r] = NothingRead]
    /\ found' = [found EXCEPT ![r] = {}]
    /\ UNCHANGED <<head, faults, gauge, errors, start, floor, met, suspect, items, rest, out>>

\* Mutated form: what a Run has read is kept for the next one.
FinishJobKeepsReads(r) ==
    /\ JobOver(r)
    /\ stamp' = IF Plan(r).stamped /\ loop[r] = Len(Plan(r).loops)
                THEN [stamp EXCEPT ![job[r]] = head] ELSE stamp
    /\ reports' = [reports EXCEPT ![r] = Append(@, found[r])]
    /\ job' = [job EXCEPT ![r] = @ + 1]
    /\ loop' = [loop EXCEPT ![r] = 0]
    /\ found' = [found EXCEPT ![r] = {}]
    /\ UNCHANGED <<head, faults, gauge, errors, start, floor, met, suspect, items, rest, out, got>>

\* Run returns: the timestamp unless the return was early, the error counter if there
\* is an error, the report into the digest.  RunAll goes on with the next job.
FinishJob(r) ==
    /\ JobOver(r)
    /\ stamp' = IF Plan(r).stamped /\ loop[r] = Len(Plan(r).loops)
                THEN [stamp EXCEPT ![job[r]] = head] ELSE stamp
    /\ errors' = IF RunError(r) THEN errors + 1 ELSE errors
    /\ reports' = [reports EXCEPT ![r] = Append(@, found[r])]
    /\ job' = [job EXCEPT ![r] = @ + 1]
    /\ loop' = [loop EXCEPT ![r] = 0]
    /\ got' = [got EXCEPT ![r] = NothingRead]
    /\ found' = [found EXCEPT ![r] = {}]
    /\ UNCHANGED <<head, faults, gauge, start, floor, met, suspect, items, rest, out>>

-----------------------------------------------------------------------------

\* What RunAll does next in the job it is in.
Step(r) ==
    /\ Active(r)
    /\ \/ NextLoop(r) \/ PickItem(r) \/ Answer(r) \/ Fail(r) \/ Compute(r)
       \/ Publish(r) \/ GoOn(r) \/ FinishJob(r)

Next == NewBlock \/ \E r \in Runners : Begin(r) \/ Step(r)

Spec == Init /\ [][Next]_vars

\* A call ends (its timeout sees to that) and RunAll goes on; the quick loop starts
\* one sweep after the other (module Scheduler).  The chain owes nobody a block.
LiveSpec == Spec /\ \A r \in Runners : WF_vars(Step(r)) /\ WF_vars(Begin(r))

-----------------------------------------------------------------------------
(* Properties.                                                              *)

\* Every variable has its type: provenance is a block the chain has reached, and a
\* run has one report for each job it has finished.
TypeOK ==
    /\ head \in Blocks
    /\ faults \in 0..MaxFaults
    /\ DOMAIN gauge = Gauges
    /\ \A g \in Gauges : gauge[g] \in [Inputs[g] -> 0..head]
    /\ stamp \in [Jobs -> 0..head]
    /\ errors \in Nat
    /\ job \in [Runners -> 0..(Len(Plans) + 1)]
    /\ loop \in [Runners -> Nat]
    /\ items \in [Runners -> SUBSET AllItems]
    /\ rest \in [Runners -> Seq(AllSteps)]
    /\ out \in [Runners -> Seq(Gauges \cup {Cut})]
    /\ got \in [Runners -> [Reads -> 0..head]]
    /\ found \in [Runners -> SUBSET Reads]
    /\ reports \in [Runners -> Seq(SUBSET Reads)]
    /\ \A r \in Runners : Active(r) \/ Done(r) => Len(reports[r]) = job[r] - 1
    /\ start \in [Runners -> 0..head]
    /\ floor \in [Runners -> 0..head]
    /\ met \in [Runners -> BOOLEAN]
    /\ suspect \in [Runners -> SUBSET Reads]

Publishes(item, g) == \E i \in DOMAIN item : \E k \in DOMAIN item[i].pub : item[i].pub[k] = g

\* Gauges whose publication depends on the value that was read.
Conditional ==
    {g \in Gauges : \E item \in AllItems : \E i \in DOMAIN item :
        \E k \in DOMAIN item[i].pub :
            /\ item[i].pub[k] = g
            /\ \E h \in 1..i : \E c \in DOMAIN item[h].pub :
                  item[h].pub[c] = Cut /\ (h < i \/ c < k)}

\* The reads whose failure keeps g from being published, or from being whole.
Excuses(g) == UNION {CallsOf(i) : i \in {i \in AllItems : CallsOf(i) \cap Inputs[g] # {}}}

Firm == Gauges \ Conditional
Needed == UNION {Inputs[g] : g \in Firm}

\* What the tables of the twelve tasks have in common, whatever the configuration: every
\* gauge is somebody's; a call that takes a gauge with it when it fails, out of its item
\* or by an early return, is read together with what the gauge shows; and what a gauge
\* is computed from has been called by then, and never depends on a value read.
RegularPlans ==
    /\ \A g \in Firm : \E j \in Jobs : \E item \in Items(Plans[j]) : Publishes(item, g)
    /\ \A item \in AllItems : \A g \in Firm :
          Publishes(item, g) => CallsOf(item) \subseteq Excuses(g)
    /\ \A j \in Jobs : \A l \in DOMAIN Plans[j].loops : \A item \in Plans[j].loops[l] :
          /\ \A s \in StepsOf(item) : s.onErr = "task" /\ s.call # None =>
                \A m \in l..Len(Plans[j].loops) : \A other \in Plans[j].loops[m] :
                    \A g \in Firm : Publishes(other, g) => s.call \in Excuses(g)
          /\ \A i \in DOMAIN item : \A k \in DOMAIN item[i].pub :
                item[i].pub[k] \in Firm => \A x \in Inputs[item[i].pub[k]] :
                    \/ \E h \in 1..i : item[h].call = x
                    \/ \E m \in 1..(l - 1) : \E other \in Plans[j].loops[m] : x \in CallsOf(other)
    /\ \A item \in AllItems : \A i \in DOMAIN item : \A h \in 1..(i - 1) :
          Cut \in {item[h].pub[c] : c \in DOMAIN item[h].pub} => item[i].call \notin Needed

FreshSince(g, b) == \A x \in Inputs[g] : gauge[g][x] >= b

\* When a run is over, every gauge shows the chain as it was when the run (or one it
\* overlaps) began or later, computed from all it should be computed from - or a
\* finding names the call that failed.  RunAll neither stops at a failed task nor
\* loses a finding, and two loops do not undo each other's work beyond that.
FreshOrReported ==
    \A r \in Runners : Done(r) =>
        \A g \in Firm :
            \/ FreshSince(g, floor[r])
            \/ Excuses(g) \cap (Reported(r) \cup suspect[r]) # {}

\* role.go: grants are detected "downstream by Prometheus via changes(...)" of the
\* gauge.  A gauge never goes back to an older state of the chain, nor to nothing
\* (a sum may lose a term): each change Prometheus counts is one that happened.
NoPhantomChange ==
    [][\A g \in Gauges : \A x \in Inputs[g] :
          \/ gauge'[g][x] >= gauge[g][x]
          \/ gauge'[g][x] = 0 /\ g # x]_vars

\* main.go: what two loops can make of that, and no more.  A gauge goes back only in a
\* run that overlaps another, and not behind the start of that run: a count that went
\* down was so while the run that shows it was under way.
PhantomOnlyOverlapped ==
    [][\A g \in Gauges : \A x \in Inputs[g] :
          \/ gauge'[g][x] >= gauge[g][x]
          \/ gauge'[g][x] = 0 /\ g # x
          \/ \E r \in Runners : Active(r) /\ met[r] /\ start[r] <= gauge'[g][x]]_vars

\* Once the chain rests and calls succeed, every gauge comes to show its state.
Converges ==
    <>[](\A g \in Firm : FreshSince(g, head))

=============================================================================
