--------------------------- MODULE SchedulerProofs ---------------------------
(***************************************************************************)
(* Theorems about module Scheduler, for every value of its constants that  *)
(* SchedulerAssumption allows: type correctness, the invariant of the      *)
(* digests, that the process implements module DailyDigest, that only time *)
(* makes it give up a digest, and the time bounds of prompt goroutines.    *)
(***************************************************************************)
EXTENDS Scheduler, TLAPS

\* nextDailyAt returns a slot, strictly later than now and at most a day away.
LEMMA NextDailyAtLater ==
    ASSUME NEW w \in 0..Horizon
    PROVE  /\ NextDailyAt(w) \in Slots
           /\ NextDailyAt(w) > w
           /\ NextDailyAt(w) <= w + Day
<1>1. w % Day \in 0..(Day - 1) /\ w % Day <= w
  BY SchedulerAssumption
<1>2. CASE DailyAt = Unparsed
  BY <1>2, SchedulerAssumption DEF NextDailyAt, Slots, Unparsed
<1>3. CASE DailyAt \in 0..(Day - 1)
  <2>1. DailyAt # Unparsed
    BY <1>3 DEF Unparsed
  <2> DEFINE today == w - (w % Day) + DailyAt
  <2>2. today \in Nat /\ today < w + Day /\ today + Day > w
    BY <1>1, <1>3, SchedulerAssumption
  <2>3. NextDailyAt(w) = IF today > w THEN today ELSE today + Day
    BY <2>1 DEF NextDailyAt
  <2> HIDE DEF today
  <2>4. QED
    BY <2>2, <2>3, SchedulerAssumption DEF Slots
<1>4. QED
  BY <1>2, <1>3, SchedulerAssumption

-----------------------------------------------------------------------------
(* Type correctness.                                                        *)

LEMMA InitTypeOK == Init => TypeOK
<1> SUFFICES ASSUME Init PROVE TypeOK
  OBVIOUS
<1>1. 0 \in 0..Horizon /\ 0 \in Slots
  BY SchedulerAssumption DEF Slots
<1>2. /\ pc["main"] = "down" /\ pc["quick"] = "off" /\ pc["daily"] = "off"
      /\ pc \in [Loops -> {"down", "off"}]
  BY DEF Init, Loops
<1>3. QED
  BY <1>1, <1>2 DEF Init, TypeOK

\* When nothing is left of the process every variable still has its type.
LEMMA DownTypeOK == TypeOK /\ Down => TypeOK'
<1> SUFFICES ASSUME TypeOK, Down PROVE TypeOK'
  OBVIOUS
<1>1. 0 \in Slots
  BY SchedulerAssumption DEF Slots
<1>2. /\ pc'["main"] = "down" /\ pc'["quick"] = "off" /\ pc'["daily"] = "off"
      /\ pc' \in [Loops -> {"down", "off"}]
  BY DEF Down, Loops
<1>3. QED
  BY <1>1, <1>2 DEF Down, TypeOK, channel

LEMMA StepTypeOK == TypeOK /\ [Next]_vars => TypeOK'
<1> SUFFICES ASSUME TypeOK, [Next]_vars PROVE TypeOK'
  OBVIOUS
<1> USE SchedulerAssumption
<1>1. CASE Boot
  BY <1>1 DEF TypeOK, Boot, Loops, channel
<1>2. CASE BootOnce
  BY <1>2 DEF TypeOK, BootOnce, Loops, channel
<1>3. CASE Crash \/ Exit \/ OnceExit
  BY <1>3, DownTypeOK DEF Crash, Exit, OnceExit
<1>4. CASE Sigterm
  BY <1>4 DEF TypeOK, Sigterm, Loops, channel
<1>5. CASE CancelLoops
  BY <1>5 DEF TypeOK, CancelLoops, channel
<1>6. ASSUME NEW l \in Loops, RunEnd(l) PROVE TypeOK'
  <2>1. UNCHANGED <<wall, wire, posted, up, cancelled, left, tickReady, target>>
    BY <1>6 DEF RunEnd, channel
  <2>2. age' \in [Loops -> Nat]
    BY <1>6 DEF TypeOK, RunEnd
  <2>3. dataAge' \in Nat
    BY <1>6 DEF TypeOK, RunEnd, MinOf
  <2>4. l = "main" => AfterRun(l) \in {"send", "exit", "await"}
    BY <1>6 DEF AfterRun, RunEnd
  <2>5. l = "quick" => AfterRun(l) = "wait"
    BY <1>6 DEF AfterRun, RunEnd, TypeOK
  <2>6. l = "daily" => AfterRun(l) \in {"send", "arm"}
    BY <1>6 DEF AfterRun, RunEnd, TypeOK
  <2>7. pc'["main"] \in {"down", "once", "run", "send", "sending", "exit", "await", "stopping"}
    BY <1>6, <2>4 DEF RunEnd, TypeOK, Loops
  <2>8. pc'["quick"] \in {"off", "start", "wait", "run"}
    BY <1>6, <2>5 DEF RunEnd, TypeOK, Loops
  <2>9. pc'["daily"] \in {"off", "arm", "wait", "run", "send", "sending"}
    BY <1>6, <2>6 DEF RunEnd, TypeOK, Loops
  <2>10. pc' = [k \in Loops |-> pc'[k]]
    BY <1>6 DEF RunEnd
  <2>11. QED
    BY <2>1, <2>2, <2>3, <2>7, <2>8, <2>9, <2>10 DEF TypeOK, Loops
<1>7. ASSUME NEW l \in Loops, LoopReturn(l) PROVE TypeOK'
  BY <1>7 DEF TypeOK, LoopReturn, Loops, channel
<1>8. CASE QuickStart
  BY <1>8 DEF TypeOK, QuickStart, Loops, channel
<1>9. CASE QuickFire
  BY <1>9 DEF TypeOK, QuickFire, Loops, channel
<1>10. CASE DailyArm
  <2>1. NextDailyAt(wall) \in Slots /\ NextDailyAt(wall) > wall
    BY NextDailyAtLater DEF TypeOK
  <2>2. NextDailyAt(wall) - wall \in Nat
    BY <2>1 DEF TypeOK, Slots
  <2>3. QED
    BY <1>10, <2>1, <2>2 DEF TypeOK, DailyArm, Loops, channel
<1>11. CASE DailyFire
  BY <1>11 DEF TypeOK, DailyFire, Loops, channel
<1>12. ASSUME NEW l \in Senders, Send(l) PROVE TypeOK'
  <2>1. age[l] \in Nat /\ age[l] < RunLimit
    BY <1>12 DEF TypeOK, Send, ContextDone, Senders, Loops
  <2>2. MinOf(SendLimit, RunLimit - age[l]) \in Nat
    BY <2>1 DEF MinOf
  <2>3. wire' \in [Slots -> Nat]
    BY <1>12 DEF TypeOK, Send
  <2>4. left' \in [Loops -> Nat]
    BY <1>12, <2>2 DEF TypeOK, Send
  <2>5. QED
    BY <1>12, <2>3, <2>4 DEF TypeOK, Send, Senders, Loops
<1>13. ASSUME NEW l \in Senders, SendReturn(l) PROVE TypeOK'
  BY <1>13 DEF TypeOK, SendReturn, AfterDigest, Senders, Loops, channel
<1>14. ASSUME NEW s \in Slots, SlackAccept(s) PROVE TypeOK'
  BY <1>14 DEF TypeOK, SlackAccept, process
<1>15. ASSUME NEW s \in Slots, SlackLose(s) PROVE TypeOK'
  BY <1>15 DEF TypeOK, SlackLose, process
<1>16. CASE Tick
  <2>1. age' \in [Loops -> Nat]
    BY <1>16 DEF TypeOK, Tick
  <2>2. left' \in [Loops -> Nat]
    BY <1>16 DEF TypeOK, Tick
  <2>3. tickReady' \in BOOLEAN
    BY <1>16 DEF TypeOK, Tick
  <2>4. wall' \in 0..Horizon /\ dataAge' \in Nat
    BY <1>16 DEF TypeOK, Tick
  <2>5. QED
    BY <1>16, <2>1, <2>2, <2>3, <2>4 DEF TypeOK, Tick, channel
<1>17. ASSUME NEW d \in ClockSteps, StepClock(d) PROVE TypeOK'
  BY <1>17 DEF TypeOK, StepClock, process, channel
<1>18. CASE UNCHANGED vars
  BY <1>18 DEF TypeOK, vars, process, channel
<1>19. QED
  BY <1>1, <1>2, <1>3, <1>4, <1>5, <1>6, <1>7, <1>8, <1>9, <1>10, <1>11, <1>12,
     <1>13, <1>14, <1>15, <1>16, <1>17, <1>18 DEF Next, LoopNext, SenderNext

\* Every goroutine is at a program point of its own and every counter a natural,
\* through crashes, restarts and any order of the timers.
THEOREM TypeCorrect == Spec => []TypeOK
  BY InitTypeOK, StepTypeOK, PTL DEF Spec

-----------------------------------------------------------------------------
(* The invariant of the digests.  It is inductive together with TypeOK:     *)
(* TargetUnserved is what keeps a second digest of a slot from leaving, and *)
(* TimerNotEarly is what keeps it from leaving early; both follow, when the *)
(* loop arms its timer, from NextDailyAtLater and DueOnce.                  *)

\* Steps that leave alone what the invariant is about keep it.
LEMMA SameDigestState ==
    ASSUME DigestInv,
           UNCHANGED <<wall, wire, posted, target, left>>,
           \/ pc'["daily"] = pc["daily"]
           \/ pc'["daily"] \in {"off", "arm"}
    PROVE  DigestInv'
  BY DEF DigestInv, DueOnce, TargetUnserved, TimerNotEarly, Handed

\* A process that is gone waits for no slot; what it sent stays as it was.
LEMMA DownDigestInv == TypeOK /\ DigestInv /\ Down => DigestInv'
<1> SUFFICES ASSUME TypeOK, DigestInv, Down PROVE DigestInv'
  OBVIOUS
<1>1. pc'["daily"] = "off"
  BY DEF Down, Loops
<1>2. QED
  BY <1>1 DEF Down, DigestInv, DueOnce, TargetUnserved, TimerNotEarly, Handed, channel

LEMMA StepDigestInv == TypeOK /\ DigestInv /\ [Next]_vars => DigestInv'
<1> SUFFICES ASSUME TypeOK, DigestInv, [Next]_vars PROVE DigestInv'
  OBVIOUS
<1>1. CASE Boot \/ BootOnce \/ Sigterm \/ CancelLoops
  <2>1. UNCHANGED <<wall, wire, posted, target, left>> /\ pc'["daily"] = pc["daily"]
    BY <1>1 DEF Boot, BootOnce, Sigterm, CancelLoops, channel, TypeOK, Loops
  <2>2. QED
    BY <2>1, SameDigestState
<1>2. CASE Crash \/ Exit \/ OnceExit
  BY <1>2, DownDigestInv DEF Crash, Exit, OnceExit
<1>3. ASSUME NEW l \in Loops, RunEnd(l) PROVE DigestInv'
  <2>1. UNCHANGED <<wall, wire, posted, target, left>>
    BY <1>3 DEF RunEnd, channel
  <2>2. CASE l # "daily"
    <3>1. pc'["daily"] \in {pc["daily"], "arm"}
      BY <1>3, <2>2 DEF RunEnd, Loops
    <3>2. QED
      BY <2>1, <3>1, SameDigestState
  <2>3. CASE l = "daily"
    <3>1. pc["daily"] = "run" /\ pc'["daily"] \in {"send", "arm"}
      BY <1>3, <2>3 DEF RunEnd, AfterRun, Loops, TypeOK
    <3>2. QED
      BY <2>1, <3>1 DEF DigestInv, DueOnce, TargetUnserved, TimerNotEarly, Handed
  <2>4. QED
    BY <2>2, <2>3
<1>4. ASSUME NEW l \in Loops, LoopReturn(l) PROVE DigestInv'
  <2>1. /\ UNCHANGED <<wall, wire, posted, target, left>>
        /\ pc'["daily"] \in {pc["daily"], "off"}
    BY <1>4 DEF LoopReturn, channel, TypeOK, Loops
  <2>2. QED
    BY <2>1, SameDigestState
<1>5. CASE QuickStart
  BY <1>5 DEF QuickStart, channel, TypeOK, Loops, Slots,
     DigestInv, DueOnce, TargetUnserved, TimerNotEarly, Handed
<1>6. CASE QuickFire
  <2>1. UNCHANGED <<wall, wire, posted, target, left>> /\ pc'["daily"] = pc["daily"]
    BY <1>6 DEF QuickFire, channel, TypeOK, Loops
  <2>2. QED
    BY <2>1, SameDigestState
<1>7. CASE DailyArm
  <2> DEFINE next == NextDailyAt(wall)
  <2>1. next \in Slots /\ next > wall
    BY NextDailyAtLater DEF TypeOK
  <2> HIDE DEF next
  <2>2. /\ UNCHANGED <<wall, wire, posted>>
        /\ target' = next /\ pc'["daily"] = "wait" /\ left'["daily"] = next - wall
    BY <1>7 DEF DailyArm, channel, TypeOK, Loops, next
  <2>3. Handed(next) = 0
    BY <2>1 DEF DigestInv, DueOnce, Handed, TypeOK, Slots
  <2>4. DueOnce'
    BY <2>2 DEF DigestInv, DueOnce, Handed
  <2>5. TargetUnserved'
    BY <2>2, <2>3 DEF TargetUnserved, Handed
  <2>6. TimerNotEarly'
    BY <2>1, <2>2 DEF TimerNotEarly, TypeOK, Slots
  <2>7. QED
    BY <2>4, <2>5, <2>6 DEF DigestInv
<1>8. CASE DailyFire
  <2>1. /\ UNCHANGED <<wall, wire, posted, target, left>>
        /\ pc["daily"] = "wait" /\ left["daily"] = 0 /\ pc'["daily"] = "run"
    BY <1>8 DEF DailyFire, channel, TypeOK, Loops
  <2>2. wall >= target
    BY <2>1 DEF DigestInv, TimerNotEarly, TypeOK
  <2>3. QED
    BY <2>1, <2>2 DEF DigestInv, DueOnce, TargetUnserved, TimerNotEarly, Handed
<1>9. ASSUME NEW l \in Senders, Send(l) PROVE DigestInv'
  <2>1. UNCHANGED <<wall, posted, target>>
    BY <1>9 DEF Send
  <2>2. CASE l = "main"
    <3>1. /\ UNCHANGED wire /\ pc'["daily"] = pc["daily"]
          /\ left'["daily"] = left["daily"]
      BY <1>9, <2>2 DEF Send, TypeOK, Loops
    <3>2. QED
      BY <2>1, <3>1 DEF DigestInv, DueOnce, TargetUnserved, TimerNotEarly, Handed
  <2>3. CASE l = "daily"
    <3>1. /\ pc["daily"] = "send" /\ pc'["daily"] = "sending"
          /\ wire' = [wire EXCEPT ![target] = @ + 1]
      BY <1>9, <2>3 DEF Send, TypeOK, Loops
    <3>2. Handed(target) = 0 /\ target <= wall
      BY <3>1 DEF DigestInv, TargetUnserved, TimerNotEarly, TypeOK, Slots
    <3>3. ASSUME NEW s \in Slots
          PROVE  Handed(s)' = IF s = target THEN 1 ELSE Handed(s)
      BY <2>1, <3>1, <3>2 DEF Handed, TypeOK
    <3>4. DueOnce'
      BY <2>1, <3>2, <3>3 DEF DigestInv, DueOnce
    <3>5. QED
      BY <2>1, <3>1, <3>2, <3>4 DEF DigestInv, TargetUnserved, TimerNotEarly, TypeOK, Slots
  <2>4. QED
    BY <2>2, <2>3 DEF Senders
<1>10. ASSUME NEW l \in Senders, SendReturn(l) PROVE DigestInv'
  <2>1. UNCHANGED <<wall, wire, posted, target>>
    BY <1>10 DEF SendReturn, channel
  <2>2. CASE l = "main"
    <3>1. pc'["daily"] = pc["daily"] /\ left'["daily"] = left["daily"]
      BY <1>10, <2>2 DEF SendReturn, TypeOK, Loops
    <3>2. QED
      BY <2>1, <3>1 DEF DigestInv, DueOnce, TargetUnserved, TimerNotEarly, Handed
  <2>3. CASE l = "daily"
    <3>1. pc'["daily"] = "arm"
      BY <1>10, <2>3 DEF SendReturn, AfterDigest, TypeOK, Loops
    <3>2. QED
      BY <2>1, <3>1 DEF DigestInv, DueOnce, TargetUnserved, TimerNotEarly, Handed
  <2>4. QED
    BY <2>2, <2>3 DEF Senders
<1>11. ASSUME NEW s \in Slots, SlackAccept(s) PROVE DigestInv'
  <2>1. ASSUME NEW t \in Slots PROVE Handed(t)' = Handed(t)
    BY <1>11 DEF SlackAccept, Handed, TypeOK
  <2>2. QED
    BY <1>11, <2>1 DEF SlackAccept, process, TypeOK,
       DigestInv, DueOnce, TargetUnserved, TimerNotEarly
<1>12. ASSUME NEW s \in Slots, SlackLose(s) PROVE DigestInv'
  <2>1. ASSUME NEW t \in Slots PROVE Handed(t)' <= Handed(t) /\ Handed(t)' \in Nat
    BY <1>12 DEF SlackLose, Handed, TypeOK
  <2>2. ASSUME NEW t \in Slots PROVE Handed(t) \in Nat
    BY DEF Handed, TypeOK
  <2>3. QED
    BY <1>12, <2>1, <2>2 DEF SlackLose, process, TypeOK, Slots,
       DigestInv, DueOnce, TargetUnserved, TimerNotEarly
<1>13. CASE Tick
  <2>1. /\ wall' = wall + 1
        /\ UNCHANGED <<pc, target, wire, posted>>
        /\ left'["daily"] = IF left["daily"] > 0 THEN left["daily"] - 1 ELSE 0
    BY <1>13 DEF Tick, channel, Loops
  <2>2. DueOnce'
    BY <2>1 DEF DigestInv, DueOnce, Handed, TypeOK, Slots
  <2>3. TimerNotEarly'
    BY <2>1 DEF DigestInv, TimerNotEarly, TypeOK, Slots, Loops
  <2>4. QED
    BY <2>1, <2>2, <2>3 DEF DigestInv, TargetUnserved, Handed
<1>14. ASSUME NEW d \in ClockSteps, StepClock(d) PROVE DigestInv'
  <2>1. d \in Nat /\ wall' = wall + d /\ UNCHANGED <<pc, left, target, wire, posted>>
    BY <1>14, SchedulerAssumption DEF StepClock, process, channel
  <2>2. QED
    BY <2>1 DEF DigestInv, DueOnce, TargetUnserved, TimerNotEarly, Handed, TypeOK, Slots, Loops
<1>15. CASE UNCHANGED vars
  BY <1>15 DEF vars, process, channel, DigestInv, DueOnce, TargetUnserved, TimerNotEarly, Handed
<1>16. QED
  BY <1>1, <1>2, <1>3, <1>4, <1>5, <1>6, <1>7, <1>8, <1>9, <1>10, <1>11, <1>12,
     <1>13, <1>14, <1>15 DEF Next, LoopNext, SenderNext

\* The digest that the daily loop is about to send was never sent before, is due,
\* and no slot ever has two, across crashes, restarts and lost answers.
THEOREM DigestsCorrect == Spec => []DigestInv
<1>1. Init => DigestInv
  BY DEF Init, DigestInv, DueOnce, TargetUnserved, TimerNotEarly, Handed, Loops
<1>2. QED
  BY <1>1, InitTypeOK, StepTypeOK, StepDigestInv, PTL DEF Spec

-----------------------------------------------------------------------------
(* The process implements module DailyDigest, with its own clock and posted.*)

LEMMA StepRefines ==
    ASSUME TypeOK, DigestInv, [Next]_vars
    PROVE  [Digest!Next]_(Digest!dvars)
<1>1. ASSUME NEW s \in Slots, SlackAccept(s) PROVE Digest!Post(s)
  <2>1. wire[s] > 0 /\ wire[s] \in Nat /\ posted[s] \in Nat
    BY <1>1 DEF SlackAccept, TypeOK
  <2>2. Handed(s) <= 1 /\ (Handed(s) > 0 => s <= wall)
    BY DEF DigestInv, DueOnce
  <2>3. posted[s] = 0 /\ s <= wall
    BY <2>1, <2>2 DEF Handed
  <2>4. QED
    BY <1>1, <2>1, <2>3 DEF SlackAccept, Digest!Post, TypeOK
<1>2. CASE Tick
  BY <1>2 DEF Tick, Digest!Next, Digest!Advance, channel, TypeOK
<1>3. ASSUME NEW d \in ClockSteps, StepClock(d) PROVE Digest!Advance
  <2>1. d \in Nat /\ d > 0
    BY SchedulerAssumption
  <2>2. wall' = wall + d /\ UNCHANGED posted
    BY <1>3 DEF StepClock, channel
  <2>3. QED
    BY <2>1, <2>2 DEF Digest!Advance, TypeOK
<1>4. CASE Boot \/ BootOnce \/ Crash \/ Sigterm \/ CancelLoops \/ Exit \/ OnceExit
  BY <1>4 DEF Boot, BootOnce, Crash, Sigterm, CancelLoops, Exit, OnceExit, Down, channel, Digest!dvars
<1>5. ASSUME NEW l \in Loops, LoopNext(l) PROVE UNCHANGED Digest!dvars
  BY <1>5 DEF LoopNext, RunEnd, LoopReturn, channel, Digest!dvars
<1>6. CASE QuickStart \/ QuickFire \/ DailyArm \/ DailyFire
  BY <1>6 DEF QuickStart, QuickFire, DailyArm, DailyFire, channel, Digest!dvars
<1>7. ASSUME NEW l \in Senders, SenderNext(l) PROVE UNCHANGED Digest!dvars
  BY <1>7 DEF SenderNext, Send, SendReturn, channel, Digest!dvars
<1>8. ASSUME NEW s \in Slots, SlackLose(s) PROVE UNCHANGED Digest!dvars
  BY <1>8 DEF SlackLose, Digest!dvars
<1>9. CASE UNCHANGED vars
  BY <1>9 DEF vars, channel, Digest!dvars
<1>10. QED
  BY <1>1, <1>2, <1>3, <1>4, <1>5, <1>6, <1>7, <1>8, <1>9 DEF Next, Digest!Next

\* Whatever the constants, the process keeps the promise of module DailyDigest:
\* at most one digest per configured instant, none before it.
THEOREM DigestRefinement == Spec => DigestPromise
<1>1. Init => Digest!Init
  BY DEF Init, Digest!Init
<1>2. QED
  BY <1>1, StepRefines, TypeCorrect, DigestsCorrect, PTL
     DEF Spec, DigestPromise, Digest!Spec

-----------------------------------------------------------------------------
(* Which digests are given up.                                              *)

\* The loops start after the initial run and do not outlive main.
LoopsInv ==
    pc["main"] \notin {"await", "stopping"} => pc["quick"] = "off" /\ pc["daily"] = "off"

LEMMA StepLoopsInv ==
    ASSUME TypeOK, LoopsInv, [Next]_vars
    PROVE  LoopsInv'
<1>1. CASE Boot \/ BootOnce \/ Sigterm \/ CancelLoops
  BY <1>1 DEF Boot, BootOnce, Sigterm, CancelLoops, LoopsInv, TypeOK, Loops
<1>2. CASE Crash \/ Exit \/ OnceExit
  BY <1>2 DEF Crash, Exit, OnceExit, Down, LoopsInv, Loops
<1>3. ASSUME NEW l \in Loops, RunEnd(l) PROVE LoopsInv'
  <2>1. CASE l = "main"
    BY <1>3, <2>1 DEF RunEnd, AfterRun, LoopsInv, TypeOK, Loops
  <2>2. CASE l # "main"
    BY <1>3, <2>2 DEF RunEnd, LoopsInv, TypeOK, Loops
  <2>3. QED
    BY <2>1, <2>2
<1>4. ASSUME NEW l \in Loops, LoopReturn(l) PROVE LoopsInv'
  BY <1>4 DEF LoopReturn, LoopsInv, TypeOK, Loops
<1>5. CASE QuickStart \/ QuickFire \/ DailyArm \/ DailyFire
  BY <1>5 DEF QuickStart, QuickFire, DailyArm, DailyFire, LoopsInv, TypeOK, Loops
<1>6. ASSUME NEW l \in Senders, SenderNext(l) PROVE LoopsInv'
  BY <1>6 DEF SenderNext, Send, SendReturn, AfterDigest, LoopsInv, TypeOK, Loops, Senders
<1>7. CASE \/ Tick
           \/ \E s \in Slots : SlackAccept(s) \/ SlackLose(s)
           \/ \E d \in ClockSteps : StepClock(d)
           \/ UNCHANGED vars
  BY <1>7 DEF Tick, SlackAccept, SlackLose, StepClock, LoopsInv, vars, process
<1>8. QED
  BY <1>1, <1>2, <1>3, <1>4, <1>5, <1>6, <1>7 DEF Next, LoopNext

\* Timers are never ahead of the UTC clock, so a run is at most as old as its slot is
\* overdue - whoever else is ready, and whatever the host does to its clock.
OverdueInv ==
    /\ pc["daily"] \notin {"run", "send", "sending"} => age["daily"] = 0
    /\ pc["daily"] = "wait" => wall + left["daily"] >= target
    /\ pc["daily"] \in {"run", "send", "sending"} => wall >= target + age["daily"]

LEMMA StepOverdueInv ==
    ASSUME TypeOK, LoopsInv, OverdueInv, [Next]_vars
    PROVE  OverdueInv'
<1>0. /\ wall \in Nat /\ target \in Nat /\ age["daily"] \in Nat /\ left["daily"] \in Nat
      /\ "daily" \in Loops
  <2>1. wall \in 0..Horizon /\ target \in 0..(Horizon + Day) /\ "daily" \in Loops
    BY DEF TypeOK, Slots, Loops
  <2>2. QED
    BY <2>1 DEF TypeOK
<1>1. CASE Boot \/ BootOnce \/ Sigterm \/ CancelLoops
  BY <1>1 DEF Boot, BootOnce, Sigterm, CancelLoops, OverdueInv, TypeOK, Loops
<1>2. CASE Crash \/ Exit \/ OnceExit
  BY <1>2 DEF Crash, Exit, OnceExit, Down, OverdueInv, Loops
<1>3. ASSUME NEW l \in Loops, RunEnd(l) PROVE OverdueInv'
  <2>1. UNCHANGED <<wall, target, left>>
    BY <1>3 DEF RunEnd
  <2>2. CASE l = "daily"
    <3>1. /\ pc["daily"] = "run" /\ pc'["daily"] = AfterRun("daily")
          /\ AfterRun("daily") \in {"send", "arm"}
          /\ age'["daily"] = IF AfterRun("daily") = "send" THEN age["daily"] ELSE 0
      BY <1>3, <2>2 DEF RunEnd, AfterRun, TypeOK, Loops
    <3>2. QED
      BY <2>1, <3>1 DEF OverdueInv
  <2>3. CASE l # "daily"
    <3>1. /\ age'["daily"] = age["daily"]
          /\ \/ pc'["daily"] = pc["daily"]
             \/ l = "main" /\ pc["main"] = "run" /\ pc'["daily"] = "arm"
      BY <1>3, <2>3 DEF RunEnd, TypeOK, Loops
    <3>2. l = "main" /\ pc["main"] = "run" => pc["daily"] = "off"
      BY DEF LoopsInv
    <3>3. QED
      BY <2>1, <3>1, <3>2 DEF OverdueInv
  <2>4. QED
    BY <2>2, <2>3
<1>4. ASSUME NEW l \in Loops, LoopReturn(l) PROVE OverdueInv'
  BY <1>4 DEF LoopReturn, OverdueInv, TypeOK, Loops
<1>5. CASE QuickStart \/ QuickFire
  BY <1>5 DEF QuickStart, QuickFire, OverdueInv, TypeOK, Loops
<1>6. CASE DailyArm
  <2>1. NextDailyAt(wall) \in Slots
    BY NextDailyAtLater DEF TypeOK
  <2>2. /\ UNCHANGED <<wall, age>> /\ pc["daily"] = "arm" /\ pc'["daily"] = "wait"
        /\ target' = NextDailyAt(wall) /\ left'["daily"] = NextDailyAt(wall) - wall
    BY <1>6 DEF DailyArm, TypeOK, Loops
  <2>3. NextDailyAt(wall) \in Int
    BY <2>1 DEF Slots
  <2>4. QED
    BY <1>0, <2>2, <2>3 DEF OverdueInv
<1>7. CASE DailyFire
  <2>1. /\ UNCHANGED <<wall, target, age>> /\ pc'["daily"] = "run"
        /\ pc["daily"] = "wait" /\ left["daily"] = 0
    BY <1>7 DEF DailyFire, TypeOK, Loops
  <2>2. QED
    BY <1>0, <2>1 DEF OverdueInv
<1>8. ASSUME NEW l \in Senders, SenderNext(l) PROVE OverdueInv'
  <2>1. UNCHANGED <<wall, target>>
    BY <1>8 DEF SenderNext, Send, SendReturn
  <2>2. CASE l = "main"
    <3>1. /\ pc'["daily"] = pc["daily"] /\ age'["daily"] = age["daily"]
          /\ left'["daily"] = left["daily"]
      BY <1>8, <2>2 DEF SenderNext, Send, SendReturn, TypeOK, Loops
    <3>2. QED
      BY <2>1, <3>1 DEF OverdueInv
  <2>3. CASE l = "daily"
    <3>1. /\ pc["daily"] \in {"send", "sending"}
          /\ \/ pc'["daily"] = "sending" /\ age'["daily"] = age["daily"]
             \/ pc'["daily"] = "arm" /\ age'["daily"] = 0
      BY <1>8, <2>3 DEF SenderNext, Send, SendReturn, AfterDigest, TypeOK, Loops
    <3>2. QED
      BY <2>1, <3>1 DEF OverdueInv
  <2>4. QED
    BY <2>2, <2>3 DEF Senders
<1>9. CASE Tick
  <2>1. UNCHANGED <<pc, target>> /\ wall' = wall + 1
    BY <1>9 DEF Tick
  <2>2. left'["daily"] = IF left["daily"] > 0 THEN left["daily"] - 1 ELSE 0
    BY <1>9 DEF Tick, Loops
  <2>3. age'["daily"] = IF pc["daily"] \in {"run", "once", "send", "sending"}
                        THEN age["daily"] + 1 ELSE age["daily"]
    BY <1>9 DEF Tick, Loops
  <2>4. pc["daily"] # "once"
    BY DEF TypeOK
  <2>5. QED
    BY <1>0, <2>1, <2>2, <2>3, <2>4 DEF OverdueInv
<1>10. ASSUME NEW d \in ClockSteps, StepClock(d) PROVE OverdueInv'
  <2>1. UNCHANGED <<pc, age, left, target>> /\ wall' = wall + d /\ d \in Nat
    BY <1>10, SchedulerAssumption DEF StepClock, process
  <2>2. QED
    BY <1>0, <2>1 DEF OverdueInv
<1>11. CASE (\E s \in Slots : SlackAccept(s) \/ SlackLose(s)) \/ UNCHANGED vars
  BY <1>11 DEF SlackAccept, SlackLose, OverdueInv, vars, process
<1>12. QED
  BY <1>1, <1>2, <1>3, <1>4, <1>5, <1>6, <1>7, <1>8, <1>9, <1>10, <1>11 DEF Next, LoopNext

\* Scheduler.GivenUpOnlyLate, main.go dailyLoop: however long a run may take, whichever
\* goroutine the scheduler prefers and however far the host puts its clock forward, the
\* process goes on without a digest only if its run outlasted the limit, or main returns.
THEOREM GivenUpLate == Spec => GivenUpOnlyLate
<1>1. Init => LoopsInv /\ OverdueInv
  BY DEF Init, LoopsInv, OverdueInv, Loops
<1>2. ASSUME TypeOK, LoopsInv, OverdueInv, [Next]_vars, pc["daily"] = "send", pc'["daily"] = "arm"
      PROVE  wall >= target + RunLimit \/ cancelled
  <2>1. SendReturn("daily")
    <3>1. CASE Boot \/ BootOnce \/ Crash \/ Sigterm \/ CancelLoops \/ Exit \/ OnceExit
      BY <1>2, <3>1 DEF Boot, BootOnce, Crash, Sigterm, CancelLoops, Exit, OnceExit, Down,
                        TypeOK, Loops
    <3>2. ASSUME NEW l \in Loops, RunEnd(l) PROVE FALSE
      <4>1. CASE l = "main" /\ pc["main"] = "run"
        BY <1>2, <3>2, <4>1 DEF LoopsInv
      <4>2. CASE l = "quick" \/ l = "daily" \/ pc[l] = "once"
        BY <1>2, <3>2, <4>2 DEF RunEnd, TypeOK, Loops
      <4>3. QED
        BY <3>2, <4>1, <4>2 DEF RunEnd, Loops
    <3>3. ASSUME NEW l \in Loops, LoopReturn(l) PROVE FALSE
      BY <1>2, <3>3 DEF LoopReturn, TypeOK, Loops
    <3>4. CASE QuickStart \/ QuickFire \/ DailyArm \/ DailyFire
      BY <1>2, <3>4 DEF QuickStart, QuickFire, DailyArm, DailyFire, TypeOK, Loops
    <3>5. ASSUME NEW l \in Senders, SenderNext(l) PROVE SendReturn("daily")
      BY <1>2, <3>5 DEF SenderNext, Send, SendReturn, Senders, TypeOK, Loops
    <3>6. CASE \/ Tick \/ UNCHANGED vars
               \/ \E s \in Slots : SlackAccept(s) \/ SlackLose(s)
               \/ \E d \in ClockSteps : StepClock(d)
      BY <1>2, <3>6 DEF Tick, SlackAccept, SlackLose, StepClock, vars, process
    <3>7. QED
      BY <1>2, <3>1, <3>2, <3>3, <3>4, <3>5, <3>6 DEF Next, LoopNext
  <2>2. age["daily"] >= RunLimit \/ cancelled
    BY <1>2, <2>1 DEF SendReturn, ContextDone
  <2>3. wall \in Int /\ target \in Int /\ age["daily"] \in Int /\ RunLimit \in Int
    <3>1. wall \in 0..Horizon /\ target \in 0..(Horizon + Day) /\ age \in [Loops -> Nat]
      BY <1>2 DEF TypeOK, Slots
    <3>2. QED
      BY <3>1, SchedulerAssumption DEF Loops
  <2>4. QED
    BY <1>2, <2>2, <2>3 DEF OverdueInv
<1>3. TypeOK /\ LoopsInv /\ OverdueInv /\ [Next]_vars
         => [pc["daily"] = "send" /\ pc'["daily"] = "arm" =>
                wall >= target + RunLimit \/ cancelled]_vars
  BY <1>2
<1>4. QED
  BY <1>1, <1>3, StepLoopsInv, StepOverdueInv, TypeCorrect, PTL DEF Spec, GivenUpOnlyLate

-----------------------------------------------------------------------------
(* The time bounds: how stale the metrics can be, how late a digest can     *)
(* leave, and that no due instant finds the loop elsewhere.  They assume    *)
(* Prompt: a goroutine that has work starts it before the next tick of the  *)
(* clock.                                                                   *)

\* A run is never older than MaxRun, and a goroutine that is neither in a run nor
\* in a send starts its next run at age zero.
AgeInv ==
    \A l \in Loops :
        /\ pc[l] \in {"run", "once", "send"} => age[l] <= MaxRun
        /\ pc[l] \notin {"run", "once", "send", "sending"} => age[l] = 0

\* The quick loop lives as long as main serves, and how old the newest data may be
\* at each of its program points.
FreshInv ==
    /\ pc["main"] # "stopping" => ~cancelled
    /\ pc["main"] = "await" => pc["quick"] # "off"
    /\ Ticking => left["quick"] \in 1..QuickInterval
    /\ pc["main"] = "await" =>
          /\ pc["quick"] = "start" => dataAge <= MaxRun
          /\ pc["quick"] = "wait" /\ tickReady => dataAge <= MaxRun + QuickInterval
          /\ pc["quick"] = "wait" /\ ~tickReady
                => dataAge + left["quick"] <= MaxRun + QuickInterval
          /\ pc["quick"] = "run" => dataAge <= MaxRun + QuickInterval + age["quick"]

\* The timer of the daily loop and the UTC clock agree, and the run that follows is
\* as old as its slot is overdue.
DueInv ==
    /\ pc["daily"] = "wait" => wall + left["daily"] = target
    /\ pc["daily"] \in {"run", "send"} => wall = target + age["daily"]

TimingInv == LoopsInv /\ AgeInv /\ FreshInv /\ (ClockSteps = {} => DueInv)

-----------------------------------------------------------------------------
(* The invariants are inductive.                                            *)

LEMMA StepAgeInv ==
    ASSUME Prompt, TypeOK, LoopsInv, AgeInv, [Next]_vars
    PROVE  AgeInv'
<1>0. MaxRun \in Nat
  BY SchedulerAssumption
<1>1. CASE Boot \/ BootOnce \/ Sigterm \/ CancelLoops
  BY <1>0, <1>1 DEF Boot, BootOnce, Sigterm, CancelLoops, AgeInv, TypeOK, Loops
<1>2. CASE Crash \/ Exit \/ OnceExit
  BY <1>2 DEF Crash, Exit, OnceExit, Down, AgeInv, Loops
<1>3. ASSUME NEW l \in Loops, RunEnd(l) PROVE AgeInv'
  <2>1. age[l] <= MaxRun
    BY <1>3 DEF RunEnd, AgeInv
  <2>2. AfterRun(l) \in {"send", "exit", "await", "wait", "arm"}
    BY <1>3 DEF RunEnd, AfterRun, Loops
  <2>3. pc'[l] = AfterRun(l) /\ age'[l] = IF AfterRun(l) = "send" THEN age[l] ELSE 0
    BY <1>3 DEF RunEnd, TypeOK
  <2>4. ASSUME NEW k \in Loops, k # l
        PROVE  /\ age'[k] = age[k]
               /\ \/ pc'[k] = pc[k]
                  \/ pc[k] = "off" /\ pc'[k] \in {"start", "arm"}
    BY <1>3, <2>4 DEF RunEnd, TypeOK, LoopsInv, Loops
  <2>5. ASSUME NEW k \in Loops, k # l
        PROVE  /\ pc'[k] \in {"run", "once", "send"} => age'[k] <= MaxRun
               /\ pc'[k] \notin {"run", "once", "send", "sending"} => age'[k] = 0
    BY <2>4, <2>5 DEF AgeInv
  <2>6. QED
    BY <2>1, <2>2, <2>3, <2>5 DEF AgeInv
<1>4. ASSUME NEW l \in Loops, LoopReturn(l) PROVE AgeInv'
  BY <1>4 DEF LoopReturn, AgeInv, TypeOK
<1>5. CASE QuickStart \/ QuickFire \/ DailyArm \/ DailyFire
  BY <1>0, <1>5 DEF QuickStart, QuickFire, DailyArm, DailyFire, AgeInv, TypeOK
<1>6. ASSUME NEW l \in Senders, Send(l) PROVE AgeInv'
  BY <1>6 DEF Send, AgeInv, TypeOK
<1>7. ASSUME NEW l \in Senders, SendReturn(l) PROVE AgeInv'
  BY <1>7 DEF SendReturn, AfterDigest, AgeInv, TypeOK
<1>8. CASE Tick
  <2>1. ASSUME NEW l \in Loops PROVE pc[l] # "send"
    BY <1>8, <2>1 DEF Tick, Ready, TypeOK, Loops, Senders
  <2>2. ASSUME NEW l \in Loops
        PROVE  /\ pc'[l] = pc[l]
               /\ pc[l] \in {"run", "once"} => age[l] < MaxRun /\ age'[l] = age[l] + 1
               /\ pc[l] \notin {"run", "once", "sending"} => age'[l] = age[l]
    BY <1>8, <2>1 DEF Tick
  <2>3. QED
    BY <1>0, <2>1, <2>2 DEF AgeInv, TypeOK
<1>9. CASE \/ \E s \in Slots : SlackAccept(s) \/ SlackLose(s)
           \/ \E d \in ClockSteps : StepClock(d)
           \/ UNCHANGED vars
  BY <1>9 DEF SlackAccept, SlackLose, StepClock, AgeInv, vars, process
<1>10. QED
  BY <1>1, <1>2, <1>3, <1>4, <1>5, <1>6, <1>7, <1>8, <1>9 DEF Next, LoopNext, SenderNext

LEMMA StepFreshInv ==
    ASSUME Prompt, TypeOK, LoopsInv, AgeInv, FreshInv, [Next]_vars
    PROVE  FreshInv'
<1>0. MaxRun \in Nat /\ QuickInterval \in Nat \ {0}
  BY SchedulerAssumption
<1>1. CASE Boot \/ BootOnce \/ Sigterm \/ CancelLoops
  BY <1>0, <1>1 DEF Boot, BootOnce, Sigterm, CancelLoops, LoopsInv, FreshInv, Ticking, TypeOK, Loops
<1>2. CASE Crash \/ Exit \/ OnceExit
  BY <1>2 DEF Crash, Exit, OnceExit, Down, FreshInv, Ticking, Loops
<1>3. ASSUME NEW l \in Loops, RunEnd(l) PROVE FreshInv'
  <2>1. UNCHANGED <<cancelled, left, tickReady>> /\ pc[l] \in {"run", "once"} /\ age[l] <= MaxRun
    BY <1>3 DEF RunEnd, AgeInv
  <2>2. CASE l = "main"
    <3>1. dataAge' = age["main"] /\ pc["quick"] = "off" /\ ~cancelled
      BY <1>3, <2>1, <2>2 DEF RunEnd, LoopsInv, FreshInv
    <3>2. pc'["main"] = AfterRun("main")
      BY <1>3, <2>2 DEF RunEnd, Loops
    <3>3. CASE pc["main"] = "once"
      <4>1. pc'["main"] \in {"send", "exit"}
        BY <3>2, <3>3 DEF AfterRun
      <4>2. pc'["quick"] = "off"
        BY <1>3, <2>2, <3>1, <3>3 DEF RunEnd, Loops
      <4>3. QED
        BY <2>1, <3>1, <4>1, <4>2 DEF FreshInv, Ticking
    <3>4. CASE pc["main"] = "run"
      <4>1. pc'["quick"] = "start"
        BY <1>3, <2>2, <3>4 DEF RunEnd, Loops
      <4>2. QED
        BY <2>1, <2>2, <3>1, <4>1 DEF FreshInv, Ticking
    <3>5. QED
      BY <2>1, <2>2, <3>3, <3>4
  <2>3. CASE l = "quick"
    <3>1. /\ dataAge' <= MaxRun /\ dataAge' \in Nat
          /\ pc["quick"] = "run" /\ pc'["quick"] = "wait" /\ pc'["main"] = pc["main"]
      BY <1>0, <1>3, <2>1, <2>3 DEF RunEnd, AfterRun, MinOf, TypeOK, Loops
    <3>2. QED
      BY <1>0, <2>1, <3>1 DEF FreshInv, Ticking, TypeOK
  <2>4. CASE l = "daily"
    <3>1. /\ dataAge' <= dataAge /\ dataAge' \in Nat
          /\ pc'["quick"] = pc["quick"] /\ pc'["main"] = pc["main"]
          /\ age'["quick"] = age["quick"]
      BY <1>3, <2>4 DEF RunEnd, MinOf, TypeOK, Loops
    <3>2. QED
      BY <1>0, <2>1, <3>1 DEF FreshInv, Ticking, TypeOK, Loops
  <2>5. QED
    BY <2>2, <2>3, <2>4 DEF Loops
<1>4. ASSUME NEW l \in Loops, LoopReturn(l) PROVE FreshInv'
  <2>1. cancelled /\ pc["main"] = "stopping"
    BY <1>4 DEF LoopReturn, FreshInv
  <2>2. QED
    BY <1>4, <2>1 DEF LoopReturn, FreshInv, Ticking, TypeOK, Loops
<1>5. CASE QuickStart
  BY <1>0, <1>5 DEF QuickStart, FreshInv, Ticking, TypeOK, Loops
<1>6. CASE QuickFire
  <2>1. age["quick"] = 0
    BY <1>6 DEF QuickFire, AgeInv, Loops
  <2>2. QED
    BY <1>0, <1>6, <2>1 DEF QuickFire, FreshInv, Ticking, TypeOK, Loops
<1>7. CASE DailyArm \/ DailyFire
  BY <1>7 DEF DailyArm, DailyFire, FreshInv, Ticking, TypeOK, Loops
<1>8. ASSUME NEW l \in Senders, SenderNext(l) PROVE FreshInv'
  <2>1. /\ UNCHANGED <<cancelled, tickReady, dataAge>>
        /\ pc'["quick"] = pc["quick"] /\ left'["quick"] = left["quick"]
        /\ age'["quick"] = age["quick"]
        /\ pc'["main"] # "await" \/ pc'["main"] = pc["main"]
        /\ pc["main"] = "stopping" => pc'["main"] = "stopping"
    BY <1>8 DEF SenderNext, Send, SendReturn, AfterDigest, TypeOK, Loops, Senders
  <2>2. QED
    BY <2>1 DEF FreshInv, Ticking
<1>9. CASE Tick
  <2>1. /\ UNCHANGED <<cancelled, pc>>
        /\ tickReady' = (tickReady \/ (Ticking /\ left["quick"] = 1))
        /\ pc["main"] = "await" => dataAge' = dataAge + 1
    BY <1>9 DEF Tick
  <2>2. pc["quick"] # "start" /\ ~(pc["quick"] = "wait" /\ tickReady)
    BY <1>9 DEF Tick, Ready
  <2>3. left'["quick"] = IF Ticking /\ left["quick"] = 1 THEN QuickInterval
                         ELSE IF left["quick"] > 0 THEN left["quick"] - 1 ELSE 0
    BY <1>9 DEF Tick, Loops
  <2>4. pc["quick"] = "run" => age'["quick"] = age["quick"] + 1
    BY <1>9 DEF Tick, Loops
  <2>5. Ticking => left'["quick"] \in 1..QuickInterval
    BY <1>0, <2>3 DEF FreshInv, TypeOK
  <2>6. ASSUME pc["main"] = "await", pc["quick"] = "wait"
        PROVE  /\ tickReady' => dataAge' <= MaxRun + QuickInterval
               /\ ~tickReady' => dataAge' + left'["quick"] <= MaxRun + QuickInterval
    <3>1. ~tickReady /\ Ticking
      BY <2>2, <2>6 DEF Ticking
    <3>2. /\ left["quick"] \in 1..QuickInterval
          /\ dataAge + left["quick"] <= MaxRun + QuickInterval
      BY <2>6, <3>1 DEF FreshInv
    <3>3. CASE left["quick"] = 1
      <4>1. tickReady'
        BY <2>1, <3>1, <3>3
      <4>2. dataAge' <= MaxRun + QuickInterval
        BY <1>0, <2>1, <2>6, <3>2, <3>3 DEF TypeOK
      <4>3. QED
        BY <4>1, <4>2
    <3>4. CASE left["quick"] # 1
      <4>1. ~tickReady'
        BY <2>1, <3>1, <3>4
      <4>2. dataAge' + left'["quick"] <= MaxRun + QuickInterval
        BY <1>0, <2>1, <2>3, <2>6, <3>2, <3>4 DEF TypeOK
      <4>3. QED
        BY <4>1, <4>2
    <3>5. QED
      BY <3>3, <3>4
  <2>7. ASSUME pc["main"] = "await", pc["quick"] = "run"
        PROVE  dataAge' <= MaxRun + QuickInterval + age'["quick"]
    BY <1>0, <2>1, <2>4, <2>7 DEF FreshInv, TypeOK, Loops
  <2>8. QED
    BY <2>1, <2>2, <2>5, <2>6, <2>7 DEF FreshInv, Ticking
<1>10. CASE \/ \E s \in Slots : SlackAccept(s) \/ SlackLose(s)
            \/ \E d \in ClockSteps : StepClock(d)
            \/ UNCHANGED vars
  BY <1>10 DEF SlackAccept, SlackLose, StepClock, FreshInv, Ticking, vars, process
<1>11. QED
  BY <1>1, <1>2, <1>3, <1>4, <1>5, <1>6, <1>7, <1>8, <1>9, <1>10 DEF Next, LoopNext

LEMMA StepDueInv ==
    ASSUME Prompt, ClockSteps = {}, TypeOK, AgeInv, DueInv, [Next]_vars
    PROVE  DueInv'
<1>1. CASE Boot \/ BootOnce \/ Sigterm \/ CancelLoops
  BY <1>1 DEF Boot, BootOnce, Sigterm, CancelLoops, DueInv, TypeOK, Loops
<1>2. CASE Crash \/ Exit \/ OnceExit
  BY <1>2 DEF Crash, Exit, OnceExit, Down, DueInv, Loops
<1>3. ASSUME NEW l \in Loops, RunEnd(l) PROVE DueInv'
  <2>1. UNCHANGED <<wall, target, left>>
    BY <1>3 DEF RunEnd
  <2>2. CASE l = "daily"
    <3>1. pc["daily"] = "run" /\ pc'["daily"] = AfterRun("daily") /\ AfterRun("daily") \in {"send", "arm"}
      BY <1>3, <2>2 DEF RunEnd, AfterRun, TypeOK, Loops
    <3>2. AfterRun("daily") = "send" => age'["daily"] = age["daily"]
      BY <1>3, <2>2 DEF RunEnd
    <3>3. QED
      BY <2>1, <3>1, <3>2 DEF DueInv
  <2>3. CASE l # "daily"
    <3>1. age'["daily"] = age["daily"] /\ pc'["daily"] \in {pc["daily"], "arm"}
      BY <1>3, <2>3 DEF RunEnd, TypeOK, Loops
    <3>2. QED
      BY <2>1, <3>1 DEF DueInv
  <2>4. QED
    BY <2>2, <2>3
<1>4. ASSUME NEW l \in Loops, LoopReturn(l) PROVE DueInv'
  BY <1>4 DEF LoopReturn, DueInv, TypeOK, Loops
<1>5. CASE QuickStart \/ QuickFire
  BY <1>5 DEF QuickStart, QuickFire, DueInv, TypeOK, Loops
<1>6. CASE DailyArm
  <2>1. NextDailyAt(wall) \in Slots
    BY NextDailyAtLater DEF TypeOK
  <2>2. /\ UNCHANGED wall /\ pc'["daily"] = "wait"
        /\ target' = NextDailyAt(wall) /\ left'["daily"] = NextDailyAt(wall) - wall
    BY <1>6 DEF DailyArm, TypeOK, Loops
  <2>3. QED
    BY <2>1, <2>2 DEF DueInv, TypeOK, Slots
<1>7. CASE DailyFire
  <2>1. /\ UNCHANGED <<wall, target, age>> /\ pc'["daily"] = "run"
        /\ pc["daily"] = "wait" /\ left["daily"] = 0
    BY <1>7 DEF DailyFire, TypeOK, Loops
  <2>2. age["daily"] = 0
    BY <2>1 DEF AgeInv, Loops
  <2>3. wall = target
    BY <2>1 DEF DueInv, TypeOK
  <2>4. QED
    BY <2>1, <2>2, <2>3 DEF DueInv, TypeOK
<1>8. ASSUME NEW l \in Senders, SenderNext(l) PROVE DueInv'
  <2>1. UNCHANGED <<wall, target>>
    BY <1>8 DEF SenderNext, Send, SendReturn
  <2>2. CASE l = "main"
    <3>1. /\ pc'["daily"] = pc["daily"] /\ age'["daily"] = age["daily"]
          /\ left'["daily"] = left["daily"]
      BY <1>8, <2>2 DEF SenderNext, Send, SendReturn, TypeOK, Loops
    <3>2. QED
      BY <2>1, <3>1 DEF DueInv
  <2>3. CASE l = "daily"
    <3>1. pc'["daily"] \in {"sending", "arm"}
      BY <1>8, <2>3 DEF SenderNext, Send, SendReturn, AfterDigest, TypeOK, Loops
    <3>2. QED
      BY <3>1 DEF DueInv
  <2>4. QED
    BY <2>2, <2>3 DEF Senders
<1>9. CASE Tick
  <2>1. UNCHANGED <<pc, target>> /\ wall' = wall + 1
    BY <1>9 DEF Tick
  <2>2. pc["daily"] # "send" /\ ~(pc["daily"] = "wait" /\ left["daily"] = 0)
    BY <1>9 DEF Tick, Ready, Senders
  <2>3. left'["daily"] = IF left["daily"] > 0 THEN left["daily"] - 1 ELSE 0
    BY <1>9 DEF Tick, Loops
  <2>4. pc["daily"] = "run" => age'["daily"] = age["daily"] + 1
    BY <1>9 DEF Tick, Loops
  <2>5. pc["daily"] = "wait" => wall' + left'["daily"] = target'
    BY <2>1, <2>2, <2>3 DEF DueInv, TypeOK, Loops
  <2>6. pc["daily"] = "run" => wall' = target' + age'["daily"]
    <3>1. wall \in Int /\ target \in Int /\ age["daily"] \in Int
      <4>1. wall \in 0..Horizon /\ target \in 0..(Horizon + Day) /\ age \in [Loops -> Nat]
        BY DEF TypeOK, Slots
      <4>2. QED
        BY <4>1 DEF Loops
    <3>2. pc["daily"] = "run" => wall = target + age["daily"]
      BY DEF DueInv
    <3>3. QED
      BY <2>1, <2>4, <3>1, <3>2
  <2>7. QED
    BY <2>1, <2>2, <2>5, <2>6 DEF DueInv
<1>10. CASE (\E s \in Slots : SlackAccept(s) \/ SlackLose(s)) \/ UNCHANGED vars
  BY <1>10 DEF SlackAccept, SlackLose, DueInv, vars, process
<1>11. QED
  BY <1>1, <1>2, <1>3, <1>4, <1>5, <1>6, <1>7, <1>8, <1>9, <1>10 DEF Next, LoopNext

LEMMA TimingInvariant ==
    ASSUME Prompt
    PROVE  Spec => []TimingInv
<1>1. Init => TimingInv
  BY SchedulerAssumption DEF Init, TimingInv, LoopsInv, AgeInv, FreshInv, DueInv, Ticking, Loops
<1>2. TypeOK /\ TimingInv /\ [Next]_vars => TimingInv'
  BY StepLoopsInv, StepAgeInv, StepFreshInv, StepDueInv DEF TimingInv
<1>3. QED
  BY <1>1, <1>2, TypeCorrect, PTL DEF Spec

-----------------------------------------------------------------------------
(* The bounds.                                                              *)

\* The data on the metrics endpoint is never older than one interval and two runs,
\* whatever the daily loop does meanwhile.
THEOREM Freshness ==
    ASSUME Prompt
    PROVE  Spec => []FreshnessBound
<1>1. TypeOK /\ TimingInv => FreshnessBound
  <2> SUFFICES ASSUME TypeOK, TimingInv, pc["main"] = "await"
               PROVE  dataAge <= QuickInterval + 2 * MaxRun
    BY DEF FreshnessBound
  <2>1. MaxRun \in Nat /\ QuickInterval \in Nat
    BY SchedulerAssumption
  <2>2. pc["quick"] = "run" => age["quick"] <= MaxRun
    BY DEF TimingInv, AgeInv, Loops
  <2>3. left["quick"] \in Nat /\ age["quick"] \in Nat /\ dataAge \in Nat
    BY DEF TypeOK, Loops
  <2>4. QED
    BY <2>1, <2>2, <2>3 DEF TimingInv, FreshInv, TypeOK
<1>2. QED
  BY <1>1, TypeCorrect, TimingInvariant, PTL

\* On a host that does not adjust its clock a digest leaves within the run limit of
\* its instant or not at all, however long the runs are.
THEOREM DigestNotStale ==
    ASSUME Prompt, ClockSteps = {}
    PROVE  Spec => DigestOnTime
<1>1. ASSUME TypeOK, TimingInv, [Next]_vars, NEW s \in Slots, wire'[s] > wire[s]
      PROVE  wall < s + RunLimit
  <2>1. wire[s] \in Nat
    BY <1>1 DEF TypeOK
  <2>2. Send("daily")
    <3>1. CASE Boot \/ BootOnce \/ Crash \/ Sigterm \/ CancelLoops \/ Exit \/ OnceExit
      BY <1>1, <2>1, <3>1 DEF Boot, BootOnce, Crash, Sigterm, CancelLoops, Exit, OnceExit, Down, channel
    <3>2. CASE \E l \in Loops : LoopNext(l)
      BY <1>1, <2>1, <3>2 DEF LoopNext, RunEnd, LoopReturn, channel
    <3>3. CASE QuickStart \/ QuickFire \/ DailyArm \/ DailyFire
      BY <1>1, <2>1, <3>3 DEF QuickStart, QuickFire, DailyArm, DailyFire, channel
    <3>4. CASE \E l \in Senders : SenderNext(l)
      BY <1>1, <2>1, <3>4 DEF SenderNext, Send, SendReturn, channel, Senders
    <3>5. ASSUME NEW t \in Slots, SlackAccept(t) \/ SlackLose(t) PROVE FALSE
      <4>1. wire' = [wire EXCEPT ![t] = @ - 1]
        BY <3>5 DEF SlackAccept, SlackLose
      <4>2. QED
        BY <1>1, <2>1, <4>1 DEF TypeOK
    <3>6. CASE Tick \/ (\E d \in ClockSteps : StepClock(d)) \/ UNCHANGED vars
      BY <1>1, <2>1, <3>6 DEF Tick, StepClock, vars, channel
    <3>7. QED
      BY <1>1, <3>1, <3>2, <3>3, <3>4, <3>5, <3>6 DEF Next
  <2>3. pc["daily"] = "send" /\ age["daily"] < RunLimit /\ s = target
    BY <1>1, <2>1, <2>2, SchedulerAssumption DEF Send, ContextDone, TypeOK, Loops
  <2>4. wall = target + age["daily"]
    BY <1>1, <2>3 DEF TimingInv, DueInv
  <2>5. QED
    BY <1>1, <2>3, <2>4, SchedulerAssumption DEF TypeOK, Slots, Loops
<1>2. TypeOK /\ TimingInv /\ [Next]_vars
         => [\A s \in Slots : wire'[s] > wire[s] => wall < s + RunLimit]_vars
  BY <1>1
<1>3. QED
  BY <1>2, TypeCorrect, TimingInvariant, PTL DEF Spec, DigestOnTime

-----------------------------------------------------------------------------
(* The configured time finds the daily loop waiting.                        *)

LEMMA Quotient ==
    ASSUME NEW x \in Nat
    PROVE  \E q \in Nat : x = Day * q + (x % Day) /\ x % Day \in 0..(Day - 1)
<1>1. Day \in Nat \ {0}
  BY SchedulerAssumption
<1>2. x = Day * (x \div Day) + (x % Day) /\ x % Day \in 0..(Day - 1) /\ x \div Day \in Nat
  BY <1>1
<1>3. QED
  BY <1>2

\* Multiples of a day that are less than a day apart are the same.
LEMMA SameMultiple ==
    ASSUME NEW p \in Int, NEW q \in Int, Day * p < Day * q + Day, Day * q < Day * p + Day
    PROVE  p = q
<1>1. Day \in Nat \ {0} /\ p - q \in Int
  BY SchedulerAssumption
<1>2. Day * (p - q) = Day * p - Day * q
  BY <1>1
<1>3. Day * p \in Int /\ Day * q \in Int
  BY <1>1
<1>4. p - q > 0 => Day * (p - q) >= Day
  BY <1>1
<1>5. p - q < 0 => Day * (p - q) <= -Day
  BY <1>1
<1>6. QED
  BY <1>1, <1>2, <1>3, <1>4, <1>5

LEMMA Remainder ==
    ASSUME NEW q \in Int, NEW r \in 0..(Day - 1), Day * q + r >= 0
    PROVE  (Day * q + r) % Day = r
<1>1. Day \in Nat \ {0} /\ Day * q \in Int
  BY SchedulerAssumption
<1>2. PICK x \in Nat : x = Day * q + r
  BY <1>1
<1>3. PICK p \in Nat : x = Day * p + (x % Day) /\ x % Day \in 0..(Day - 1)
  BY Quotient
<1>4. Day * p \in Int
  BY <1>1
<1>5. p = q
  BY <1>1, <1>2, <1>3, <1>4, SameMultiple
<1>6. QED
  BY <1>1, <1>2, <1>3, <1>5

\* Two instants at which a digest is due are a day apart.
LEMMA DueApart ==
    ASSUME NEW s \in Nat, NEW t \in Nat, IsDue(s), IsDue(t), s < t
    PROVE  s + Day <= t
<1>1. PICK p \in Nat : s = Day * p + (s % Day) /\ s % Day \in 0..(Day - 1)
  BY Quotient
<1>2. PICK q \in Nat : t = Day * q + (t % Day) /\ t % Day \in 0..(Day - 1)
  BY Quotient
<1>3. s % Day = t % Day
  BY DEF IsDue
<1>4. Day \in Nat \ {0} /\ Day * p \in Int /\ Day * q \in Int
  BY SchedulerAssumption
<1>5. ASSUME t < s + Day PROVE FALSE
  <2>1. Day * p < Day * q + Day /\ Day * q < Day * p + Day
    BY <1>1, <1>2, <1>3, <1>4, <1>5
  <2>2. p = q
    BY <2>1, SameMultiple
  <2>3. QED
    BY <1>1, <1>2, <1>3, <2>2
<1>6. QED
  BY <1>4, <1>5

\* nextDailyAt, for a time that parses: the first instant after w that is due.
LEMMA NextDailyAtDue ==
    ASSUME DailyAt # Unparsed, NEW w \in 0..Horizon
    PROVE  /\ IsDue(NextDailyAt(w))
           /\ \A s \in Slots : w < s /\ s < NextDailyAt(w) => ~IsDue(s)
<1>1. Day \in Nat \ {0} /\ DailyAt \in 0..(Day - 1) /\ w \in Nat
  BY SchedulerAssumption
<1>2. PICK q \in Nat : w = Day * q + (w % Day) /\ w % Day \in 0..(Day - 1)
  BY <1>1, Quotient
<1> DEFINE today == Day * q + DailyAt
<1>3. Day * q \in Nat /\ today \in Nat
  BY <1>1
<1>4. w - (w % Day) + DailyAt = today
  <2>1. PICK r \in Nat : r = w % Day
    BY <1>1, <1>2
  <2>2. PICK m \in Nat : m = Day * q
    BY <1>3
  <2>3. w = m + r
    BY <1>2, <2>1, <2>2
  <2>4. w - r + DailyAt = m + DailyAt
    BY <1>1, <2>3
  <2>5. QED
    BY <2>1, <2>2, <2>4
<1>5. NextDailyAt(w) = IF today > w THEN today ELSE today + Day
  BY <1>4 DEF NextDailyAt
<1>6. IsDue(today)
  BY <1>1, <1>3, Remainder DEF IsDue
<1>7. IsDue(today + Day)
  <2>1. Day * (q + 1) + DailyAt = today + Day
    BY <1>1, <1>3
  <2>2. (Day * (q + 1) + DailyAt) % Day = DailyAt
    <3>1. q + 1 \in Int /\ Day * (q + 1) + DailyAt >= 0
      BY <1>1, <1>3, <2>1
    <3>2. QED
      BY <1>1, <3>1, Remainder
  <2>3. QED
    BY <2>1, <2>2 DEF IsDue
<1>8. IsDue(NextDailyAt(w))
  BY <1>5, <1>6, <1>7
<1>9. ASSUME NEW s \in Slots, w < s, s < NextDailyAt(w), IsDue(s) PROVE FALSE
  <2> HIDE DEF today
  <2>1. s \in Nat
    BY <1>1, SchedulerAssumption DEF Slots
  <2>2. NextDailyAt(w) \in Nat /\ NextDailyAt(w) <= w + Day
    <3>1. NextDailyAt(w) \in Slots /\ NextDailyAt(w) <= w + Day
      BY NextDailyAtLater
    <3>2. QED
      BY <3>1, SchedulerAssumption DEF Slots
  <2>3. s + Day <= NextDailyAt(w)
    BY <1>8, <1>9, <2>1, <2>2, DueApart
  <2>4. QED
    BY <1>1, <1>9, <2>1, <2>2, <2>3
<1>10. QED
  BY <1>8, <1>9

\* The daily loop is there while main serves, what it is on its way to is due, nothing
\* due comes before, and its request has no more time than the context of its run.
MeetInv ==
    /\ pc["main"] = "await" => pc["daily"] # "off"
    /\ pc["daily"] = "sending" =>
          wall = target + age["daily"] /\ age["daily"] + left["daily"] <= RunLimit
    /\ DailyAt # Unparsed =>
          /\ pc["daily"] \in {"wait", "run", "send", "sending"} => IsDue(target)
          /\ pc["daily"] = "wait" => \A s \in Slots : wall < s /\ s < target => ~IsDue(s)

\* Steps that leave the daily loop and the clock alone keep it.
LEMMA SameMeet ==
    ASSUME MeetInv, wall' = wall, target' = target, pc'["daily"] = pc["daily"],
           age'["daily"] = age["daily"], left'["daily"] = left["daily"],
           pc'["main"] = "await" => pc["main"] = "await"
    PROVE  MeetInv'
  BY DEF MeetInv, IsDue

LEMMA StepMeetInv ==
    ASSUME Prompt, ClockSteps = {}, TypeOK, TimingInv, MeetInv, [Next]_vars
    PROVE  MeetInv'
<1>1. CASE Boot \/ BootOnce \/ Sigterm \/ CancelLoops
  BY <1>1, SameMeet DEF Boot, BootOnce, Sigterm, CancelLoops, TypeOK, Loops
<1>2. CASE Crash \/ Exit \/ OnceExit
  BY <1>2 DEF Crash, Exit, OnceExit, Down, MeetInv, Loops
<1>3. ASSUME NEW l \in Loops, RunEnd(l) PROVE MeetInv'
  <2>1. UNCHANGED <<wall, target, left>> /\ pc[l] \in {"run", "once"}
    BY <1>3 DEF RunEnd
  <2>2. CASE l = "main"
    <3>1. CASE pc["main"] = "run"
      <4>1. pc'["daily"] = "arm"
        BY <1>3, <2>2, <3>1 DEF RunEnd, Loops
      <4>2. QED
        BY <4>1 DEF MeetInv
    <3>2. CASE pc["main"] = "once"
      <4>1. pc'["daily"] = pc["daily"] /\ pc'["main"] # "await" /\ age'["daily"] = age["daily"]
        BY <1>3, <2>2, <3>2 DEF RunEnd, AfterRun, TypeOK, Loops
      <4>2. QED
        BY <2>1, <4>1, SameMeet
    <3>3. QED
      BY <2>1, <2>2, <3>1, <3>2
  <2>3. CASE l = "quick"
    <3>1. pc'["daily"] = pc["daily"] /\ pc'["main"] = pc["main"] /\ age'["daily"] = age["daily"]
      BY <1>3, <2>3 DEF RunEnd, TypeOK, Loops
    <3>2. QED
      BY <2>1, <3>1, SameMeet
  <2>4. CASE l = "daily"
    <3>1. /\ pc'["daily"] \in {"send", "arm"} /\ pc'["main"] = pc["main"]
          /\ pc["daily"] = "run"
      BY <1>3, <2>4 DEF RunEnd, AfterRun, TypeOK, Loops
    <3>2. QED
      BY <2>1, <3>1 DEF MeetInv, IsDue
  <2>5. QED
    BY <2>2, <2>3, <2>4 DEF Loops
<1>4. ASSUME NEW l \in Loops, LoopReturn(l) PROVE MeetInv'
  <2>1. pc["main"] = "stopping" /\ pc'["main"] = pc["main"]
    BY <1>4 DEF LoopReturn, TimingInv, FreshInv
  <2>2. pc'["daily"] \in {pc["daily"], "off"} /\ UNCHANGED <<wall, target, age, left>>
    BY <1>4 DEF LoopReturn, TypeOK, Loops
  <2>3. QED
    BY <2>1, <2>2 DEF MeetInv, IsDue
<1>5. CASE QuickStart \/ QuickFire
  BY <1>5, SameMeet DEF QuickStart, QuickFire, TypeOK, Loops
<1>6. CASE DailyArm
  <2>1. /\ wall' = wall /\ wall \in 0..Horizon /\ pc'["daily"] = "wait"
        /\ target' = NextDailyAt(wall)
    BY <1>6 DEF DailyArm, TypeOK, Loops
  <2>2. DailyAt # Unparsed => /\ IsDue(target')
                              /\ \A s \in Slots : wall < s /\ s < target' => ~IsDue(s)
    BY <2>1, NextDailyAtDue
  <2>3. QED
    BY <2>1, <2>2 DEF MeetInv, IsDue
<1>7. CASE DailyFire
  <2>1. UNCHANGED <<wall, target>> /\ pc["daily"] = "wait" /\ pc'["daily"] = "run"
    BY <1>7 DEF DailyFire, TypeOK, Loops
  <2>2. QED
    BY <2>1 DEF MeetInv, IsDue
<1>8. ASSUME NEW l \in Senders, SenderNext(l) PROVE MeetInv'
  <2>1. UNCHANGED <<wall, target>>
    BY <1>8 DEF SenderNext, Send, SendReturn
  <2>2. CASE l = "main"
    <3>1. /\ pc'["daily"] = pc["daily"] /\ age'["daily"] = age["daily"]
          /\ left'["daily"] = left["daily"] /\ pc'["main"] # "await"
      BY <1>8, <2>2 DEF SenderNext, Send, SendReturn, AfterDigest, TypeOK, Loops
    <3>2. QED
      BY <2>1, <3>1, SameMeet
  <2>3. ASSUME l = "daily", Send(l) PROVE MeetInv'
    <3>1. /\ pc["daily"] = "send" /\ pc'["daily"] = "sending" /\ age' = age
          /\ age["daily"] < RunLimit
          /\ left'["daily"] = MinOf(SendLimit, RunLimit - age["daily"])
      BY <2>3, SchedulerAssumption DEF Send, ContextDone, TypeOK, Loops
    <3>2. wall = target + age["daily"]
      BY <3>1 DEF TimingInv, DueInv
    <3>3. age["daily"] + left'["daily"] <= RunLimit
      BY <3>1, SchedulerAssumption DEF MinOf, TypeOK, Loops
    <3>4. QED
      BY <2>1, <3>1, <3>2, <3>3 DEF MeetInv, IsDue
  <2>4. ASSUME l = "daily", SendReturn(l) PROVE MeetInv'
    <3>1. pc'["daily"] = "arm"
      BY <2>4 DEF SendReturn, AfterDigest, TypeOK, Loops
    <3>2. QED
      BY <3>1 DEF MeetInv
  <2>5. QED
    BY <1>8, <2>2, <2>3, <2>4 DEF Senders, SenderNext
<1>9. CASE Tick
  <2>1. UNCHANGED <<pc, target>> /\ wall' = wall + 1
    BY <1>9 DEF Tick
  <2>2. pc["daily"] = "sending" =>
           /\ left["daily"] > 0 /\ left'["daily"] = left["daily"] - 1
           /\ age'["daily"] = age["daily"] + 1
    BY <1>9 DEF Tick, Loops
  <2>3. wall \in Int /\ target \in Int /\ age["daily"] \in Int /\ left["daily"] \in Int
    <3>1. wall \in 0..Horizon /\ target \in 0..(Horizon + Day) /\ age \in [Loops -> Nat]
          /\ left \in [Loops -> Nat]
      BY DEF TypeOK, Slots
    <3>2. QED
      BY <3>1 DEF Loops
  <2>4. pc["daily"] = "sending" =>
           wall' = target' + age'["daily"] /\ age'["daily"] + left'["daily"] <= RunLimit
    BY <2>1, <2>2, <2>3, SchedulerAssumption DEF MeetInv
  <2>5. \A s \in Slots : wall' < s => wall < s
    BY <2>1, <2>3, SchedulerAssumption DEF Slots
  <2>6. QED
    BY <2>1, <2>4, <2>5 DEF MeetInv, IsDue
<1>10. CASE (\E s \in Slots : SlackAccept(s) \/ SlackLose(s)) \/ UNCHANGED vars
  BY <1>10, SameMeet DEF SlackAccept, SlackLose, vars, process
<1>11. QED
  BY <1>1, <1>2, <1>3, <1>4, <1>5, <1>6, <1>7, <1>8, <1>9, <1>10 DEF Next, LoopNext

\* A tick that reaches an instant that is due, while main serves, finds the daily loop
\* waiting for it: a run or a request of an earlier instant is a day old by then.
LEMMA TickMeetsSlot ==
    ASSUME Prompt, ClockSteps = {}, MaxRun < Day, RunLimit < Day, TypeOK, TimingInv, MeetInv,
           Tick, NEW s \in Slots, IsDue(s), Reaches(s), pc["main"] = "await"
    PROVE  Armed(s)
<1>1. /\ Day \in Nat \ {0} /\ MaxRun \in Nat /\ RunLimit \in Nat
      /\ wall \in Nat /\ target \in Nat /\ s \in Nat
      /\ age["daily"] \in Nat /\ left["daily"] \in Nat
  <2>1. wall \in 0..Horizon /\ target \in 0..(Horizon + Day) /\ s \in 0..(Horizon + Day)
        /\ age \in [Loops -> Nat] /\ left \in [Loops -> Nat]
    BY DEF TypeOK, Slots
  <2>2. QED
    BY <2>1, SchedulerAssumption DEF Loops
<1>2. s = wall + 1
  BY <1>1 DEF Tick, Reaches
<1>3. DailyAt # Unparsed
  <2>1. s % Day # -1
    BY <1>1
  <2>2. QED
    BY <2>1 DEF IsDue, Unparsed
<1>4. pc["daily"] \notin {"off", "arm", "send"}
  BY DEF MeetInv, Tick, Ready, Senders
<1>5. CASE pc["daily"] = "wait"
  <2>1. wall + left["daily"] = target /\ left["daily"] # 0
    BY <1>5 DEF TimingInv, DueInv, Tick, Ready
  <2>2. ~(s < target)
    BY <1>1, <1>2, <1>3, <1>5 DEF MeetInv
  <2>3. QED
    BY <1>1, <1>2, <1>5, <2>1, <2>2 DEF Armed
<1>6. CASE pc["daily"] \in {"run", "sending"}
  <2>1. IsDue(target)
    BY <1>3, <1>6 DEF MeetInv
  <2>2. wall = target + age["daily"]
    BY <1>6 DEF MeetInv, TimingInv, DueInv
  <2>3. age["daily"] + 1 < Day
    <3>1. CASE pc["daily"] = "run"
      <4>1. age["daily"] < MaxRun
        BY <3>1 DEF Tick, Loops
      <4>2. QED
        BY <1>1, <4>1
    <3>2. CASE pc["daily"] = "sending"
      <4>1. left["daily"] > 0 /\ age["daily"] + left["daily"] <= RunLimit
        BY <3>2 DEF Tick, Loops, MeetInv
      <4>2. QED
        BY <1>1, <4>1
    <3>3. QED
      BY <1>6, <3>1, <3>2
  <2>4. target < s /\ s < target + Day
    BY <1>1, <1>2, <2>2, <2>3
  <2>5. target + Day <= s
    BY <1>1, <2>1, <2>4, DueApart
  <2>6. QED
    BY <1>1, <2>4, <2>5
<1>7. QED
  BY <1>4, <1>5, <1>6 DEF TypeOK

\* Scheduler.ServingMeetsSlot, dailyLoop of main.go: once main serves, no slow run and no
\* slow Slack makes the loop miss an instant, if both are over within a day and the host
\* leaves its clock alone.
THEOREM ServingMeets ==
    ASSUME Prompt, ClockSteps = {}, MaxRun < Day, RunLimit < Day
    PROVE  Spec => ServingMeetsSlot
<1>1. Init => MeetInv
  BY DEF Init, MeetInv, Loops
<1>2. TypeOK /\ TimingInv /\ MeetInv /\ [Next]_vars => MeetInv'
  BY StepMeetInv
<1>3. TypeOK /\ TimingInv /\ MeetInv /\ [Next]_vars
         => [\A s \in Slots : IsDue(s) /\ Reaches(s) /\ pc["main"] = "await" => Armed(s)]_vars
  <2> SUFFICES ASSUME TypeOK, TimingInv, MeetInv, [Next]_vars,
                      NEW s \in Slots, IsDue(s), Reaches(s), pc["main"] = "await"
               PROVE  Armed(s)
    OBVIOUS
  <2>1. wall' # wall
    BY SchedulerAssumption DEF Reaches, TypeOK, Slots
  <2>2. Tick
    <3>1. CASE Boot \/ BootOnce \/ Crash \/ Sigterm \/ CancelLoops \/ Exit \/ OnceExit
      BY <2>1, <3>1 DEF Boot, BootOnce, Crash, Sigterm, CancelLoops, Exit, OnceExit, Down
    <3>2. CASE (\E l \in Loops : LoopNext(l)) \/ (\E l \in Senders : SenderNext(l))
      BY <2>1, <3>2 DEF LoopNext, RunEnd, LoopReturn, SenderNext, Send, SendReturn
    <3>3. CASE QuickStart \/ QuickFire \/ DailyArm \/ DailyFire
      BY <2>1, <3>3 DEF QuickStart, QuickFire, DailyArm, DailyFire
    <3>4. CASE (\E t \in Slots : SlackAccept(t) \/ SlackLose(t)) \/ UNCHANGED vars
      BY <2>1, <3>4 DEF SlackAccept, SlackLose, vars
    <3>5. QED
      BY <3>1, <3>2, <3>3, <3>4 DEF Next
  <2>3. QED
    BY <2>2, TickMeetsSlot
<1>4. QED
  BY <1>1, <1>2, <1>3, TypeCorrect, TimingInvariant, PTL DEF Spec, ServingMeetsSlot

=============================================================================
