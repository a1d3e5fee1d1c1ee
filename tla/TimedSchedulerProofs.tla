------------------------- MODULE TimedSchedulerProofs -------------------------
(***************************************************************************)
(* Theorems about module TimedScheduler, for every number of calls, every  *)
(* timeout and every value of the other constants: a run never outlasts    *)
(* its calls times the timeout, so the process with calls implements       *)
(* module Scheduler with that product as its MaxRun.                       *)
(***************************************************************************)
EXTENDS TimedScheduler, TLAPS

Points == {"down", "once", "off", "start", "arm", "wait", "run", "send", "sending", "await",
           "stopping", "exit"}

\* What the bookkeeping of the calls rests on: the loops start after the initial run
\* and do not outlive main, and a run starts at age zero.
Lives ==
    /\ pc \in [S!Loops -> Points]
    /\ age \in [S!Loops -> Nat]
    /\ pc["main"] \notin {"await", "stopping"} => pc["quick"] = "off" /\ pc["daily"] = "off"
    /\ \A l \in S!Loops : pc[l] \notin {"run", "once", "send", "sending"} => age[l] = 0

IInv == Lives /\ TypeOK

-----------------------------------------------------------------------------
(* Products of naturals.                                                    *)

LEMMA ProductInNat ==
    ASSUME NEW n \in Nat, NEW c \in Nat
    PROVE  n * c \in Nat
  OBVIOUS

\* One factor less is that much less: all that is used of the product.
LEMMA ProductStep ==
    ASSUME NEW n \in Nat, NEW m \in Nat, NEW c \in Nat, n < m
    PROVE  /\ (n - 1) * c + c = n * c
           /\ n * c <= (m - 1) * c
<1>1. (n - 1) * c + c = n * c
  OBVIOUS
<1>2. PICK d \in Nat : m - 1 = n + d
  <2>1. m - 1 - n \in Nat /\ m - 1 = n + (m - 1 - n)
    OBVIOUS
  <2>2. QED
    BY <2>1
<1>3. (n + d) * c = n * c + d * c /\ d * c \in Nat /\ n * c \in Nat
  OBVIOUS
<1>4. QED
  BY <1>1, <1>2, <1>3

-----------------------------------------------------------------------------
(* Lives and the bookkeeping of the calls are inductive.                    *)

LEMMA InitIInv == Init => IInv
<1> SUFFICES ASSUME Init PROVE IInv
  OBVIOUS
<1>1. Lives
  BY DEF Init, S!Init, Lives, Points, S!Loops
<1>2. \A l \in S!Loops : pc[l] \in {"down", "off"}
  BY DEF Init, S!Init
<1>3. TypeOK
  BY <1>2, TimedAssumption DEF Init, TypeOK, TimeSpent, InRun
<1>4. QED
  BY <1>1, <1>3 DEF IInv

LEMMA RunEndLives ==
    ASSUME Lives, NEW l \in S!Loops, S!RunEnd(l)
    PROVE  /\ Lives'
           /\ \A k \in S!Loops : InRun(k)' => InRun(k) /\ age'[k] = age[k]
<1>1. CASE l = "main"
  BY <1>1 DEF Lives, Points, S!RunEnd, S!AfterRun, S!Loops, InRun
<1>2. CASE l = "quick"
  BY <1>2 DEF Lives, Points, S!RunEnd, S!AfterRun, S!Loops, InRun
<1>3. CASE l = "daily"
  BY <1>3 DEF Lives, Points, S!RunEnd, S!AfterRun, S!Loops, InRun
<1>4. QED
  BY <1>1, <1>2, <1>3 DEF S!Loops

\* Steps that begin no run and let no time pass.
LEMMA OthersLives ==
    ASSUME Lives, Others
    PROVE  /\ Lives'
           /\ \A k \in S!Loops : InRun(k)' => InRun(k) /\ age'[k] = age[k]
<1>1. CASE S!Crash \/ S!Exit \/ S!OnceExit
  BY <1>1 DEF Lives, Points, S!Crash, S!Exit, S!OnceExit, S!Down, S!Loops, InRun
<1>2. CASE S!Sigterm \/ S!CancelLoops
  BY <1>2 DEF Lives, Points, S!Sigterm, S!CancelLoops, S!Loops, InRun
<1>3. ASSUME NEW l \in S!Loops, S!LoopReturn(l)
      PROVE  /\ Lives'
             /\ \A k \in S!Loops : InRun(k)' => InRun(k) /\ age'[k] = age[k]
  BY <1>3 DEF Lives, Points, S!LoopReturn, S!Loops, InRun
<1>4. CASE S!QuickStart \/ S!DailyArm
  BY <1>4 DEF Lives, Points, S!QuickStart, S!DailyArm, S!Loops, InRun
<1>5. ASSUME NEW l \in S!Senders, S!Send(l)
      PROVE  /\ Lives'
             /\ \A k \in S!Loops : InRun(k)' => InRun(k) /\ age'[k] = age[k]
  BY <1>5 DEF Lives, Points, S!Send, S!Senders, S!Loops, InRun
<1>6. ASSUME NEW l \in S!Senders, S!SendReturn(l)
      PROVE  /\ Lives'
             /\ \A k \in S!Loops : InRun(k)' => InRun(k) /\ age'[k] = age[k]
  BY <1>6 DEF Lives, Points, S!SendReturn, S!AfterDigest, S!Senders, S!Loops, InRun
<1>7. CASE \/ \E s \in S!Slots : S!SlackAccept(s) \/ S!SlackLose(s)
           \/ \E d \in ClockSteps : S!StepClock(d)
  BY <1>7 DEF Lives, Points, S!SlackAccept, S!SlackLose, S!StepClock, S!process, InRun
<1>8. QED
  BY <1>1, <1>2, <1>3, <1>4, <1>5, <1>6, <1>7 DEF Others

LEMMA StartsLives ==
    ASSUME Lives, Starts
    PROVE  /\ Lives'
           /\ \E b \in S!Loops :
                 /\ BeginRun(b) /\ age'[b] = 0
                 /\ \A l \in S!Loops \ {b} : InRun(l)' => InRun(l) /\ age'[l] = age[l]
<1>1. CASE (S!Boot \/ S!BootOnce) /\ BeginRun("main")
  BY <1>1 DEF Lives, Points, S!Boot, S!BootOnce, S!Loops, InRun
<1>2. CASE S!QuickFire /\ BeginRun("quick")
  BY <1>2 DEF Lives, Points, S!QuickFire, S!Loops, InRun
<1>3. CASE S!DailyFire /\ BeginRun("daily")
  BY <1>3 DEF Lives, Points, S!DailyFire, S!Loops, InRun
<1>4. QED
  BY <1>1, <1>2, <1>3 DEF Starts

LEMMA TickLives ==
    ASSUME Lives, S!Tick
    PROVE  /\ Lives'
           /\ \A l \in S!Loops : /\ InRun(l)' <=> InRun(l)
                                 /\ InRun(l) => age'[l] = age[l] + 1
<1>1. pc' = pc
  BY DEF S!Tick
<1>2. age' = [l \in S!Loops |-> IF pc[l] \in {"run", "once", "send", "sending"}
                               THEN age[l] + 1 ELSE age[l]]
  BY DEF S!Tick
<1>3. QED
  BY <1>1, <1>2 DEF Lives, InRun

-----------------------------------------------------------------------------
(* The time that the calls of a run take.                                   *)

\* A step that leaves the calls alone and makes no run older leaves TypeOK true.
LEMMA KeepTiming ==
    ASSUME TypeOK, UNCHANGED timing,
           \A l \in S!Loops : InRun(l)' => InRun(l) /\ age'[l] = age[l]
    PROVE  TypeOK'
  BY DEF TypeOK, TimeSpent, timing

LEMMA StartsTypeOK ==
    ASSUME Lives, TypeOK, Starts
    PROVE  TypeOK'
<1>1. PICK b \in S!Loops :
          /\ BeginRun(b) /\ age'[b] = 0
          /\ \A l \in S!Loops \ {b} : InRun(l)' => InRun(l) /\ age'[l] = age[l]
  BY StartsLives
<1>2. /\ DOMAIN calls' = S!Loops /\ DOMAIN callLeft' = S!Loops
      /\ calls'[b] = Calls /\ callLeft'[b] = CallLimit
      /\ \A l \in S!Loops \ {b} : calls'[l] = calls[l] /\ callLeft'[l] = callLeft[l]
  BY <1>1 DEF BeginRun, TypeOK
<1>3. TimeSpent(b)'
  <2>1. (Calls - 1) * CallLimit + CallLimit = Calls * CallLimit
    BY TimedAssumption
  <2>2. age'[b] + (calls'[b] - 1) * CallLimit + callLeft'[b] = Calls * CallLimit
    BY <1>1, <1>2, <2>1, TimedAssumption
  <2>3. QED
    BY <1>2, <2>2, TimedAssumption DEF TimeSpent
<1>4. ASSUME NEW l \in S!Loops \ {b} PROVE TimeSpent(l)'
  BY <1>1, <1>2 DEF TypeOK, TimeSpent
<1>5. QED
  BY <1>2, <1>3, <1>4 DEF TypeOK

LEMMA CallReturnTypeOK ==
    ASSUME Lives, TypeOK, NEW l \in S!Loops, CallReturn(l)
    PROVE  TypeOK'
<1>1. UNCHANGED <<pc, age>> /\ InRun(l)
  BY DEF CallReturn, process
<1>2. PICK n \in 1..(calls[l] - 1) :
          calls' = [calls EXCEPT ![l] = n] /\ callLeft' = [callLeft EXCEPT ![l] = CallLimit]
  BY DEF CallReturn
<1>3. TimeSpent(l)'
  <2>1. /\ calls[l] \in 1..Calls /\ callLeft[l] \in 0..CallLimit /\ age[l] \in Nat
        /\ age[l] + (calls[l] - 1) * CallLimit + callLeft[l] <= Calls * CallLimit
    BY <1>1 DEF TypeOK, TimeSpent, Lives
  <2>2. (n - 1) * CallLimit + CallLimit <= (calls[l] - 1) * CallLimit
    BY <2>1, ProductStep, TimedAssumption
  <2>3. /\ (n - 1) * CallLimit \in Nat /\ (calls[l] - 1) * CallLimit \in Nat
        /\ Calls * CallLimit \in Nat
    BY <2>1, ProductInNat, TimedAssumption
  <2>4. age[l] + (n - 1) * CallLimit + CallLimit <= Calls * CallLimit
    BY <2>1, <2>2, <2>3, TimedAssumption
  <2>5. calls'[l] = n /\ callLeft'[l] = CallLimit /\ age'[l] = age[l]
    BY <1>1, <1>2 DEF TypeOK
  <2>6. n \in 1..Calls
    BY <2>1, TimedAssumption
  <2>7. QED
    BY <2>4, <2>5, <2>6, TimedAssumption DEF TimeSpent
<1>4. ASSUME NEW k \in S!Loops \ {l} PROVE TimeSpent(k)'
  BY <1>1, <1>2 DEF TypeOK, TimeSpent, InRun
<1>5. QED
  BY <1>2, <1>3, <1>4 DEF TypeOK

LEMMA TickTypeOK ==
    ASSUME Lives, TypeOK, Tick
    PROVE  TypeOK'
<1>1. /\ calls' = calls
      /\ callLeft' = [l \in S!Loops |-> IF InRun(l) THEN callLeft[l] - 1 ELSE callLeft[l]]
      /\ \A l \in S!Loops : /\ InRun(l)' <=> InRun(l)
                            /\ InRun(l) => callLeft[l] > 0 /\ age'[l] = age[l] + 1
  BY TickLives DEF Tick
<1>2. ASSUME NEW l \in S!Loops PROVE TimeSpent(l)'
  <2>1. CASE InRun(l)
    <3>1. /\ calls[l] \in 1..Calls /\ callLeft[l] \in 1..CallLimit /\ age[l] \in Nat
          /\ age[l] + (calls[l] - 1) * CallLimit + callLeft[l] <= Calls * CallLimit
      BY <1>1, <2>1 DEF TypeOK, TimeSpent, Lives
    <3>2. (calls[l] - 1) * CallLimit \in Nat /\ Calls * CallLimit \in Nat
      BY <3>1, ProductInNat, TimedAssumption
    <3>3. age'[l] + (calls'[l] - 1) * CallLimit + callLeft'[l]
              = age[l] + (calls[l] - 1) * CallLimit + callLeft[l]
      BY <1>1, <2>1, <3>1, <3>2, TimedAssumption
    <3>4. QED
      BY <1>1, <2>1, <3>1, <3>3, TimedAssumption DEF TimeSpent
  <2>2. CASE ~InRun(l)
    BY <1>1, <2>2 DEF TypeOK, TimeSpent
  <2>3. QED
    BY <2>1, <2>2
<1>3. QED
  BY <1>1, <1>2 DEF TypeOK

LEMMA StepIInv == IInv /\ [Next]_vars => IInv'
<1> SUFFICES ASSUME Lives, TypeOK, [Next]_vars PROVE Lives' /\ TypeOK'
  BY DEF IInv
<1>1. CASE Starts
  BY <1>1, StartsLives, StartsTypeOK
<1>2. ASSUME NEW l \in S!Loops, CallReturn(l) PROVE Lives' /\ TypeOK'
  <2>1. Lives'
    BY <1>2 DEF CallReturn, process, Lives
  <2>2. QED
    BY <1>2, <2>1, CallReturnTypeOK
<1>3. ASSUME NEW l \in S!Loops, RunEnd(l) PROVE Lives' /\ TypeOK'
  BY <1>3, RunEndLives, KeepTiming DEF RunEnd
<1>4. CASE Tick
  BY <1>4, TickLives, TickTypeOK DEF Tick
<1>5. CASE Others
  BY <1>5, OthersLives, KeepTiming DEF Others
<1>6. CASE UNCHANGED vars
  <2>1. UNCHANGED <<pc, age, calls, callLeft>>
    BY <1>6 DEF vars, process, timing
  <2>2. QED
    BY <2>1 DEF Lives, TypeOK, TimeSpent, InRun
<1>7. QED
  BY <1>1, <1>2, <1>3, <1>4, <1>5, <1>6 DEF Next, CallOver

\* TimedScheduler.TypeOK, client.go call: at every moment of a run the time it has taken
\* and the time that its remaining calls can take are within the calls times the timeout.
THEOREM TimeBudget == Spec => []TypeOK
<1>1. IInv => TypeOK
  BY DEF IInv
<1>2. QED
  BY InitIInv, StepIInv, <1>1, PTL DEF Spec

-----------------------------------------------------------------------------
(* The refinement.                                                          *)

\* Nothing but Tick knows how long a run may last.
LEMMA StartsRefines == ASSUME Starts PROVE Abstract!Next
<1>1. S!Boot => Abstract!Boot
  BY DEF S!Boot, Abstract!Boot, S!channel, Abstract!channel
<1>2. S!BootOnce => Abstract!BootOnce
  BY DEF S!BootOnce, Abstract!BootOnce, S!channel, Abstract!channel
<1>3. S!QuickFire => Abstract!QuickFire
  BY DEF S!QuickFire, Abstract!QuickFire, S!channel, Abstract!channel
<1>4. S!DailyFire => Abstract!DailyFire
  BY DEF S!DailyFire, Abstract!DailyFire, S!channel, Abstract!channel
<1>5. QED
  BY <1>1, <1>2, <1>3, <1>4 DEF Starts, Abstract!Next

LEMMA RunEndRefines == ASSUME NEW l \in S!Loops, S!RunEnd(l) PROVE Abstract!Next
<1>1. l \in Abstract!Loops
  BY DEF S!Loops, Abstract!Loops
<1>2. Abstract!AfterRun(l) = S!AfterRun(l)
  BY DEF S!AfterRun, Abstract!AfterRun, S!SlackEnabled, Abstract!SlackEnabled
<1>3. Abstract!RunEnd(l)
  BY <1>2 DEF S!RunEnd, Abstract!RunEnd, S!channel, Abstract!channel, S!Loops, Abstract!Loops,
              S!MinOf, Abstract!MinOf
<1>4. QED
  BY <1>1, <1>3 DEF Abstract!Next, Abstract!LoopNext

LEMMA TickRefines ==
    ASSUME Lives, TypeOK, Tick
    PROVE  Abstract!Next
<1>1. S!Loops = Abstract!Loops /\ S!Senders = Abstract!Senders
  BY DEF S!Loops, Abstract!Loops, S!Senders, Abstract!Senders
<1>2. ASSUME NEW l \in S!Loops, pc[l] \in {"run", "once"}
      PROVE  age[l] < Calls * CallLimit
  <2>1. /\ calls[l] \in 1..Calls /\ callLeft[l] \in 1..CallLimit /\ age[l] \in Nat
        /\ age[l] + (calls[l] - 1) * CallLimit + callLeft[l] <= Calls * CallLimit
    BY <1>2 DEF Tick, TypeOK, TimeSpent, Lives, InRun
  <2>2. (calls[l] - 1) * CallLimit \in Nat /\ Calls * CallLimit \in Nat
    BY <2>1, ProductInNat, TimedAssumption
  <2>3. QED
    BY <2>1, <2>2, TimedAssumption
<1>3. (S!Ready <=> Abstract!Ready) /\ (S!Ticking <=> Abstract!Ticking)
  BY <1>1 DEF S!Ready, Abstract!Ready, S!Ticking, Abstract!Ticking
<1>4. S!Tick
  BY DEF Tick
<1>5. Abstract!Tick
  <2>1. \A l \in Abstract!Loops : pc[l] \in {"run", "once"} => age[l] < Calls * CallLimit
    BY <1>1, <1>2
  <2>2. /\ wall < Horizon
        /\ \A l \in Abstract!Loops : pc[l] = "sending" => left[l] > 0
        /\ Prompt => ~Abstract!Ready
        /\ wall' = wall + 1
    BY <1>1, <1>3, <1>4 DEF S!Tick
  <2>3. age' = [l \in Abstract!Loops |-> IF pc[l] \in {"run", "once", "send", "sending"}
                                        THEN age[l] + 1 ELSE age[l]]
    BY <1>1, <1>4 DEF S!Tick
  <2>4. left' = [l \in Abstract!Loops |->
                    IF l = "quick" /\ Abstract!Ticking /\ left[l] = 1 THEN QuickInterval
                    ELSE IF left[l] > 0 THEN left[l] - 1 ELSE 0]
    BY <1>1, <1>4 DEF S!Tick, S!Ticking, Abstract!Ticking
  <2>5. /\ tickReady' = (tickReady \/ (Abstract!Ticking /\ left["quick"] = 1))
        /\ dataAge' = IF pc["main"] = "await" THEN dataAge + 1 ELSE dataAge
        /\ UNCHANGED <<up, cancelled, pc, target, Abstract!channel>>
    BY <1>4 DEF S!Tick, S!Ticking, Abstract!Ticking, S!channel, Abstract!channel
  <2>6. QED
    BY <2>1, <2>2, <2>3, <2>4, <2>5 DEF Abstract!Tick
<1>6. QED
  BY <1>5 DEF Abstract!Next

LEMMA OthersRefines == ASSUME Others PROVE Abstract!Next
<1>1. S!Down => Abstract!Down
  BY DEF S!Down, Abstract!Down, S!channel, Abstract!channel, S!Loops, Abstract!Loops
<1>2. CASE S!Crash \/ S!Exit \/ S!OnceExit
  BY <1>1, <1>2 DEF S!Crash, S!Exit, S!OnceExit, Abstract!Crash, Abstract!Exit,
                    Abstract!OnceExit, Abstract!Next
<1>3. CASE S!Sigterm \/ S!CancelLoops
  BY <1>3 DEF S!Sigterm, S!CancelLoops, Abstract!Sigterm, Abstract!CancelLoops, Abstract!Next,
              S!channel, Abstract!channel
<1>4. ASSUME NEW l \in S!Loops, S!LoopReturn(l) PROVE Abstract!Next
  BY <1>4 DEF S!LoopReturn, Abstract!LoopReturn, Abstract!LoopNext, Abstract!Next,
              S!channel, Abstract!channel, S!Loops, Abstract!Loops
<1>5. CASE S!QuickStart
  BY <1>5 DEF S!QuickStart, Abstract!QuickStart, Abstract!Next, S!channel, Abstract!channel
<1>6. CASE S!DailyArm
  <2>1. S!NextDailyAt(wall) = Abstract!NextDailyAt(wall)
    BY DEF S!NextDailyAt, Abstract!NextDailyAt, S!Unparsed, Abstract!Unparsed
  <2>2. Abstract!DailyArm
    BY <1>6, <2>1 DEF S!DailyArm, Abstract!DailyArm, S!channel, Abstract!channel
  <2>3. QED
    BY <2>2 DEF Abstract!Next
<1>7. ASSUME NEW l \in S!Senders, S!Send(l) \/ S!SendReturn(l) PROVE Abstract!Next
  <2>1. l \in Abstract!Senders /\ (S!ContextDone(l) <=> Abstract!ContextDone(l))
    BY DEF S!Senders, Abstract!Senders, S!ContextDone, Abstract!ContextDone
  <2>2. S!Send(l) => Abstract!Send(l)
    BY <2>1 DEF S!Send, Abstract!Send, S!MinOf, Abstract!MinOf
  <2>3. S!SendReturn(l) => Abstract!SendReturn(l)
    BY <2>1 DEF S!SendReturn, Abstract!SendReturn, S!AfterDigest, Abstract!AfterDigest,
                S!channel, Abstract!channel
  <2>4. QED
    BY <1>7, <2>1, <2>2, <2>3 DEF Abstract!Next, Abstract!SenderNext
<1>8. ASSUME NEW s \in S!Slots, S!SlackAccept(s) \/ S!SlackLose(s) PROVE Abstract!Next
  BY <1>8 DEF S!SlackAccept, S!SlackLose, Abstract!SlackAccept, Abstract!SlackLose,
              Abstract!Next, S!process, Abstract!process, S!Slots, Abstract!Slots
<1>9. ASSUME NEW d \in ClockSteps, S!StepClock(d) PROVE Abstract!Next
  BY <1>9 DEF S!StepClock, Abstract!StepClock, Abstract!Next, S!process, Abstract!process,
              S!channel, Abstract!channel
<1>10. QED
  BY <1>2, <1>3, <1>4, <1>5, <1>6, <1>7, <1>8, <1>9 DEF Others

LEMMA StepRefinesScheduler ==
    ASSUME IInv, [Next]_vars
    PROVE  [Abstract!Next]_(Abstract!vars)
<1>1. CASE Starts
  BY <1>1, StartsRefines
<1>2. ASSUME NEW l \in S!Loops, CallReturn(l) PROVE UNCHANGED Abstract!vars
  BY <1>2 DEF CallReturn, process, Abstract!vars, Abstract!process, Abstract!channel
<1>3. ASSUME NEW l \in S!Loops, RunEnd(l) PROVE Abstract!Next
  BY <1>3, RunEndRefines DEF RunEnd
<1>4. CASE Tick
  BY <1>4, TickRefines DEF IInv
<1>5. CASE Others
  BY <1>5, OthersRefines
<1>6. CASE UNCHANGED vars
  BY <1>6 DEF vars, process, Abstract!vars, Abstract!process, Abstract!channel
<1>7. QED
  BY <1>1, <1>2, <1>3, <1>4, <1>5, <1>6 DEF Next, CallOver

\* TimedScheduler.RunsAreBounded without its fairness, reconciler.go RunAll and client.go
\* call: every behaviour of the process with its calls is one of Scheduler whose runs
\* last no longer than the calls of a run times their timeout.
THEOREM CallsImplementRuns == Spec => Abstract!Spec
<1>1. Init => Abstract!Init
  BY DEF Init, S!Init, Abstract!Init, S!Loops, Abstract!Loops, S!Slots, Abstract!Slots
<1>2. QED
  BY InitIInv, StepIInv, StepRefinesScheduler, <1>1, PTL DEF Spec, Abstract!Spec

-----------------------------------------------------------------------------
(* The digest.                                                              *)

\* A run that is over took no longer than the calls that it is done with.
Used == (Calls - calls["daily"] + 1) * CallLimit
SendInv == pc["daily"] = "send" => calls["daily"] \in 1..Calls /\ age["daily"] <= Used

\* What the calls left of a budget can take is missing from what the others took.
LEMMA BudgetUsed ==
    ASSUME NEW n \in Nat, NEW c \in 1..n, NEW d \in Nat,
           NEW a \in Nat, NEW w \in Nat, a + (c - 1) * d + w <= n * d
    PROVE  (n - c + 1) * d \in Nat /\ a <= (n - c + 1) * d
<1>1. PICK m \in Nat : n = (c - 1) + m /\ m = n - c + 1
  <2>1. n - c + 1 \in Nat /\ n = (c - 1) + (n - c + 1)
    OBVIOUS
  <2>2. QED
    BY <2>1
<1>2. PICK k \in Nat : k = c - 1
  OBVIOUS
<1>3. (k + m) * d = k * d + m * d /\ k * d \in Nat /\ m * d \in Nat
  OBVIOUS
<1>4. n * d = k * d + m * d
  BY <1>1, <1>2, <1>3
<1>5. a + k * d + w <= k * d + m * d
  BY <1>2, <1>4
<1>6. a <= m * d
  BY <1>3, <1>5
<1>7. QED
  BY <1>1, <1>3, <1>6

LEMMA StepSendInv ==
    ASSUME Prompt, IInv, SendInv, [Next]_vars
    PROVE  SendInv'
<1>1. "daily" \in S!Loops /\ DOMAIN calls = S!Loops
  BY DEF S!Loops, IInv, TypeOK
<1>2. pc' \in [S!Loops -> Points] /\ age' \in [S!Loops -> Nat]
  BY StepIInv DEF IInv, Lives
<1>3. CASE pc' = pc /\ age' = age /\ calls' = calls
  BY <1>3 DEF SendInv, Used
<1>4. CASE Starts
  <2>1. CASE (S!Boot \/ S!BootOnce) /\ BeginRun("main")
    <3>1. /\ pc'["daily"] = pc["daily"] /\ age'["daily"] = age["daily"]
          /\ calls'["daily"] = calls["daily"]
      BY <1>1, <2>1 DEF S!Boot, S!BootOnce, BeginRun, IInv, Lives, S!Loops
    <3>2. QED
      BY <3>1 DEF SendInv, Used
  <2>2. CASE S!QuickFire /\ BeginRun("quick")
    <3>1. /\ pc'["daily"] = pc["daily"] /\ age'["daily"] = age["daily"]
          /\ calls'["daily"] = calls["daily"]
      BY <1>1, <2>2 DEF S!QuickFire, BeginRun, IInv, Lives, S!Loops
    <3>2. QED
      BY <3>1 DEF SendInv, Used
  <2>3. CASE S!DailyFire /\ BeginRun("daily")
    BY <2>3 DEF S!DailyFire, SendInv, IInv, Lives, S!Loops
  <2>4. QED
    BY <1>4, <2>1, <2>2, <2>3 DEF Starts
<1>5. ASSUME NEW l \in S!Loops, RunEnd(l) PROVE SendInv'
  <2>1. CASE l = "daily"
    <3>1. InRun("daily") /\ age' \in {age, [age EXCEPT !["daily"] = 0]}
      BY <1>5, <2>1 DEF RunEnd, S!RunEnd, InRun
    <3>2. /\ calls["daily"] \in 1..Calls /\ callLeft["daily"] \in 0..CallLimit
          /\ age["daily"] \in Nat
          /\ age["daily"] + (calls["daily"] - 1) * CallLimit + callLeft["daily"]
               <= Calls * CallLimit
      BY <1>1, <3>1 DEF IInv, TypeOK, TimeSpent, Lives
    <3>3. Used \in Nat /\ age["daily"] <= Used
      BY <3>2, BudgetUsed, TimedAssumption DEF Used
    <3>4. calls' = calls /\ age'["daily"] <= age["daily"] /\ age'["daily"] \in Nat
      BY <1>1, <1>2, <1>5, <3>1, <3>2 DEF RunEnd, timing, IInv, Lives
    <3>5. QED
      BY <3>2, <3>3, <3>4 DEF SendInv, Used
  <2>2. CASE l # "daily"
    <3>1. /\ pc'["daily"] \in {pc["daily"], "arm"} /\ age'["daily"] = age["daily"]
          /\ calls' = calls
      BY <1>5, <2>2 DEF RunEnd, S!RunEnd, timing, IInv, Lives, S!Loops
    <3>2. QED
      BY <3>1 DEF SendInv, Used
  <2>3. QED
    BY <2>1, <2>2
<1>6. CASE Tick
  <2>1. pc' = pc /\ pc["daily"] # "send"
    BY <1>6 DEF Tick, S!Tick, S!Ready, S!Senders
  <2>2. QED
    BY <2>1 DEF SendInv
<1>7. CASE Others
  <2>0. calls' = calls
    BY <1>7 DEF Others, timing
  <2>1. CASE S!Crash \/ S!Exit \/ S!OnceExit
    BY <2>1 DEF S!Crash, S!Exit, S!OnceExit, S!Down, SendInv, S!Loops
  <2>2. CASE S!Sigterm \/ S!CancelLoops \/ S!QuickStart \/ S!DailyArm
    BY <2>0, <2>2 DEF S!Sigterm, S!CancelLoops, S!QuickStart, S!DailyArm, SendInv, Used, IInv,
                      Lives, S!Loops
  <2>3. ASSUME NEW l \in S!Loops, S!LoopReturn(l) PROVE SendInv'
    BY <2>0, <2>3 DEF S!LoopReturn, SendInv, Used, IInv, Lives, S!Loops
  <2>4. ASSUME NEW l \in S!Senders, S!Send(l) \/ S!SendReturn(l) PROVE SendInv'
    BY <2>0, <2>4 DEF S!Send, S!SendReturn, S!AfterDigest, S!Senders, SendInv, Used, IInv, Lives,
                      S!Loops
  <2>5. CASE \/ \E s \in S!Slots : S!SlackAccept(s) \/ S!SlackLose(s)
             \/ \E d \in ClockSteps : S!StepClock(d)
    BY <2>0, <2>5 DEF S!SlackAccept, S!SlackLose, S!StepClock, S!process, SendInv, Used
  <2>6. QED
    BY <1>7, <2>1, <2>2, <2>3, <2>4, <2>5 DEF Others
<1>8. ASSUME NEW l \in S!Loops, CallReturn(l) PROVE SendInv'
  <2>1. /\ InRun(l) /\ pc' = pc /\ age' = age
        /\ \A k \in S!Loops \ {l} : calls'[k] = calls[k]
    BY <1>1, <1>8 DEF CallReturn, process
  <2>2. pc["daily"] = "send" => l # "daily"
    BY <2>1 DEF InRun
  <2>3. QED
    BY <1>1, <2>1, <2>2 DEF SendInv, Used
<1>9. QED
  BY <1>3, <1>4, <1>5, <1>6, <1>7, <1>8 DEF Next, CallOver, vars, process, timing

\* TimedScheduler.LateByItsCalls, client.go call and main.go dailyLoop: for every number of
\* calls and every timeout, a run that is over when its limit has passed has been through
\* calls whose timeouts add up to the limit: nothing but its own calls makes it late.
THEOREM LateByCalls ==
    ASSUME Prompt
    PROVE  Spec => []LateByItsCalls
<1>1. Init => SendInv
  BY DEF Init, S!Init, SendInv, S!Loops
<1>2. ASSUME IInv, SendInv PROVE LateByItsCalls
  <2> SUFFICES ASSUME pc["daily"] = "send", age["daily"] >= RunLimit PROVE Used >= RunLimit
    BY DEF LateByItsCalls, Used
  <2>1. age["daily"] \in Nat /\ age["daily"] <= Used /\ calls["daily"] \in 1..Calls
    BY <1>2 DEF SendInv, IInv, Lives, S!Loops
  <2>2. Calls - calls["daily"] + 1 \in Nat
    BY <2>1, TimedAssumption
  <2>3. Used \in Nat
    BY <2>2, ProductInNat, TimedAssumption DEF Used
  <2>4. QED
    BY <2>1, <2>3, TimedAssumption
<1>3. IInv /\ SendInv /\ [Next]_vars => SendInv'
  BY StepSendInv
<1>4. QED
  BY InitIInv, StepIInv, <1>1, <1>2, <1>3, PTL DEF Spec

=============================================================================
