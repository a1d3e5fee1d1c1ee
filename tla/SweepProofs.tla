----------------------------- MODULE SweepProofs -----------------------------
(***************************************************************************)
(* Theorems about module Sweep, for every table of plans and every number  *)
(* of goroutines that SweepAssumption allows: type correctness, that a     *)
(* gauge goes back only in a run that overlaps another, and, if the table  *)
(* is regular, that a finished run has refreshed every gauge or names the  *)
(* call that failed.                                                       *)
(***************************************************************************)
EXTENDS Sweep, WellFoundedInduction, TLAPS

LEMMA MinOfNat ==
    ASSUME NEW T, T \subseteq Nat, T # {}
    PROVE  Min(T) \in T /\ \A y \in T : Min(T) <= y
<1> DEFINE R == OpToRel(<, Nat)
<1>1. IsWellFoundedOn(R, Nat)
  BY NatLessThanWellFounded
<1>2. \E x \in T : \A y \in T : <<y, x>> \notin R
  <2> HIDE DEF R
  <2>1. QED
    BY <1>1, WFMin
<1>3. PICK x \in T : \A y \in T : <<y, x>> \notin R
  BY <1>2
<1>4. \A y \in T : ~(y < x)
  BY <1>3 DEF OpToRel
<1>5. \A y \in T : x <= y
  BY <1>4
<1>6. QED
  BY <1>5 DEF Min

LEMMA TailOfSeq ==
    ASSUME NEW S, NEW s \in Seq(S), s # <<>>
    PROVE  /\ Tail(s) \in Seq(S)
           /\ Head(s) \in S
           /\ Head(s) = s[1]
           /\ Len(Tail(s)) = Len(s) - 1
           /\ \A i \in 1..(Len(s) - 1) : Tail(s)[i] = s[i + 1]
  OBVIOUS

\* What a plan is made of.
LEMMA PlanParts ==
    /\ \A s \in AllSteps : s.pub \in Seq(Gauges \cup {Cut})
                           /\ (s.call # None => s.call \in Reads)
    /\ AllItems \subseteq Seq(AllSteps)
    /\ \A j \in Jobs : \A i \in 1..Len(Plans[j].loops) : Plans[j].loops[i] \subseteq AllItems
    /\ \A j \in Jobs : Len(Plans[j].loops) \in Nat
<1>1. \A s \in AllSteps : s.call # None => s.call \in Reads
  BY DEF Reads
<1>2. \A s \in AllSteps : s.pub \in Seq(Gauges \cup {Cut})
  BY SweepAssumption DEF SoundPlans
<1>3. AllItems \subseteq Seq(AllSteps)
  BY SweepAssumption DEF SoundPlans
<1>4. ASSUME NEW j \in Jobs
      PROVE  /\ Len(Plans[j].loops) \in Nat
             /\ \A i \in 1..Len(Plans[j].loops) : Plans[j].loops[i] \subseteq AllItems
  <2>1. Plans[j].loops \in Seq(SUBSET AllItems)
    BY SweepAssumption DEF SoundPlans
  <2>2. QED
    BY <2>1
<1>5. QED
  BY <1>1, <1>2, <1>3, <1>4

-----------------------------------------------------------------------------
(* Type correctness.                                                        *)

LEMMA InitTypeOK == Init => TypeOK
<1> SUFFICES ASSUME Init PROVE TypeOK
  OBVIOUS
<1>1. 1 \in Blocks /\ 0 \in 0..MaxFaults /\ Len(Plans) \in Nat
  BY SweepAssumption DEF SoundPlans, Blocks
<1>2. /\ DOMAIN gauge = Gauges
      /\ \A g \in Gauges : gauge[g] \in [Inputs[g] -> 0..1]
  BY DEF Init
<1>3. /\ stamp \in [Jobs -> 0..1]
      /\ got \in [Runners -> [Reads -> 0..1]]
      /\ start \in [Runners -> 0..1] /\ floor \in [Runners -> 0..1]
  BY DEF Init, NothingRead
<1>4. /\ items \in [Runners -> SUBSET AllItems]
      /\ found \in [Runners -> SUBSET Reads]
      /\ suspect \in [Runners -> SUBSET Reads]
      /\ job \in [Runners -> 0..(Len(Plans) + 1)]
      /\ loop \in [Runners -> Nat]
  BY <1>1 DEF Init
<1>5. /\ rest \in [Runners -> Seq(AllSteps)]
      /\ out \in [Runners -> Seq(Gauges \cup {Cut})]
      /\ reports \in [Runners -> Seq(SUBSET Reads)]
  BY DEF Init
<1>6. \A r \in Runners : ~(Active(r) \/ Done(r))
  BY SweepAssumption DEF SoundPlans, Init, Active, Done
<1>7. QED
  BY <1>1, <1>2, <1>3, <1>4, <1>5, <1>6 DEF Init, TypeOK

LEMMA StepTypeOK == TypeOK /\ [Next]_vars => TypeOK'
<1> SUFFICES ASSUME TypeOK, [Next]_vars PROVE TypeOK'
  OBVIOUS
<1>0. /\ head \in Nat /\ head >= 0 /\ faults \in Nat /\ Len(Plans) \in Nat \ {0}
      /\ Jobs = 1..Len(Plans)
  BY SweepAssumption DEF SoundPlans, TypeOK, Blocks
<1>1. CASE NewBlock
  <2>1. head' \in Blocks /\ 0..head \subseteq 0..head'
    BY <1>1, SweepAssumption DEF SoundPlans, NewBlock, TypeOK, Blocks
  <2>2. /\ UNCHANGED <<faults, gauge, stamp, errors, job, loop, items, rest, out, got>>
        /\ UNCHANGED <<found, reports, start, floor, met, suspect>>
    BY <1>1 DEF NewBlock, local, run
  <2>3. \A g \in Gauges : gauge'[g] \in [Inputs[g] -> 0..head']
    BY <2>1, <2>2 DEF TypeOK
  <2>4. /\ stamp' \in [Jobs -> 0..head']
        /\ start' \in [Runners -> 0..head'] /\ floor' \in [Runners -> 0..head']
    BY <2>1, <2>2 DEF TypeOK
  <2>5. got' \in [Runners -> [Reads -> 0..head']]
    BY <2>1, <2>2 DEF TypeOK
  <2>6. QED
    BY <2>1, <2>2, <2>3, <2>4, <2>5 DEF TypeOK, Active, Done
<1>2. ASSUME NEW r \in Runners, Begin(r) PROVE TypeOK'
  <2> DEFINE busy == {q \in Runners : Active(q)}
             T == {head} \cup {start[q] : q \in busy}
  <2>1. T \subseteq 0..head /\ T # {}
    BY <1>0 DEF TypeOK
  <2>2. Min(T) \in 0..head
    BY <2>1, MinOfNat
  <2>3. floor' \in [Runners -> 0..head]
    BY <1>2, <2>2 DEF Begin, TypeOK
  <2>4. \A q \in Runners : Reported(q) \subseteq Reads
    BY SMTT(30) DEF Reported, TypeOK
  <2>5. suspect' \in [Runners -> SUBSET Reads]
    BY <1>2, <2>4, SMTT(30) DEF Begin, TypeOK
  <2>6. /\ UNCHANGED <<head, faults, gauge, stamp, errors, loop, items, rest, out, got, found>>
        /\ job' = [job EXCEPT ![r] = 1]
        /\ start' = [start EXCEPT ![r] = head]
        /\ reports' = [reports EXCEPT ![r] = <<>>]
    BY <1>2 DEF Begin, local
  <2>7. /\ job \in [Runners -> 0..(Len(Plans) + 1)]
        /\ start \in [Runners -> 0..head]
        /\ reports \in [Runners -> Seq(SUBSET Reads)]
    BY DEF TypeOK
  <2>8. job' \in [Runners -> 0..(Len(Plans) + 1)]
    BY <1>0, <2>6, <2>7
  <2>9. start' \in [Runners -> 0..head]
    BY <1>0, <2>6, <2>7
  <2>10. reports' \in [Runners -> Seq(SUBSET Reads)]
    BY <2>6, <2>7
  <2>11. ASSUME NEW q \in Runners, Active(q)' \/ Done(q)' PROVE Len(reports'[q]) = job'[q] - 1
    BY <2>6, <2>7, <2>11, SMTT(30) DEF TypeOK, Active, Done
  <2>12. met' \in [Runners -> BOOLEAN]
    BY <1>2 DEF Begin
  <2>13. QED
    BY <2>3, <2>5, <2>6, <2>8, <2>9, <2>10, <2>11, <2>12 DEF TypeOK
<1>3. ASSUME NEW r \in Runners, Active(r), NextLoop(r) PROVE TypeOK'
  <2>1. Plan(r).loops[loop[r] + 1] \subseteq AllItems
    <3>1. job[r] \in Jobs /\ loop[r] \in Nat
      BY <1>3 DEF Active, TypeOK
    <3>2. Len(Plans[job[r]].loops) \in Nat /\ loop[r] < Len(Plans[job[r]].loops)
      BY <1>3, <3>1, PlanParts DEF NextLoop, Plan
    <3>3. loop[r] + 1 \in 1..Len(Plans[job[r]].loops)
      BY <3>1, <3>2
    <3>4. QED
      BY <3>1, <3>3, PlanParts DEF Plan
  <2>2. /\ loop' \in [Runners -> Nat]
        /\ items' \in [Runners -> SUBSET AllItems]
    BY <1>3, <2>1, SMTT(30) DEF NextLoop, TypeOK
  <2>3. QED
    BY <1>3, <2>2 DEF NextLoop, TypeOK, run, Active, Done
<1>4. ASSUME NEW r \in Runners, Active(r), PickItem(r) PROVE TypeOK'
  <2>1. PICK i \in items[r] : /\ items' = [items EXCEPT ![r] = @ \ {i}]
                              /\ rest' = [rest EXCEPT ![r] = i]
    BY <1>4 DEF PickItem
  <2>2. i \in Seq(AllSteps)
    BY PlanParts DEF TypeOK
  <2>3. /\ items' \in [Runners -> SUBSET AllItems]
        /\ rest' \in [Runners -> Seq(AllSteps)]
    BY <2>1, <2>2 DEF TypeOK
  <2>4. QED
    BY <1>4, <2>3 DEF PickItem, TypeOK, run, Active, Done
<1>5. ASSUME NEW r \in Runners, Active(r), Answer(r) PROVE TypeOK'
  <2> DEFINE s == Head(rest[r])
  <2>1. rest[r] \in Seq(AllSteps) /\ rest[r] # <<>>
    BY <1>5 DEF Answer, TypeOK
  <2>2. s \in AllSteps /\ Tail(rest[r]) \in Seq(AllSteps)
    BY <2>1, TailOfSeq
  <2>3. s.call \in Reads /\ s.pub \in Seq(Gauges \cup {Cut})
    BY <1>5, <2>2, PlanParts DEF Answer
  <2>4. /\ rest' = [rest EXCEPT ![r] = Tail(rest[r])]
        /\ out' = [out EXCEPT ![r] = s.pub]
        /\ got' = [got EXCEPT ![r] = [got[r] EXCEPT ![s.call] = head]]
    BY <1>5 DEF Answer
  <2> HIDE DEF s
  <2>5. /\ rest' \in [Runners -> Seq(AllSteps)]
        /\ out' \in [Runners -> Seq(Gauges \cup {Cut})]
    BY <2>2, <2>3, <2>4 DEF TypeOK
  <2>6. got' \in [Runners -> [Reads -> 0..head]]
    BY <1>0, <2>3, <2>4 DEF TypeOK
  <2>7. QED
    BY <1>5, <2>5, <2>6 DEF Answer, TypeOK, run, Active, Done
<1>6. ASSUME NEW r \in Runners, Active(r), Fail(r) PROVE TypeOK'
  <2> DEFINE s == Head(rest[r])
  <2>1. rest[r] \in Seq(AllSteps) /\ rest[r] # <<>>
    BY <1>6 DEF Fail, TypeOK
  <2>2. s \in AllSteps /\ Tail(rest[r]) \in Seq(AllSteps)
    BY <2>1, TailOfSeq
  <2>3. s.call \in Reads
    BY <1>6, <2>2, PlanParts DEF Fail
  <2>4. faults' \in 0..MaxFaults
    BY <1>0, <1>6, SweepAssumption DEF SoundPlans, Fail, TypeOK
  <2>5. /\ found' = [found EXCEPT ![r] = found[r] \cup {s.call}]
        /\ suspect' = [q \in Runners |-> IF q = r THEN suspect[q] ELSE suspect[q] \cup {s.call}]
        /\ rest' = [rest EXCEPT ![r] = IF s.onErr = "next" THEN Tail(rest[r]) ELSE <<>>]
        /\ items' = [items EXCEPT ![r] = IF s.onErr = "task" THEN {} ELSE items[r]]
        /\ loop' = [loop EXCEPT ![r] = IF s.onErr = "task" THEN Len(Plan(r).loops) + 1 ELSE loop[r]]
        /\ UNCHANGED <<head, gauge, stamp, errors, job, reports, start, floor, met, out, got>>
    BY <1>6 DEF Fail, run
  <2> HIDE DEF s
  <2>6. Len(Plan(r).loops) + 1 \in Nat
    BY <1>6, PlanParts DEF Active, Plan
  <2>7. /\ found' \in [Runners -> SUBSET Reads] /\ suspect' \in [Runners -> SUBSET Reads]
    BY <2>3, <2>5 DEF TypeOK
  <2>8. /\ rest' \in [Runners -> Seq(AllSteps)]
        /\ items' \in [Runners -> SUBSET AllItems]
        /\ loop' \in [Runners -> Nat]
    BY <2>2, <2>5, <2>6 DEF TypeOK
  <2>9. QED
    BY <2>4, <2>5, <2>7, <2>8 DEF TypeOK, Active, Done
<1>7. ASSUME NEW r \in Runners, Active(r), Compute(r) PROVE TypeOK'
  <2> DEFINE s == Head(rest[r])
  <2>1. rest[r] \in Seq(AllSteps) /\ rest[r] # <<>>
    BY <1>7 DEF Compute, TypeOK
  <2>2. s.pub \in Seq(Gauges \cup {Cut}) /\ Tail(rest[r]) \in Seq(AllSteps)
    BY <2>1, TailOfSeq, PlanParts
  <2>3. /\ rest' = [rest EXCEPT ![r] = Tail(rest[r])]
        /\ out' = [out EXCEPT ![r] = s.pub]
    BY <1>7 DEF Compute
  <2> HIDE DEF s
  <2>4. /\ rest' \in [Runners -> Seq(AllSteps)]
        /\ out' \in [Runners -> Seq(Gauges \cup {Cut})]
    BY <2>2, <2>3 DEF TypeOK
  <2>5. QED
    BY <1>7, <2>4 DEF Compute, TypeOK, run, Active, Done
<1>8. ASSUME NEW r \in Runners, Active(r), Publish(r) PROVE TypeOK'
  <2> DEFINE g == Head(out[r])
  <2>1. out[r] \in Seq(Gauges \cup {Cut}) /\ out[r] # <<>> /\ g # Cut
    BY <1>8 DEF Publish, TypeOK
  <2>2. g \in Gauges /\ Tail(out[r]) \in Seq(Gauges \cup {Cut})
    BY <2>1, TailOfSeq
  <2>3. Inputs[g] \subseteq Reads
    BY <2>2, SweepAssumption DEF SoundPlans
  <2>4. gauge' = [gauge EXCEPT ![g] = [x \in Inputs[g] |-> got[r][x]]]
        /\ out' = [out EXCEPT ![r] = Tail(out[r])]
    BY <1>8 DEF Publish
  <2> HIDE DEF g
  <2>5. [x \in Inputs[g] |-> got[r][x]] \in [Inputs[g] -> 0..head]
    BY <2>3 DEF TypeOK
  <2>6. /\ DOMAIN gauge' = Gauges
        /\ \A h \in Gauges : gauge'[h] \in [Inputs[h] -> 0..head]
    BY <2>2, <2>4, <2>5 DEF TypeOK
  <2>7. out' \in [Runners -> Seq(Gauges \cup {Cut})]
    BY <2>2, <2>4 DEF TypeOK
  <2>8. QED
    BY <1>8, <2>6, <2>7 DEF Publish, TypeOK, run, Active, Done
<1>9. ASSUME NEW r \in Runners, Active(r), GoOn(r) PROVE TypeOK'
  <2>1. out[r] \in Seq(Gauges \cup {Cut}) /\ out[r] # <<>>
    BY <1>9 DEF GoOn, TypeOK
  <2>2. Tail(out[r]) \in Seq(Gauges \cup {Cut})
    BY <2>1, TailOfSeq
  <2>3. /\ rest' \in [Runners -> Seq(AllSteps)]
        /\ out' \in [Runners -> Seq(Gauges \cup {Cut})]
    <3>1. CASE out' = [out EXCEPT ![r] = Tail(out[r])] /\ rest' = rest
      BY <2>2, <3>1 DEF TypeOK
    <3>2. CASE out' = [out EXCEPT ![r] = <<>>] /\ rest' = [rest EXCEPT ![r] = <<>>]
      <4>1. <<>> \in Seq(AllSteps) /\ <<>> \in Seq(Gauges \cup {Cut})
        OBVIOUS
      <4>2. QED
        BY <3>2, <4>1 DEF TypeOK
    <3>3. QED
      BY <1>9, <3>1, <3>2 DEF GoOn
  <2>4. QED
    BY <1>9, <2>3 DEF GoOn, TypeOK, run, Active, Done
<1>10. ASSUME NEW r \in Runners, Active(r), FinishJob(r) PROVE TypeOK'
  <2>1. job[r] \in 1..Len(Plans) /\ Len(reports[r]) = job[r] - 1
    BY <1>0, <1>10 DEF Active, TypeOK
  <2>2. /\ job' = [job EXCEPT ![r] = job[r] + 1]
        /\ reports' = [reports EXCEPT ![r] = Append(reports[r], found[r])]
        /\ loop' = [loop EXCEPT ![r] = 0]
        /\ got' = [got EXCEPT ![r] = NothingRead]
        /\ found' = [found EXCEPT ![r] = {}]
        /\ UNCHANGED <<head, faults, gauge, start, floor, met, suspect, items, rest, out>>
    BY <1>10 DEF FinishJob
  <2>3. stamp' \in [Jobs -> 0..head]
    <3>1. head \in 0..head
      BY <1>0
    <3>2. stamp' = stamp \/ stamp' = [stamp EXCEPT ![job[r]] = head]
      BY <1>10 DEF FinishJob
    <3>3. QED
      BY <3>1, <3>2 DEF TypeOK
  <2>4. errors' \in Nat
    BY <1>10 DEF FinishJob, RunError, TypeOK
  <2>5. NothingRead \in [Reads -> 0..head]
    BY <1>0 DEF NothingRead
  <2>6. got' \in [Runners -> [Reads -> 0..head]]
    BY <2>2, <2>5 DEF TypeOK
  <2>7. /\ reports[r] \in Seq(SUBSET Reads) /\ found[r] \in SUBSET Reads
    BY DEF TypeOK
  <2>8. /\ Append(reports[r], found[r]) \in Seq(SUBSET Reads)
        /\ Len(Append(reports[r], found[r])) = job[r]
    BY <2>1, <2>7
  <2>9. reports' \in [Runners -> Seq(SUBSET Reads)]
    BY <2>2, <2>8 DEF TypeOK
  <2>10. job' \in [Runners -> 0..(Len(Plans) + 1)]
    BY <1>0, <2>1, <2>2, SMTT(30) DEF TypeOK
  <2>11. ASSUME NEW q \in Runners, Active(q)' \/ Done(q)' PROVE Len(reports'[q]) = job'[q] - 1
    <3>1. CASE q = r
      BY <2>1, <2>2, <2>8, <3>1 DEF TypeOK
    <3>2. CASE q # r
      <4>1. job'[q] = job[q] /\ reports'[q] = reports[q]
        BY <2>2, <3>2 DEF TypeOK
      <4>2. QED
        BY <2>11, <4>1 DEF TypeOK, Active, Done
    <3>3. QED
      BY <3>1, <3>2
  <2>12. QED
    BY <2>2, <2>3, <2>4, <2>6, <2>9, <2>10, <2>11 DEF TypeOK
<1>11. CASE UNCHANGED vars
  BY <1>11 DEF vars, local, run, TypeOK, Active, Done
<1>12. QED
  BY <1>1, <1>2, <1>3, <1>4, <1>5, <1>6, <1>7, <1>8, <1>9, <1>10, <1>11 DEF Next, Step

\* Whatever is read and whatever fails: what a gauge shows is a block the chain has
\* reached, and a run has exactly one report for each job it has finished.
THEOREM TypeCorrect == Spec => []TypeOK
  BY InitTypeOK, StepTypeOK, PTL DEF Spec

-----------------------------------------------------------------------------
(* A gauge goes back only in a run that overlaps another.  The invariant:   *)
(* the job of a run that has overlapped none has read nothing older than    *)
(* what the gauges show, nobody has read anything from before its run, and  *)
(* whatever waits to be shown directly has been read.                       *)

\* Nothing has been published since r read what it has: it is the only one at work.
Undisturbed(r) ==
    Active(r) /\ ~met[r] =>
        /\ \A q \in Runners \ {r} : ~Active(q)
        /\ \A g \in Gauges : \A x \in Inputs[g] : got[r][x] # 0 => gauge[g][x] <= got[r][x]

ReadInRun(r) ==
    /\ ~Active(r) => got[r] = NothingRead
    /\ \A x \in Reads : got[r][x] = 0 \/ start[r] <= got[r][x]

ShownIsRead(r) ==
    \A k \in DOMAIN out[r] : out[r][k] \in Reads => got[r][out[r][k]] # 0

Ordered(r) == Undisturbed(r) /\ ReadInRun(r) /\ ShownIsRead(r) /\ Backed(rest[r], got[r])

OrderInv == head > 0 /\ \A r \in Runners : Ordered(r)

\* What backs the later steps still does when the first step is done with.
LEMMA BackedTail ==
    ASSUME NEW s \in Seq(AllSteps), s # <<>>,
           NEW have \in [Reads -> Nat], NEW more \in [Reads -> Nat],
           \A x \in Reads : have[x] # 0 => more[x] # 0,
           Backed(s, have),
           \/ Head(s).onErr = "next"
           \/ Head(s).call \notin Reads
           \/ more[Head(s).call] # 0
    PROVE  Backed(Tail(s), more)
<1>1. /\ Head(s) = s[1] /\ Len(s) \in Nat \ {0} /\ DOMAIN s = 1..Len(s)
      /\ DOMAIN Tail(s) = 1..(Len(s) - 1)
      /\ \A i \in 1..(Len(s) - 1) : Tail(s)[i] = s[i + 1]
  BY TailOfSeq
<1> SUFFICES ASSUME NEW i \in DOMAIN Tail(s), NEW g \in Reads,
                    \E k \in DOMAIN Tail(s)[i].pub : Tail(s)[i].pub[k] = g
             PROVE  \/ more[g] # 0
                    \/ Tail(s)[i].call = g
                    \/ \E h \in 1..(i - 1) : Tail(s)[h].call = g /\ Tail(s)[h].onErr # "next"
  BY DEF Backed
<1>2. i \in Nat /\ i + 1 \in DOMAIN s /\ Tail(s)[i] = s[i + 1]
  BY <1>1
<1>3. \/ have[g] # 0
      \/ s[i + 1].call = g
      \/ \E h \in 1..((i + 1) - 1) : s[h].call = g /\ s[h].onErr # "next"
  BY <1>2 DEF Backed
<1>4. ASSUME NEW h \in 1..((i + 1) - 1), s[h].call = g, s[h].onErr # "next"
      PROVE  \/ more[g] # 0
             \/ \E j \in 1..(i - 1) : Tail(s)[j].call = g /\ Tail(s)[j].onErr # "next"
  <2>1. CASE h = 1
    BY <1>1, <1>4, <2>1
  <2>2. CASE h # 1
    <3>1. h - 1 \in 1..(i - 1) /\ h - 1 \in 1..(Len(s) - 1) /\ (h - 1) + 1 = h
      BY <1>1, <1>2, <2>2
    <3>2. Tail(s)[h - 1] = s[h]
      BY <1>1, <3>1
    <3>3. QED
      BY <1>4, <3>1, <3>2
  <2>3. QED
    BY <2>1, <2>2
<1>5. QED
  BY <1>2, <1>3, <1>4

\* What a step of one runner leaves alone of another.
SameFor(q) ==
    /\ rest'[q] = rest[q] /\ out'[q] = out[q] /\ got'[q] = got[q]
    /\ job'[q] = job[q] /\ met'[q] = met[q] /\ start'[q] = start[q]

\* Whoever is at work beside r knows that it is not undisturbed.
LEMMA OthersOrdered ==
    ASSUME OrderInv, NEW r \in Runners, Active(r), NEW q \in Runners \ {r}, SameFor(q)
    PROVE  Ordered(q)'
<1>1. Active(q)' <=> Active(q)
  BY DEF SameFor, Active
<1>2. Ordered(q)
  BY DEF OrderInv
<1>3. Active(q) => met[q]
  BY <1>2 DEF Ordered, Undisturbed
<1>4. Undisturbed(q)'
  BY <1>1, <1>3 DEF SameFor, Undisturbed
<1>5. ReadInRun(q)'
  BY <1>1, <1>2 DEF SameFor, Ordered, ReadInRun
<1>6. ShownIsRead(q)' /\ Backed(rest[q], got[q])'
  BY <1>2 DEF SameFor, Ordered, ShownIsRead
<1>7. QED
  BY <1>4, <1>5, <1>6 DEF Ordered

\* A step of a job that publishes nothing and starts none keeps its runner ordered, if
\* what it reads is of the head.
LEMMA RunnerOrdered ==
    ASSUME TypeOK, OrderInv, NEW r \in Runners, Active(r),
           \A q \in Runners \ {r} : SameFor(q),
           UNCHANGED <<head, gauge>>,
           job'[r] = job[r], met'[r] = met[r], start'[r] = start[r],
           \A x \in Reads : got'[r][x] \in {got[r][x], head},
           ShownIsRead(r)', Backed(rest'[r], got'[r])
    PROVE  OrderInv'
<1>1. /\ head \in Nat /\ start[r] \in Nat /\ start[r] <= head /\ head > 0
      /\ \A x \in Reads : got[r][x] \in Nat
      /\ \A g \in Gauges : Inputs[g] \subseteq Reads /\ gauge[g] \in [Inputs[g] -> 0..head]
  BY SweepAssumption DEF SoundPlans, TypeOK, Blocks, OrderInv
<1>2. Ordered(r)
  BY DEF OrderInv
<1>3. \A q \in Runners : Active(q)' <=> Active(q)
  BY DEF SameFor, Active
<1>4. ReadInRun(r)'
  BY <1>1, <1>2, <1>3 DEF Ordered, ReadInRun
<1>5. ASSUME ~met[r], NEW g \in Gauges, NEW x \in Inputs[g], got'[r][x] # 0
      PROVE  gauge'[g][x] <= got'[r][x]
  <2>1. x \in Reads /\ gauge[g][x] \in Nat /\ gauge[g][x] <= head
    BY <1>1
  <2>2. got[r][x] # 0 => gauge[g][x] <= got[r][x]
    BY <1>2, <1>5 DEF Ordered, Undisturbed
  <2>3. got'[r][x] = got[r][x] \/ got'[r][x] = head
    BY <2>1
  <2>4. CASE got'[r][x] = got[r][x]
    BY <1>5, <2>2, <2>4
  <2>5. CASE got'[r][x] = head
    BY <2>1, <2>5
  <2>6. QED
    BY <2>3, <2>4, <2>5
<1>6. Undisturbed(r)'
  BY <1>2, <1>3, <1>5 DEF Ordered, Undisturbed
<1>7. \A q \in Runners \ {r} : Ordered(q)'
  BY OthersOrdered
<1>8. QED
  BY <1>1, <1>4, <1>6, <1>7 DEF OrderInv, Ordered

LEMMA InitOrderInv == Init => OrderInv
<1> SUFFICES ASSUME Init PROVE OrderInv
  OBVIOUS
<1>1. \A r \in Runners : /\ got[r] = NothingRead /\ rest[r] = <<>> /\ out[r] = <<>>
                         /\ ~Active(r)
  BY SweepAssumption DEF SoundPlans, Init, Active
<1>2. \A r \in Runners : ReadInRun(r) /\ ShownIsRead(r) /\ Backed(rest[r], got[r])
  BY <1>1 DEF ReadInRun, ShownIsRead, Backed, NothingRead
<1>3. QED
  BY <1>1, <1>2 DEF Init, OrderInv, Ordered, Undisturbed

LEMMA BeginOrdered ==
    ASSUME TypeOK, OrderInv, NEW r \in Runners, Begin(r)
    PROVE  OrderInv'
<1> DEFINE busy == {q \in Runners : Active(q)}
<1>1. /\ UNCHANGED <<head, gauge, rest, out, got>>
      /\ job' = [job EXCEPT ![r] = 1] /\ start' = [start EXCEPT ![r] = head]
      /\ met' = [q \in Runners |-> busy # {} /\ q \in busy \cup {r}]
      /\ ~Active(r)
  BY DEF Begin, local
<1>2. \A q \in Runners : Ordered(q)
  BY DEF OrderInv
<1>3. \A q \in Runners \ {r} : /\ Active(q)' <=> Active(q)
                               /\ start'[q] = start[q] /\ (Active(q) => met'[q])
  BY <1>1 DEF TypeOK, Active
<1>4. got[r] = NothingRead /\ (~met'[r] => \A q \in Runners : ~Active(q))
  BY <1>1, <1>2 DEF Ordered, ReadInRun
<1>5. Active(r)'
  BY <1>1, SweepAssumption DEF SoundPlans, Active, TypeOK
<1>6. ReadInRun(r)' /\ Undisturbed(r)'
  <2>1. ReadInRun(r)'
    BY <1>1, <1>4, <1>5 DEF ReadInRun, NothingRead
  <2>2. \A g \in Gauges : \A x \in Inputs[g] : got'[r][x] = 0
    BY <1>1, <1>4, SweepAssumption DEF SoundPlans, NothingRead
  <2>3. Undisturbed(r)'
    BY <1>3, <1>4, <2>2 DEF Undisturbed
  <2>4. QED
    BY <2>1, <2>3
<1>7. \A q \in Runners \ {r} : ReadInRun(q)' /\ Undisturbed(q)'
  BY <1>1, <1>2, <1>3 DEF Ordered, ReadInRun, Undisturbed
<1>8. \A q \in Runners : ShownIsRead(q)' /\ Backed(rest'[q], got'[q])
  BY <1>1, <1>2 DEF Ordered, ShownIsRead
<1>9. QED
  BY <1>1, <1>6, <1>7, <1>8 DEF OrderInv, Ordered

LEMMA PublishOrdered ==
    ASSUME TypeOK, OrderInv, NEW r \in Runners, Active(r), Publish(r)
    PROVE  OrderInv'
<1> DEFINE g == Head(out[r])
<1>0. \A q \in Runners \ {r} : SameFor(q)
  BY DEF Publish, run, SameFor, TypeOK
<1>1. out[r] \in Seq(Gauges \cup {Cut}) /\ out[r] # <<>> /\ g # Cut
  BY DEF Publish, TypeOK
<1>2. g \in Gauges /\ DOMAIN Tail(out[r]) = 1..(Len(out[r]) - 1)
      /\ \A k \in 1..(Len(out[r]) - 1) : Tail(out[r])[k] = out[r][k + 1] /\ k + 1 \in DOMAIN out[r]
  BY <1>1, TailOfSeq
<1>3. /\ UNCHANGED <<head, rest, got, job, met, start>>
      /\ out'[r] = Tail(out[r])
      /\ gauge' = [gauge EXCEPT ![g] = [x \in Inputs[g] |-> got[r][x]]]
  BY DEF Publish, TypeOK, run
<1> HIDE DEF g
<1>4. Ordered(r) /\ \A q \in Runners : Active(q)' <=> Active(q)
  BY <1>3 DEF OrderInv, Active
<1>5. ASSUME ~met[r], NEW h \in Gauges, NEW x \in Inputs[h], got[r][x] # 0
      PROVE  gauge'[h][x] <= got[r][x]
  <2>1. gauge'[h][x] = IF h = g THEN got[r][x] ELSE gauge[h][x]
    BY <1>2, <1>3 DEF TypeOK
  <2>2. got[r][x] \in Nat
    BY SweepAssumption DEF SoundPlans, TypeOK, Blocks
  <2>3. QED
    BY <1>4, <1>5, <2>1, <2>2 DEF Ordered, Undisturbed
<1>6. Undisturbed(r)'
  BY <1>3, <1>4, <1>5 DEF Ordered, Undisturbed
<1>7. ReadInRun(r)' /\ Backed(rest'[r], got'[r])
  BY <1>3, <1>4 DEF Ordered, ReadInRun
<1>8. ASSUME NEW k \in DOMAIN out'[r], out'[r][k] \in Reads
      PROVE  got'[r][out'[r][k]] # 0
  <2>1. k + 1 \in DOMAIN out[r] /\ out'[r][k] = out[r][k + 1]
    BY <1>2, <1>3
  <2>2. QED
    BY <1>3, <1>4, <1>8, <2>1 DEF Ordered, ShownIsRead
<1>9. ShownIsRead(r)'
  BY <1>8 DEF ShownIsRead
<1>10. \A q \in Runners \ {r} : Ordered(q)'
  BY <1>0, OthersOrdered
<1>11. QED
  BY <1>3, <1>6, <1>7, <1>9, <1>10 DEF OrderInv, Ordered

LEMMA FinishJobOrdered ==
    ASSUME TypeOK, OrderInv, NEW r \in Runners, Active(r), FinishJob(r)
    PROVE  OrderInv'
<1>1. /\ UNCHANGED <<head, gauge, rest, out, met, start>> /\ got'[r] = NothingRead
      /\ rest[r] = <<>> /\ out[r] = <<>>
      /\ \A q \in Runners \ {r} : SameFor(q)
  BY DEF FinishJob, JobOver, ItemOver, TypeOK, SameFor
<1>2. Ordered(r) /\ \A q \in Runners \ {r} : Active(q)' <=> Active(q)
  BY <1>1 DEF OrderInv, Active, SameFor
<1>3. \A g \in Gauges : \A x \in Inputs[g] : got'[r][x] = 0
  BY <1>1, SweepAssumption DEF SoundPlans, NothingRead
<1>4. Undisturbed(r)'
  BY <1>1, <1>2, <1>3 DEF Ordered, Undisturbed
<1>5. ReadInRun(r)' /\ ShownIsRead(r)' /\ Backed(rest'[r], got'[r])
  BY <1>1 DEF ReadInRun, NothingRead, ShownIsRead, Backed
<1>6. \A q \in Runners \ {r} : Ordered(q)'
  BY <1>1, OthersOrdered
<1>7. QED
  BY <1>1, <1>4, <1>5, <1>6 DEF OrderInv, Ordered

LEMMA StepOrderInv ==
    ASSUME TypeOK, OrderInv, [Next]_vars
    PROVE  OrderInv'
<1>0. /\ head \in Nat /\ head > 0
      /\ \A r \in Runners : got[r] \in [Reads -> Nat] /\ Ordered(r)
      /\ \A g \in Gauges : Inputs[g] \subseteq Reads
  BY SweepAssumption DEF SoundPlans, TypeOK, OrderInv, Blocks
<1>1. CASE NewBlock
  BY <1>0, <1>1 DEF NewBlock, local, run, OrderInv, Ordered, Undisturbed, ReadInRun, ShownIsRead,
                    Active
<1>2. ASSUME NEW r \in Runners, Begin(r) PROVE OrderInv'
  BY <1>2, BeginOrdered
<1>3. ASSUME NEW r \in Runners, Active(r), NextLoop(r) PROVE OrderInv'
  <2>1. UNCHANGED <<head, gauge, rest, out, got, job, met, start>>
    BY <1>3 DEF NextLoop, run
  <2>2. QED
    BY <1>0, <2>1 DEF OrderInv, Ordered, Undisturbed, ReadInRun, ShownIsRead, Active
<1>4. ASSUME NEW r \in Runners, Active(r), PickItem(r) PROVE OrderInv'
  <2>1. PICK i \in items[r] : rest' = [rest EXCEPT ![r] = i]
    BY <1>4 DEF PickItem
  <2>2. Backed(i, NothingRead)
    BY SweepAssumption DEF SoundPlans, TypeOK
  <2>3. Backed(i, got[r])
    BY <2>2 DEF Backed, NothingRead
  <2>4. /\ UNCHANGED <<head, gauge, out, got, job, met, start>>
        /\ \A q \in Runners : rest'[q] = IF q = r THEN i ELSE rest[q]
    BY <1>4, <2>1 DEF PickItem, run, TypeOK
  <2>5. Backed(rest'[r], got'[r]) /\ ShownIsRead(r)'
    BY <1>0, <2>3, <2>4 DEF Ordered, ShownIsRead
  <2>6. \A q \in Runners \ {r} : SameFor(q)
    BY <2>4 DEF SameFor
  <2>7. QED
    BY <1>4, <2>4, <2>5, <2>6, RunnerOrdered
<1>5. ASSUME NEW r \in Runners, Active(r), Answer(r) PROVE OrderInv'
  <2> DEFINE s == Head(rest[r])
  <2>1. rest[r] \in Seq(AllSteps) /\ rest[r] # <<>>
    BY <1>5 DEF Answer, TypeOK
  <2>2. s \in AllSteps /\ s = rest[r][1]
    BY <2>1, TailOfSeq
  <2>3. s.call \in Reads
    BY <1>5, <2>2, PlanParts DEF Answer
  <2>4. /\ UNCHANGED <<head, gauge, job, met, start>>
        /\ rest'[r] = Tail(rest[r]) /\ out'[r] = s.pub
        /\ got'[r] = [got[r] EXCEPT ![s.call] = head]
        /\ \A q \in Runners \ {r} : SameFor(q)
    BY <1>5 DEF Answer, TypeOK, run, SameFor
  <2>5. /\ got'[r] \in [Reads -> Nat] /\ got'[r][s.call] # 0
        /\ \A x \in Reads : (got[r][x] # 0 => got'[r][x] # 0) /\ got'[r][x] \in {got[r][x], head}
    BY <1>0, <2>3, <2>4
  <2>6. Backed(rest'[r], got'[r])
    <3>1. Backed(rest[r], got[r]) /\ got[r] \in [Reads -> Nat]
      BY <1>0 DEF Ordered
    <3>2. Backed(Tail(rest[r]), got'[r])
      BY <2>1, <2>5, <3>1, BackedTail
    <3>3. QED
      BY <2>4, <3>2
  <2>7. ASSUME NEW k \in DOMAIN out'[r], out'[r][k] \in Reads PROVE got'[r][out'[r][k]] # 0
    <3>1. 1 \in DOMAIN rest[r]
      BY <2>1
    <3>2. Backed(rest[r], got[r])
      BY <1>0 DEF Ordered
    <3>3. \/ got[r][out'[r][k]] # 0
          \/ s.call = out'[r][k]
          \/ \E h \in 1..(1 - 1) : rest[r][h].call = out'[r][k] /\ rest[r][h].onErr # "next"
      BY <2>2, <2>4, <2>7, <3>1, <3>2 DEF Backed
    <3>4. 1..(1 - 1) = {}
      OBVIOUS
    <3>5. QED
      BY <2>5, <2>7, <3>3, <3>4
  <2>8. ShownIsRead(r)'
    BY <2>7 DEF ShownIsRead
  <2>9. QED
    BY <1>5, <2>4, <2>5, <2>6, <2>8, RunnerOrdered
<1>6. ASSUME NEW r \in Runners, Active(r), Fail(r) PROVE OrderInv'
  <2>1. rest[r] \in Seq(AllSteps) /\ rest[r] # <<>>
    BY <1>6 DEF Fail, TypeOK
  <2>2. /\ UNCHANGED <<head, gauge, out, got, job, met, start>>
        /\ rest'[r] = IF Head(rest[r]).onErr = "next" THEN Tail(rest[r]) ELSE <<>>
        /\ \A q \in Runners \ {r} : SameFor(q)
    BY <1>6 DEF Fail, TypeOK, run, SameFor
  <2>3. Backed(rest[r], got[r]) /\ ShownIsRead(r)'
    BY <1>0, <2>2 DEF Ordered, ShownIsRead
  <2>4. Backed(rest'[r], got'[r])
    <3>1. CASE Head(rest[r]).onErr = "next"
      BY <1>0, <2>1, <2>2, <2>3, <3>1, BackedTail
    <3>2. CASE Head(rest[r]).onErr # "next"
      BY <2>2, <3>2 DEF Backed
    <3>3. QED
      BY <3>1, <3>2
  <2>5. QED
    BY <1>6, <2>2, <2>3, <2>4, RunnerOrdered
<1>7. ASSUME NEW r \in Runners, Active(r), Compute(r) PROVE OrderInv'
  <2> DEFINE s == Head(rest[r])
  <2>1. rest[r] \in Seq(AllSteps) /\ rest[r] # <<>>
    BY <1>7 DEF Compute, TypeOK
  <2>2. s = rest[r][1] /\ 1 \in DOMAIN rest[r] /\ s.call = None /\ None \notin Reads
    BY <1>7, <2>1, TailOfSeq DEF Compute, Reads
  <2>3. /\ UNCHANGED <<head, gauge, got, job, met, start>>
        /\ rest'[r] = Tail(rest[r]) /\ out'[r] = s.pub
        /\ \A q \in Runners \ {r} : SameFor(q)
    BY <1>7 DEF Compute, TypeOK, run, SameFor
  <2>4. Backed(rest[r], got[r])
    BY <1>0 DEF Ordered
  <2>5. Backed(rest'[r], got'[r])
    BY <1>0, <2>1, <2>2, <2>3, <2>4, BackedTail
  <2>6. ASSUME NEW k \in DOMAIN out'[r], out'[r][k] \in Reads PROVE got'[r][out'[r][k]] # 0
    <3>1. \/ got[r][out'[r][k]] # 0
          \/ s.call = out'[r][k]
          \/ \E h \in 1..(1 - 1) : rest[r][h].call = out'[r][k] /\ rest[r][h].onErr # "next"
      BY <2>2, <2>3, <2>4, <2>6 DEF Backed
    <3>2. 1..(1 - 1) = {}
      OBVIOUS
    <3>3. QED
      BY <2>2, <2>3, <2>6, <3>1, <3>2
  <2>7. ShownIsRead(r)'
    BY <2>6 DEF ShownIsRead
  <2>8. QED
    BY <1>7, <2>3, <2>5, <2>7, RunnerOrdered
<1>8. ASSUME NEW r \in Runners, Active(r), Publish(r) PROVE OrderInv'
  BY <1>8, PublishOrdered
<1>9. ASSUME NEW r \in Runners, Active(r), GoOn(r) PROVE OrderInv'
  <2>1. out[r] \in Seq(Gauges \cup {Cut}) /\ out[r] # <<>>
    BY <1>9 DEF GoOn, TypeOK
  <2>2. DOMAIN Tail(out[r]) = 1..(Len(out[r]) - 1)
        /\ \A k \in 1..(Len(out[r]) - 1) : Tail(out[r])[k] = out[r][k + 1] /\ k + 1 \in DOMAIN out[r]
    BY <2>1, TailOfSeq
  <2>3. /\ UNCHANGED <<head, gauge, got, job, met, start>>
        /\ \/ out'[r] = Tail(out[r]) /\ rest'[r] = rest[r]
           \/ out'[r] = <<>> /\ rest'[r] = <<>>
        /\ \A q \in Runners \ {r} : SameFor(q)
    BY <1>9 DEF GoOn, TypeOK, run, SameFor
  <2>4. ASSUME NEW k \in DOMAIN out'[r], out'[r][k] \in Reads
        PROVE  got'[r][out'[r][k]] # 0
    <3>1. out'[r] = Tail(out[r])
      BY <2>3, <2>4
    <3>2. k + 1 \in DOMAIN out[r] /\ out'[r][k] = out[r][k + 1]
      BY <2>2, <3>1
    <3>3. QED
      BY <1>0, <2>3, <2>4, <3>2 DEF Ordered, ShownIsRead
  <2>5. ShownIsRead(r)'
    BY <2>4 DEF ShownIsRead
  <2>6. Backed(rest'[r], got'[r])
    BY <1>0, <2>3 DEF Ordered, Backed
  <2>7. QED
    BY <1>9, <2>3, <2>5, <2>6, RunnerOrdered
<1>10. ASSUME NEW r \in Runners, Active(r), FinishJob(r) PROVE OrderInv'
  BY <1>10, FinishJobOrdered
<1>11. CASE UNCHANGED vars
  BY <1>0, <1>11 DEF vars, local, run, OrderInv, Ordered, Undisturbed, ReadInRun, ShownIsRead, Active
<1>12. QED
  BY <1>1, <1>2, <1>3, <1>4, <1>5, <1>6, <1>7, <1>8, <1>9, <1>10, <1>11 DEF Next, Step

\* Sweep.PhantomOnlyOverlapped, main.go quickLoop and dailyLoop: however many loops there
\* are, whatever the plans and whatever calls fail, a gauge shows an older state of the
\* chain after a newer one only in a run that overlaps another, and then a state of that
\* very run.
THEOREM PhantomOverlap == Spec => PhantomOnlyOverlapped
<1> DEFINE Fine(g, x) ==
              \/ gauge'[g][x] >= gauge[g][x]
              \/ gauge'[g][x] = 0 /\ g # x
              \/ \E r \in Runners : Active(r) /\ met[r] /\ start[r] <= gauge'[g][x]
<1>1. ASSUME TypeOK, OrderInv, [Next]_vars, NEW g \in Gauges, NEW x \in Inputs[g]
      PROVE  Fine(g, x)
  <2>0. gauge[g][x] \in Nat /\ gauge[g][x] >= gauge[g][x]
    BY <1>1 DEF TypeOK, Blocks
  <2>1. ASSUME NEW r \in Runners, Active(r), Publish(r)
        PROVE  Fine(g, x)
    <3>1. CASE Head(out[r]) = g
      <4>1. gauge'[g][x] = got[r][x]
        BY <1>1, <2>1, <3>1 DEF Publish, TypeOK
      <4>2. x \in Reads /\ got[r][x] \in Nat /\ Ordered(r)
        BY <1>1, SweepAssumption DEF SoundPlans, TypeOK, OrderInv, Blocks
      <4>3. ~met[r] /\ got[r][x] # 0 => gauge[g][x] <= got[r][x]
        BY <1>1, <2>1, <4>2 DEF Ordered, Undisturbed
      <4>4. got[r][x] = 0 \/ start[r] <= got[r][x]
        BY <4>2 DEF Ordered, ReadInRun
      <4>5. 1 \in DOMAIN out[r] /\ out[r][1] = g
        BY <1>1, <2>1, <3>1, TailOfSeq DEF Publish, TypeOK
      <4>6. g = x => got[r][x] # 0
        BY <4>2, <4>5 DEF Ordered, ShownIsRead
      <4>7. met[r] \in BOOLEAN
        BY <1>1 DEF TypeOK
      <4>8. CASE met[r] /\ got[r][x] # 0
        BY <2>1, <4>1, <4>4, <4>8
      <4>9. CASE ~met[r] \/ got[r][x] = 0
        BY <2>0, <4>1, <4>2, <4>3, <4>6, <4>9
      <4>10. QED
        BY <4>7, <4>8, <4>9
    <3>2. CASE Head(out[r]) # g
      <4>1. gauge'[g] = gauge[g]
        BY <1>1, <2>1, <3>2 DEF Publish, TypeOK
      <4>2. QED
        BY <2>0, <4>1
    <3>3. QED
      BY <3>1, <3>2
  <2>2. CASE \A r \in Runners : ~(Active(r) /\ Publish(r))
    <3>1. gauge' = gauge
      BY <1>1, <2>2 DEF Next, Step, NewBlock, Begin, NextLoop, PickItem, Answer, Fail,
         Compute, GoOn, FinishJob, vars
    <3>2. QED
      BY <2>0, <3>1
  <2>3. QED
    BY <2>1, <2>2
<1>2. TypeOK /\ OrderInv /\ [Next]_vars => [\A g \in Gauges : \A x \in Inputs[g] : Fine(g, x)]_vars
  BY <1>1
<1>3. Spec => []OrderInv
  BY InitOrderInv, StepOrderInv, TypeCorrect, PTL DEF Spec
<1>4. QED
  BY <1>2, <1>3, TypeCorrect, PTL DEF Spec, PhantomOnlyOverlapped

-----------------------------------------------------------------------------
(* What a finished run leaves, by a table of plans that is regular.         *)

\* The calls whose failure may keep x from being read: those of an item with x.
Siblings(x) == UNION {CallsOf(i) : i \in {i \in AllItems : x \in CallsOf(i)}}

\* The current job of r has read x, or the run of r reports why not.
Tried(r, x) == got[r][x] >= start[r] \/ Siblings(x) \cap Reported(r) # {}

-----------------------------------------------------------------------------
(* The inductive invariant.                                                 *)

\* Between two runs nothing is left of the last one but its reports.
Idle(r) ==
    ~Active(r) => /\ found[r] = {} /\ loop[r] = 0 /\ items[r] = {}
                  /\ rest[r] = <<>> /\ out[r] = <<>>

\* r has done the first n steps of the item; of the last one, "out" is left to show.
Upto(r, item, n) ==
    /\ Len(rest[r]) = Len(item) - n
    /\ \A i \in 1..Len(rest[r]) : rest[r][i] = item[n + i]
    /\ \A h \in 1..n : item[h].call \in Needed => Tried(r, item[h].call)
    /\ out[r] # <<>> =>
          /\ n > 0
          /\ \E m \in 0..Len(item[n].pub) :
                /\ Len(out[r]) = Len(item[n].pub) - m
                /\ \A k \in 1..Len(out[r]) : out[r][k] = item[n].pub[m + k]

\* What is left to do belongs to the current loop of the current plan.
Place(r) ==
    /\ Active(r) /\ (items[r] # {} \/ ~ItemOver(r)) =>
          loop[r] \in 1..Len(Plan(r).loops) /\ items[r] \subseteq Plan(r).loops[loop[r]]
    /\ Active(r) /\ ~ItemOver(r) =>
          \E item \in Plan(r).loops[loop[r]] : \E n \in 0..Len(item) : Upto(r, item, n)

\* Unless the job returned early, all calls of the loops before were made, and in the
\* current loop all but those that are left.
TriedBefore(r) ==
    Active(r) /\ loop[r] <= Len(Plan(r).loops) =>
        \A l \in 1..loop[r] : \A item \in Plan(r).loops[l] : \A x \in CallsOf(item) \cap Needed :
            \/ Tried(r, x)
            \/ l = loop[r] /\ (item \in items[r] \/ x \in CallsOf(rest[r]))

\* A run began no earlier than the floor of any run that it overlaps, which suspects
\* what it reports.
Overlap ==
    \A r, q \in Runners : (Active(r) \/ Done(r)) /\ Active(q) =>
        /\ floor[r] <= start[q]
        /\ q # r => Reported(q) \subseteq suspect[r]

Settled(r, g) ==
    \/ FreshSince(g, floor[r])
    \/ Excuses(g) \cap (Reported(r) \cup suspect[r]) # {}

\* The run of r is still to set g.
Pending(r, g) ==
    \/ \E j \in Jobs : j > job[r] /\ \E item \in Items(Plans[j]) : Publishes(item, g)
    \/ Active(r) /\ \E l \in DOMAIN Plan(r).loops :
                        l > loop[r] /\ \E item \in Plan(r).loops[l] : Publishes(item, g)
    \/ \E item \in items[r] : Publishes(item, g)
    \/ Publishes(rest[r], g)
    \/ \E k \in DOMAIN out[r] : out[r][k] = g

Progress(r) ==
    Active(r) \/ Done(r) => \A g \in Firm : Settled(r, g) \/ Pending(r, g)

RunInv(r) == Idle(r) /\ Place(r) /\ TriedBefore(r) /\ Progress(r)

SweepInv == Overlap /\ \A r \in Runners : RunInv(r)

-----------------------------------------------------------------------------
(* Facts about plans.                                                       *)

LEMMA ReadIsSibling ==
    ASSUME NEW x \in Reads
    PROVE  x \in Siblings(x)
<1>1. x # None
  BY DEF Reads
<1>2. PICK item \in AllItems : x \in {s.call : s \in StepsOf(item)}
  BY DEF Reads, AllSteps
<1>3. x \in CallsOf(item)
  BY <1>1, <1>2 DEF CallsOf
<1>4. QED
  BY <1>3 DEF Siblings

LEMMA SiblingsExcuse ==
    ASSUME NEW g \in Gauges, NEW x \in Inputs[g]
    PROVE  Siblings(x) \subseteq Excuses(g)
  BY DEF Siblings, Excuses

LEMMA FirmFacts ==
    /\ Firm \subseteq Gauges
    /\ Needed \subseteq Reads
    /\ Cut \notin Firm /\ None \notin Needed
    /\ \A g \in Firm : Inputs[g] \subseteq Needed
<1>1. Firm \subseteq Gauges /\ Cut \notin Firm
  BY SweepAssumption DEF SoundPlans, Firm
<1>2. \A g \in Firm : Inputs[g] \subseteq Needed
  BY DEF Needed
<1>3. Needed \subseteq Reads
  BY <1>1, SweepAssumption DEF SoundPlans, Needed
<1>4. None \notin Reads
  BY DEF Reads
<1>5. QED
  BY <1>1, <1>2, <1>3, <1>4

\* The items of a loop of the current plan.
LEMMA ItemFacts ==
    ASSUME NEW r \in Runners, Active(r),
           NEW l \in 1..Len(Plan(r).loops), NEW item \in Plan(r).loops[l]
    PROVE  /\ job[r] \in Jobs /\ Plan(r) = Plans[job[r]]
           /\ l \in DOMAIN Plan(r).loops
           /\ Len(Plan(r).loops) \in Nat
           /\ item \in AllItems /\ item \in Seq(AllSteps)
           /\ item \in Items(Plan(r))
           /\ \A i \in 1..Len(item) : /\ i \in DOMAIN item /\ item[i] \in AllSteps
                                      /\ item[i].pub \in Seq(Gauges \cup {Cut})
                                      /\ item[i] \in StepsOf(item)
                                      /\ item[i].call # None => item[i].call \in CallsOf(item)
<1>1. job[r] \in Jobs /\ Plan(r) = Plans[job[r]]
  BY DEF Active, Plan
<1>2. Plans[job[r]].loops \in Seq(SUBSET AllItems)
  BY <1>1, SweepAssumption DEF SoundPlans
<1>3. l \in DOMAIN Plan(r).loops /\ Len(Plan(r).loops) \in Nat
  BY <1>1, <1>2
<1>4. item \in AllItems
  BY <1>1, PlanParts
<1>5. item \in Seq(AllSteps)
  BY <1>4, PlanParts
<1>6. ASSUME NEW i \in 1..Len(item)
      PROVE  /\ i \in DOMAIN item /\ item[i] \in AllSteps
             /\ item[i].pub \in Seq(Gauges \cup {Cut})
             /\ item[i] \in StepsOf(item)
             /\ item[i].call # None => item[i].call \in CallsOf(item)
  <2>1. i \in DOMAIN item /\ item[i] \in AllSteps
    BY <1>5
  <2>2. item[i] \in StepsOf(item)
    BY <2>1 DEF StepsOf
  <2>3. QED
    BY <2>1, <2>2, PlanParts DEF CallsOf
<1>7. item \in Items(Plan(r))
  BY <1>3 DEF Items
<1>8. QED
  BY <1>1, <1>3, <1>4, <1>5, <1>6, <1>7

LEMMA BlockNumbers ==
    ASSUME TypeOK, NEW r \in Runners
    PROVE  /\ head \in Nat /\ got[r] \in [Reads -> Nat]
           /\ start[r] \in Nat /\ start[r] <= head
           /\ floor[r] \in Nat /\ floor[r] <= head
<1>1. head \in Nat
  BY SweepAssumption DEF SoundPlans, TypeOK, Blocks
<1>2. /\ got[r] \in [Reads -> 0..head] /\ start[r] \in 0..head /\ floor[r] \in 0..head
  BY DEF TypeOK
<1>3. QED
  BY <1>1, <1>2

\* What is read stays read and what is reported stays reported during a job.
LEMMA TriedStays ==
    ASSUME NEW r \in Runners, NEW x,
           got[r][x] >= start[r] => got'[r][x] >= start'[r],
           Reported(r) \subseteq Reported(r)'
    PROVE  Tried(r, x) => Tried(r, x)'
  BY DEF Tried, Siblings

LEMMA SettledStays ==
    ASSUME NEW r \in Runners, NEW g,
           gauge'[g] = gauge[g], floor'[r] = floor[r],
           Reported(r) \subseteq Reported(r)', suspect[r] \subseteq suspect'[r]
    PROVE  Settled(r, g) => Settled(r, g)'
  BY DEF Settled, FreshSince, Excuses

-----------------------------------------------------------------------------
(* Who does not move.                                                       *)

\* Nothing changes for q but what it suspects.
Still(q) ==
    /\ job'[q] = job[q] /\ loop'[q] = loop[q] /\ items'[q] = items[q]
    /\ rest'[q] = rest[q] /\ out'[q] = out[q] /\ got'[q] = got[q]
    /\ found'[q] = found[q] /\ reports'[q] = reports[q]
    /\ start'[q] = start[q] /\ floor'[q] = floor[q]
    /\ suspect[q] \subseteq suspect'[q]

LEMMA StillInv ==
    ASSUME NEW q \in Runners, Still(q), RunInv(q),
           Active(q) \/ Done(q) => \A g \in Firm : Settled(q, g) => Settled(q, g)'
    PROVE  RunInv(q)'
<1>1. /\ Active(q)' = Active(q) /\ Done(q)' = Done(q) /\ Plan(q)' = Plan(q)
      /\ ItemOver(q)' = ItemOver(q) /\ Reported(q)' = Reported(q)
  BY DEF Still, Active, Done, Plan, ItemOver, Reported
<1>2. \A x : Tried(q, x)' = Tried(q, x)
  BY <1>1 DEF Still, Tried, Siblings
<1>3. Idle(q)'
  BY <1>1 DEF Still, RunInv, Idle
<1>4. Place(q)'
  <2>1. ASSUME NEW item, NEW n, Upto(q, item, n) PROVE Upto(q, item, n)'
    BY <1>2, <2>1 DEF Still, Upto
  <2>2. loop'[q] = loop[q] /\ items'[q] = items[q]
    BY DEF Still
  <2>3. QED
    BY <1>1, <2>1, <2>2 DEF RunInv, Place
<1>5. TriedBefore(q)'
  BY <1>1, <1>2 DEF Still, RunInv, TriedBefore
<1>6. \A g : Pending(q, g)' = Pending(q, g)
  BY <1>1 DEF Still, Pending, Publishes
<1>7. Progress(q)'
  BY <1>1, <1>6 DEF RunInv, Progress
<1>8. QED
  BY <1>3, <1>4, <1>5, <1>7 DEF RunInv

\* One goroutine moves, and shows nothing by it.
LEMMA OneMoves ==
    ASSUME SweepInv, NEW r \in Runners, gauge' = gauge,
           \A q \in Runners : q # r => Still(q),
           Overlap', RunInv(r)'
    PROVE  SweepInv'
<1>1. ASSUME NEW q \in Runners, q # r PROVE RunInv(q)'
  <2>1. Still(q) /\ RunInv(q)
    BY <1>1 DEF SweepInv
  <2>2. Reported(q)' = Reported(q)
    BY <2>1 DEF Still, Reported
  <2>3. \A g \in Firm : Settled(q, g) => Settled(q, g)'
    BY <2>1, <2>2, SettledStays DEF Still
  <2>4. QED
    BY <2>1, <2>3, StillInv
<1>2. QED
  BY <1>1 DEF SweepInv

\* Steps within a job that neither fail nor finish it.
LEMMA SameRuns ==
    ASSUME Overlap, UNCHANGED <<run, found, suspect>>
    PROVE  /\ Overlap'
           /\ \A q \in Runners : /\ Active(q)' = Active(q) /\ Done(q)' = Done(q)
                                 /\ Plan(q)' = Plan(q) /\ Reported(q)' = Reported(q)
<1>1. \A q \in Runners : /\ Active(q)' = Active(q) /\ Done(q)' = Done(q)
                         /\ Plan(q)' = Plan(q) /\ Reported(q)' = Reported(q)
  BY DEF run, Active, Done, Plan, Reported
<1>2. Overlap'
  BY <1>1 DEF run, Overlap
<1>3. QED
  BY <1>1, <1>2

-----------------------------------------------------------------------------
(* The steps of a goroutine.                                                *)

LEMMA NextLoopInv ==
    ASSUME TypeOK, SweepInv, NEW r \in Runners, Active(r), NextLoop(r)
    PROVE  SweepInv'
<1>1. /\ rest[r] = <<>> /\ out[r] = <<>> /\ items[r] = {}
      /\ loop[r] < Len(Plan(r).loops)
      /\ loop'[r] = loop[r] + 1
      /\ items'[r] = Plan(r).loops[loop[r] + 1]
      /\ rest'[r] = <<>> /\ out'[r] = <<>>
      /\ UNCHANGED <<gauge, run, found, suspect, got>>
  BY DEF NextLoop, ItemOver, TypeOK
<1>2. \A q \in Runners : q # r => Still(q)
  BY DEF NextLoop, Still, run, TypeOK
<1>3. /\ Overlap' /\ Active(r)' /\ ~Done(r) /\ Plan(r)' = Plan(r)
      /\ Reported(r)' = Reported(r)
  BY <1>1, SameRuns, SweepAssumption DEF SoundPlans, SweepInv, Active, Done
<1>4. loop[r] \in Nat /\ Len(Plan(r).loops) \in Nat
  BY PlanParts DEF TypeOK, Active, Plan
<1>5. \A x : Tried(r, x) => Tried(r, x)'
  BY <1>1, <1>3, TriedStays DEF run
<1>6. CallsOf(<<>>) = {} /\ \A g : ~Publishes(<<>>, g)
  BY DEF CallsOf, StepsOf, Publishes
<1>7. Place(r)'
  BY <1>1, <1>3, <1>4 DEF Place, ItemOver
<1>8. TriedBefore(r)'
  <2> SUFFICES ASSUME NEW l \in 1..loop'[r], NEW item \in Plan(r).loops[l],
                      NEW x \in CallsOf(item) \cap Needed
               PROVE  \/ Tried(r, x)'
                      \/ l = loop'[r] /\ item \in items'[r]
    BY <1>3 DEF TriedBefore
  <2>1. CASE l = loop[r] + 1
    BY <1>1, <2>1
  <2>2. CASE l # loop[r] + 1
    <3>1. l \in 1..loop[r]
      BY <1>1, <1>4, <2>2
    <3>2. \/ Tried(r, x)
          \/ l = loop[r] /\ (item \in items[r] \/ x \in CallsOf(rest[r]))
      BY <1>1, <1>4, <3>1 DEF SweepInv, RunInv, TriedBefore
    <3>3. QED
      BY <1>1, <1>5, <1>6, <3>2
  <2>3. QED
    BY <2>1, <2>2
<1>9. Progress(r)'
  <2> SUFFICES ASSUME NEW g \in Firm PROVE Settled(r, g)' \/ Pending(r, g)'
    BY DEF Progress
  <2>1. Settled(r, g) => Settled(r, g)'
    BY <1>1, <1>3, SettledStays DEF run
  <2>2. Pending(r, g) => Pending(r, g)'
    <3>1. CASE \E j \in Jobs : j > job[r] /\ \E item \in Items(Plans[j]) : Publishes(item, g)
      BY <1>1, <3>1 DEF Pending, run
    <3>2. ASSUME NEW l \in DOMAIN Plan(r).loops, l > loop[r],
                 NEW item \in Plan(r).loops[l], Publishes(item, g)
          PROVE  Pending(r, g)'
      <4>1. l \in Nat
        BY <3>2, SweepAssumption DEF SoundPlans, Active, Plan
      <4>2. l = loop[r] + 1 \/ l > loop'[r]
        BY <1>1, <1>4, <3>2, <4>1
      <4>3. QED
        BY <1>1, <1>3, <3>2, <4>2 DEF Pending
    <3>3. QED
      BY <1>1, <1>6, <3>1, <3>2 DEF Pending
  <2>3. QED
    BY <2>1, <2>2 DEF SweepInv, RunInv, Progress
<1>10. QED
  BY <1>1, <1>2, <1>3, <1>7, <1>8, <1>9, OneMoves DEF RunInv, Idle

LEMMA PickItemInv ==
    ASSUME TypeOK, SweepInv, NEW r \in Runners, Active(r), PickItem(r)
    PROVE  SweepInv'
<1>1. PICK i \in items[r] : /\ items' = [items EXCEPT ![r] = @ \ {i}]
                            /\ rest' = [rest EXCEPT ![r] = i]
  BY DEF PickItem
<1>2. /\ rest[r] = <<>> /\ out[r] = <<>>
      /\ items'[r] = items[r] \ {i} /\ rest'[r] = i /\ out'[r] = <<>>
      /\ UNCHANGED <<gauge, run, found, suspect, got, loop, out>>
  BY <1>1 DEF PickItem, ItemOver, TypeOK
<1>3. \A q \in Runners : q # r => Still(q)
  BY <1>1, <1>2 DEF Still, run, TypeOK
<1>4. /\ Overlap' /\ Active(r)' /\ Plan(r)' = Plan(r) /\ Reported(r)' = Reported(r)
  BY <1>2, SameRuns DEF SweepInv
<1>5. \A x : Tried(r, x) => Tried(r, x)'
  BY <1>2, <1>4, TriedStays DEF run
<1>6. CallsOf(<<>>) = {} /\ \A g : ~Publishes(<<>>, g)
  BY DEF CallsOf, StepsOf, Publishes
<1>7. /\ loop[r] \in 1..Len(Plan(r).loops)
      /\ items[r] \subseteq Plan(r).loops[loop[r]]
  BY DEF SweepInv, RunInv, Place
<1>8. i \in Plan(r).loops[loop[r]] /\ i \in Seq(AllSteps)
  BY <1>7, ItemFacts
<1>9. Place(r)'
  <2>1. Upto(r, i, 0)'
    BY <1>2, <1>8 DEF Upto
  <2>2. 0 \in 0..Len(i)
    BY <1>8
  <2>3. QED
    BY <1>2, <1>4, <1>7, <1>8, <2>1, <2>2 DEF Place
<1>10. TriedBefore(r)'
  <2> SUFFICES ASSUME NEW l \in 1..loop[r], NEW item \in Plan(r).loops[l],
                      NEW x \in CallsOf(item) \cap Needed
               PROVE  \/ Tried(r, x)'
                      \/ l = loop[r] /\ (item \in items'[r] \/ x \in CallsOf(i))
    BY <1>2, <1>4 DEF TriedBefore
  <2>1. loop[r] <= Len(Plan(r).loops)
    BY <1>7
  <2>2. \/ Tried(r, x)
        \/ l = loop[r] /\ (item \in items[r] \/ x \in CallsOf(rest[r]))
    BY <2>1 DEF SweepInv, RunInv, TriedBefore
  <2>3. QED
    BY <1>2, <1>5, <1>6, <2>2
<1>11. Progress(r)'
  <2> SUFFICES ASSUME NEW g \in Firm PROVE Settled(r, g)' \/ Pending(r, g)'
    BY DEF Progress
  <2>1. Settled(r, g) => Settled(r, g)'
    BY <1>2, <1>4, SettledStays DEF run
  <2>2. Pending(r, g) => Pending(r, g)'
    BY <1>2, <1>4, <1>6 DEF Pending, run
  <2>3. QED
    BY <1>4, <2>1, <2>2 DEF SweepInv, RunInv, Progress
<1>12. QED
  BY <1>2, <1>3, <1>4, <1>9, <1>10, <1>11, OneMoves DEF RunInv, Idle

\* The place in an item after its next step.
LEMMA UptoNext ==
    ASSUME NEW r \in Runners, NEW item \in Seq(AllSteps), NEW n \in 0..Len(item),
           rest[r] \in Seq(AllSteps), rest[r] # <<>>, Upto(r, item, n)
    PROVE  /\ n + 1 \in 1..Len(item)
           /\ Head(rest[r]) = item[n + 1] /\ Head(rest[r]) \in AllSteps
           /\ Len(Tail(rest[r])) = Len(item) - (n + 1)
           /\ \A i \in 1..Len(Tail(rest[r])) : Tail(rest[r])[i] = item[(n + 1) + i]
           /\ \A x : x \in CallsOf(rest[r]) => x = Head(rest[r]).call \/ x \in CallsOf(Tail(rest[r]))
           /\ \A g : Publishes(rest[r], g) =>
                 \/ \E k \in DOMAIN Head(rest[r]).pub : Head(rest[r]).pub[k] = g
                 \/ Publishes(Tail(rest[r]), g)
<1> DEFINE s == rest[r]
<1>1. /\ Len(s) \in Nat \ {0} /\ DOMAIN s = 1..Len(s)
      /\ Head(s) \in AllSteps /\ Head(s) = s[1] /\ Tail(s) \in Seq(AllSteps)
      /\ Len(Tail(s)) = Len(s) - 1 /\ DOMAIN Tail(s) = 1..(Len(s) - 1)
      /\ \A i \in 1..(Len(s) - 1) : Tail(s)[i] = s[i + 1]
  BY TailOfSeq
<1>2. /\ Len(s) = Len(item) - n /\ Len(item) \in Nat
      /\ \A i \in 1..Len(s) : s[i] = item[n + i]
  BY DEF Upto
<1>3. n + 1 \in 1..Len(item) /\ Head(s) = item[n + 1]
  BY <1>1, <1>2
<1>4. ASSUME NEW i \in 1..Len(Tail(s)) PROVE Tail(s)[i] = item[(n + 1) + i]
  <2>1. i + 1 \in 1..Len(s) /\ Tail(s)[i] = s[i + 1]
    BY <1>1
  <2>2. s[i + 1] = item[n + (i + 1)] /\ n + (i + 1) = (n + 1) + i
    BY <1>2, <2>1
  <2>3. QED
    BY <2>1, <2>2
<1>5. \A i \in DOMAIN s : s[i] = Head(s) \/ \E j \in DOMAIN Tail(s) : Tail(s)[j] = s[i]
  <2> SUFFICES ASSUME NEW i \in DOMAIN s, i # 1
               PROVE  \E j \in DOMAIN Tail(s) : Tail(s)[j] = s[i]
    BY <1>1
  <2>1. i - 1 \in DOMAIN Tail(s) /\ Tail(s)[i - 1] = s[(i - 1) + 1] /\ (i - 1) + 1 = i
    BY <1>1
  <2>2. QED
    BY <2>1
<1>6. ASSUME NEW x \in CallsOf(s) PROVE x = Head(s).call \/ x \in CallsOf(Tail(s))
  BY <1>5 DEF CallsOf, StepsOf
<1>7. ASSUME NEW g, Publishes(s, g)
      PROVE  (\E k \in DOMAIN Head(s).pub : Head(s).pub[k] = g) \/ Publishes(Tail(s), g)
  <2>1. PICK i \in DOMAIN s : \E k \in DOMAIN s[i].pub : s[i].pub[k] = g
    BY <1>7 DEF Publishes
  <2>2. QED
    BY <1>5, <2>1 DEF Publishes
<1>8. Len(Tail(s)) = Len(item) - (n + 1)
  BY <1>1, <1>2
<1>9. QED
  BY <1>1, <1>3, <1>4, <1>6, <1>7, <1>8

\* A step is done: what it publishes is next, and what it calls has been read.
LEMMA TakeStep ==
    ASSUME TypeOK, SweepInv, NEW r \in Runners, Active(r),
           rest[r] # <<>>, out[r] = <<>>,
           rest'[r] = Tail(rest[r]), out'[r] = Head(rest[r]).pub,
           items'[r] = items[r], loop'[r] = loop[r],
           UNCHANGED <<gauge, run, found, suspect>>,
           \A q \in Runners : q # r => Still(q),
           \A x \in Needed : Tried(r, x) => Tried(r, x)',
           \A x \in Needed : x = Head(rest[r]).call => Tried(r, x)'
    PROVE  SweepInv'
<1>1. /\ Overlap' /\ Active(r)' /\ Plan(r)' = Plan(r) /\ Reported(r)' = Reported(r)
  BY SameRuns DEF SweepInv
<1>2. /\ loop[r] \in 1..Len(Plan(r).loops)
      /\ items[r] \subseteq Plan(r).loops[loop[r]]
  BY DEF SweepInv, RunInv, Place, ItemOver
<1>3. PICK item \in Plan(r).loops[loop[r]] : \E n \in 0..Len(item) : Upto(r, item, n)
  BY DEF SweepInv, RunInv, Place, ItemOver
<1>4. PICK n \in 0..Len(item) : Upto(r, item, n)
  BY <1>3
<1>5. item \in Seq(AllSteps) /\ rest[r] \in Seq(AllSteps)
  BY <1>2, ItemFacts DEF TypeOK
<1> DEFINE s == Head(rest[r])
           t == Tail(rest[r])
<1>6. /\ n + 1 \in 1..Len(item)
      /\ s = item[n + 1] /\ s \in AllSteps
      /\ Len(t) = Len(item) - (n + 1)
      /\ \A i \in 1..Len(t) : t[i] = item[(n + 1) + i]
      /\ \A x : x \in CallsOf(rest[r]) => x = s.call \/ x \in CallsOf(t)
      /\ \A g : Publishes(rest[r], g) => \/ \E k \in DOMAIN s.pub : s.pub[k] = g
                                         \/ Publishes(t, g)
  BY <1>4, <1>5, UptoNext
<1>7. s.pub \in Seq(Gauges \cup {Cut})
  BY <1>6, PlanParts
<1> HIDE DEF s, t
<1>8. rest'[r] = t /\ out'[r] = s.pub
  BY DEF s, t
<1>9. Upto(r, item, n + 1)'
  <2>1. ASSUME NEW h \in 1..(n + 1), item[h].call \in Needed PROVE Tried(r, item[h].call)'
    <3>1. CASE h = n + 1
      <4>1. item[h].call = Head(rest[r]).call
        BY <1>6, <3>1 DEF s
      <4>2. QED
        BY <2>1, <4>1
    <3>2. CASE h # n + 1
      <4>1. h \in 1..n
        BY <3>2
      <4>2. QED
        BY <1>4, <2>1, <4>1 DEF Upto
    <3>3. QED
      BY <3>1, <3>2
  <2>2. /\ n + 1 > 0 /\ 0 \in 0..Len(item[n + 1].pub)
        /\ Len(s.pub) = Len(item[n + 1].pub) - 0
        /\ \A k \in 1..Len(s.pub) : s.pub[k] = item[n + 1].pub[0 + k]
    BY <1>6, <1>7
  <2>3. QED
    BY <1>6, <1>8, <2>1, <2>2 DEF Upto
<1>10. Place(r)'
  <2>1. n + 1 \in 0..Len(item)
    BY <1>6
  <2>2. QED
    BY <1>1, <1>2, <1>9, <2>1 DEF Place
<1>11. TriedBefore(r)'
  <2> SUFFICES ASSUME NEW l \in 1..loop[r], NEW other \in Plan(r).loops[l],
                      NEW x \in CallsOf(other) \cap Needed
               PROVE  \/ Tried(r, x)'
                      \/ l = loop[r] /\ (other \in items[r] \/ x \in CallsOf(t))
    BY <1>1, <1>8 DEF TriedBefore
  <2>1. loop[r] <= Len(Plan(r).loops)
    BY <1>2
  <2>2. \/ Tried(r, x)
        \/ l = loop[r] /\ (other \in items[r] \/ x \in CallsOf(rest[r]))
    BY <2>1 DEF SweepInv, RunInv, TriedBefore
  <2>3. x = s.call => Tried(r, x)'
    BY DEF s
  <2>4. QED
    BY <1>6, <2>2, <2>3
<1>12. Progress(r)'
  <2> SUFFICES ASSUME NEW g \in Firm PROVE Settled(r, g)' \/ Pending(r, g)'
    BY DEF Progress
  <2>1. Settled(r, g) => Settled(r, g)'
    BY <1>1, SettledStays DEF run
  <2>2. Pending(r, g) => Pending(r, g)'
    BY <1>1, <1>6, <1>8 DEF Pending, run
  <2>3. QED
    BY <1>1, <2>1, <2>2 DEF SweepInv, RunInv, Progress
<1>13. QED
  BY <1>1, <1>10, <1>11, <1>12, OneMoves DEF RunInv, Idle

LEMMA AnswerInv ==
    ASSUME TypeOK, SweepInv, NEW r \in Runners, Active(r), Answer(r)
    PROVE  SweepInv'
<1> DEFINE s == Head(rest[r])
<1>1. /\ rest[r] # <<>> /\ out[r] = <<>> /\ rest[r] \in Seq(AllSteps)
      /\ rest'[r] = Tail(rest[r]) /\ out'[r] = s.pub
      /\ items'[r] = items[r] /\ loop'[r] = loop[r]
      /\ got' = [got EXCEPT ![r] = [got[r] EXCEPT ![s.call] = head]]
      /\ UNCHANGED <<gauge, run, found, suspect>>
  BY DEF Answer, TypeOK
<1>2. \A q \in Runners : q # r => Still(q)
  BY DEF Answer, Still, run, TypeOK
<1>3. /\ got[r] \in [Reads -> Nat] /\ head \in Nat /\ start[r] \in Nat /\ start[r] <= head
      /\ Reported(r)' = Reported(r) /\ start' = start
  BY <1>1, SameRuns DEF TypeOK, Blocks, SweepInv, run
<1>4. ASSUME NEW x \in Needed
      PROVE  /\ got'[r][x] = IF x = s.call THEN head ELSE got[r][x]
             /\ Tried(r, x) => Tried(r, x)'
             /\ x = s.call => Tried(r, x)'
  <2>1. x \in Reads
    BY FirmFacts
  <2>2. got'[r][x] = IF x = s.call THEN head ELSE got[r][x]
    BY <1>1, <1>3, <2>1 DEF TypeOK
  <2>3. got[r][x] >= start[r] => got'[r][x] >= start'[r]
    BY <1>3, <2>2
  <2>4. x = s.call => Tried(r, x)'
    BY <1>3, <2>2 DEF Tried
  <2>5. QED
    BY <1>3, <2>2, <2>3, <2>4, TriedStays
<1>5. QED
  BY <1>1, <1>2, <1>4, TakeStep

LEMMA ComputeInv ==
    ASSUME TypeOK, SweepInv, NEW r \in Runners, Active(r), Compute(r)
    PROVE  SweepInv'
<1>1. /\ rest[r] # <<>> /\ out[r] = <<>>
      /\ rest'[r] = Tail(rest[r]) /\ out'[r] = Head(rest[r]).pub
      /\ items'[r] = items[r] /\ loop'[r] = loop[r]
      /\ Head(rest[r]).call = None
      /\ UNCHANGED <<gauge, run, found, suspect, got>>
  BY DEF Compute, TypeOK
<1>2. \A q \in Runners : q # r => Still(q)
  BY DEF Compute, Still, run, TypeOK
<1>3. Reported(r)' = Reported(r)
  BY <1>1, SameRuns DEF SweepInv
<1>4. \A x \in Needed : Tried(r, x) => Tried(r, x)'
  BY <1>1, <1>3, TriedStays DEF run
<1>5. QED
  BY <1>1, <1>2, <1>4, FirmFacts, TakeStep

\* What r shows now is settled for every run that overlaps: r has read all of it, or
\* reports the call that kept it from reading it.
LEMMA ShownSettles ==
    ASSUME TypeOK, SweepInv, NEW r \in Runners, Active(r), NEW g \in Firm,
           \A x \in Inputs[g] : gauge'[g][x] = got[r][x] /\ Tried(r, x),
           UNCHANGED <<run, found, suspect>>,
           NEW q \in Runners, Active(q) \/ Done(q)
    PROVE  Settled(q, g)'
<1>1. g \in Gauges /\ Inputs[g] \subseteq Reads
  BY FirmFacts
<1>2. /\ Reported(r)' = Reported(r) /\ Reported(q)' = Reported(q)
      /\ suspect' = suspect /\ floor' = floor
  BY SameRuns DEF SweepInv, run
<1>3. /\ floor[q] <= start[r]
      /\ q # r => Reported(r) \subseteq suspect[q]
  BY DEF SweepInv, Overlap
<1>4. CASE \A x \in Inputs[g] : got[r][x] >= start[r]
  <2>1. ASSUME NEW x \in Inputs[g] PROVE gauge'[g][x] >= floor[q]
    <3>1. got[r][x] \in Nat /\ start[r] \in Nat /\ floor[q] \in Nat
      <4>1. got[r] \in [Reads -> Nat] /\ start[r] \in Nat /\ floor[q] \in Nat
        BY BlockNumbers
      <4>2. x \in Reads
        BY <1>1
      <4>3. QED
        BY <4>1, <4>2
    <3>2. got[r][x] >= start[r] /\ gauge'[g][x] = got[r][x]
      BY <1>4
    <3>3. QED
      BY <1>3, <3>1, <3>2
  <2>2. QED
    BY <1>2, <2>1 DEF Settled, FreshSince
<1>5. CASE \E x \in Inputs[g] : ~(got[r][x] >= start[r])
  <2>1. PICK x \in Inputs[g] : Siblings(x) \cap Reported(r) # {}
    BY <1>5 DEF Tried
  <2>2. Siblings(x) \subseteq Excuses(g)
    BY <1>1, SiblingsExcuse
  <2>3. Excuses(g) \cap (Reported(q) \cup suspect[q]) # {}
    BY <1>3, <2>1, <2>2
  <2>4. QED
    BY <1>2, <2>3 DEF Settled, Excuses
<1>6. QED
  BY <1>4, <1>5

\* A gauge is shown, or a mark passed: "out" is one shorter.
LEMMA OutOf ==
    ASSUME TypeOK, SweepInv, NEW r \in Runners, Active(r), out[r] # <<>>
    PROVE  /\ loop[r] \in 1..Len(Plan(r).loops)
           /\ items[r] \subseteq Plan(r).loops[loop[r]]
           /\ \E item \in Plan(r).loops[loop[r]] : \E n \in 1..Len(item) :
                 Upto(r, item, n) /\ \E m \in 0..Len(item[n].pub) :
                    /\ m + 1 \in DOMAIN item[n].pub /\ item[n].pub[m + 1] = Head(out[r])
                    /\ Len(out[r]) = Len(item[n].pub) - m
                    /\ \A k \in 1..Len(out[r]) : out[r][k] = item[n].pub[m + k]
<1>1. /\ loop[r] \in 1..Len(Plan(r).loops)
      /\ items[r] \subseteq Plan(r).loops[loop[r]]
      /\ \E item \in Plan(r).loops[loop[r]] : \E n \in 0..Len(item) : Upto(r, item, n)
  BY DEF SweepInv, RunInv, Place, ItemOver
<1>2. PICK item \in Plan(r).loops[loop[r]] : \E n \in 0..Len(item) : Upto(r, item, n)
  BY <1>1
<1>3. PICK n \in 0..Len(item) : Upto(r, item, n)
  BY <1>2
<1>4. n \in 1..Len(item)
  BY <1>3 DEF Upto
<1>5. item[n].pub \in Seq(Gauges \cup {Cut})
  BY <1>1, <1>4, ItemFacts
<1>6. PICK m \in 0..Len(item[n].pub) :
          /\ Len(out[r]) = Len(item[n].pub) - m
          /\ \A k \in 1..Len(out[r]) : out[r][k] = item[n].pub[m + k]
  BY <1>3 DEF Upto
<1>7. out[r] \in Seq(Gauges \cup {Cut})
  BY DEF TypeOK
<1>8. Len(out[r]) \in Nat \ {0} /\ Head(out[r]) = out[r][1]
  BY <1>7
<1>9. m + 1 \in DOMAIN item[n].pub /\ item[n].pub[m + 1] = Head(out[r])
  BY <1>5, <1>6, <1>8
<1>10. QED
  BY <1>1, <1>3, <1>4, <1>6, <1>9

LEMMA ShowNext ==
    ASSUME TypeOK, SweepInv, NEW r \in Runners, Active(r),
           out[r] # <<>>, out'[r] = Tail(out[r]),
           UNCHANGED <<run, found, suspect, got, loop, items, rest>>
    PROVE  /\ Place(r)' /\ TriedBefore(r)'
           /\ \A h : Pending(r, h) => h = Head(out[r]) \/ Pending(r, h)'
<1>1. out[r] \in Seq(Gauges \cup {Cut})
  BY DEF TypeOK
<1>2. /\ Len(out[r]) \in Nat \ {0} /\ DOMAIN out[r] = 1..Len(out[r])
      /\ Head(out[r]) = out[r][1] /\ Tail(out[r]) \in Seq(Gauges \cup {Cut})
      /\ Len(Tail(out[r])) = Len(out[r]) - 1 /\ DOMAIN Tail(out[r]) = 1..(Len(out[r]) - 1)
      /\ \A i \in 1..(Len(out[r]) - 1) : Tail(out[r])[i] = out[r][i + 1]
  BY <1>1, TailOfSeq
<1>3. /\ Active(r)' = Active(r) /\ Plan(r)' = Plan(r) /\ Reported(r)' = Reported(r)
  BY SameRuns DEF SweepInv
<1>4. \A x : Tried(r, x) <=> Tried(r, x)'
  BY <1>3 DEF Tried, Siblings, run
<1>5. PICK item \in Plan(r).loops[loop[r]] : \E n \in 1..Len(item) :
          Upto(r, item, n) /\ \E m \in 0..Len(item[n].pub) :
             /\ m + 1 \in DOMAIN item[n].pub
             /\ Len(out[r]) = Len(item[n].pub) - m
             /\ \A k \in 1..Len(out[r]) : out[r][k] = item[n].pub[m + k]
  BY OutOf
<1>6. PICK n \in 1..Len(item) :
          Upto(r, item, n) /\ \E m \in 0..Len(item[n].pub) :
             /\ m + 1 \in DOMAIN item[n].pub
             /\ Len(out[r]) = Len(item[n].pub) - m
             /\ \A k \in 1..Len(out[r]) : out[r][k] = item[n].pub[m + k]
  BY <1>5
<1>7. PICK m \in 0..Len(item[n].pub) :
             /\ m + 1 \in DOMAIN item[n].pub
             /\ Len(out[r]) = Len(item[n].pub) - m
             /\ \A k \in 1..Len(out[r]) : out[r][k] = item[n].pub[m + k]
  BY <1>6
<1>8. /\ loop[r] \in 1..Len(Plan(r).loops)
      /\ items[r] \subseteq Plan(r).loops[loop[r]]
  BY OutOf
<1>9. Upto(r, item, n)'
  <2>1. item[n].pub \in Seq(Gauges \cup {Cut})
    BY <1>8, ItemFacts
  <2>2. /\ m + 1 \in 0..Len(item[n].pub)
        /\ Len(Tail(out[r])) = Len(item[n].pub) - (m + 1)
    BY <1>2, <1>7, <2>1
  <2>3. ASSUME NEW k \in 1..Len(Tail(out[r])) PROVE Tail(out[r])[k] = item[n].pub[(m + 1) + k]
    <3>1. k + 1 \in 1..Len(out[r]) /\ Tail(out[r])[k] = out[r][k + 1]
      BY <1>2
    <3>2. out[r][k + 1] = item[n].pub[m + (k + 1)]
      BY <1>7, <3>1
    <3>3. m + (k + 1) = (m + 1) + k
      OBVIOUS
    <3>4. QED
      BY <3>1, <3>2, <3>3
  <2>4. /\ n > 0
        /\ \E i \in 0..Len(item[n].pub) :
              /\ Len(out'[r]) = Len(item[n].pub) - i
              /\ \A k \in 1..Len(out'[r]) : out'[r][k] = item[n].pub[i + k]
    <3>1. out'[r] = Tail(out[r]) /\ n > 0
      OBVIOUS
    <3>2. QED
      BY <2>2, <2>3, <3>1
  <2>5. /\ Len(rest[r]) = Len(item) - n
        /\ \A i \in 1..Len(rest[r]) : rest[r][i] = item[n + i]
        /\ \A h \in 1..n : item[h].call \in Needed => Tried(r, item[h].call)'
    BY <1>4, <1>6 DEF Upto
  <2>6. rest'[r] = rest[r]
    OBVIOUS
  <2>7. QED
    BY <2>4, <2>5, <2>6 DEF Upto
<1>10. Place(r)'
  BY <1>3, <1>8, <1>9 DEF Place
<1>11. TriedBefore(r)'
  BY <1>3, <1>4 DEF SweepInv, RunInv, TriedBefore
<1>12. ASSUME NEW h, Pending(r, h), h # Head(out[r]) PROVE Pending(r, h)'
  <2>1. ASSUME NEW k \in DOMAIN out[r], out[r][k] = h
        PROVE  \E i \in DOMAIN Tail(out[r]) : Tail(out[r])[i] = h
    <3>1. k - 1 \in 1..(Len(out[r]) - 1)
      BY <1>2, <1>12, <2>1
    <3>2. Tail(out[r])[k - 1] = out[r][(k - 1) + 1] /\ (k - 1) + 1 = k
      BY <1>2, <3>1
    <3>3. QED
      BY <1>2, <2>1, <3>1, <3>2
  <2>2. QED
    BY <1>3, <1>12, <2>1 DEF Pending, run
<1>13. QED
  BY <1>10, <1>11, <1>12

LEMMA PublishInv ==
    ASSUME RegularPlans, TypeOK, SweepInv, NEW r \in Runners, Active(r), Publish(r)
    PROVE  SweepInv'
<1>1. /\ out[r] # <<>> /\ out[r] \in Seq(Gauges \cup {Cut}) /\ Head(out[r]) # Cut
  BY DEF Publish, TypeOK
<1>2. PICK g \in Gauges : g = Head(out[r])
  BY <1>1, TailOfSeq
<1>3. /\ out'[r] = Tail(out[r])
      /\ gauge' = [gauge EXCEPT ![g] = [x \in Inputs[g] |-> got[r][x]]]
      /\ UNCHANGED <<run, found, suspect, got, loop, items, rest>>
  BY <1>2 DEF Publish, TypeOK
<1>4. \A q \in Runners : q # r => Still(q)
  BY <1>3 DEF Publish, Still, run, TypeOK
<1>5. /\ Overlap'
      /\ \A q \in Runners : /\ Active(q)' = Active(q) /\ Done(q)' = Done(q)
                            /\ Reported(q)' = Reported(q)
  BY <1>3, SameRuns DEF SweepInv
<1>6. PICK item \in Plan(r).loops[loop[r]] : \E n \in 1..Len(item) :
          Upto(r, item, n) /\ \E m : m \in DOMAIN item[n].pub /\ item[n].pub[m] = g
  BY <1>1, <1>2, OutOf
<1>7. PICK n \in 1..Len(item) :
          Upto(r, item, n) /\ \E m : m \in DOMAIN item[n].pub /\ item[n].pub[m] = g
  BY <1>6
<1>8. loop[r] \in 1..Len(Plan(r).loops)
  BY <1>1, OutOf
<1>9. /\ job[r] \in Jobs /\ Plan(r) = Plans[job[r]] /\ loop[r] \in DOMAIN Plan(r).loops
      /\ n \in DOMAIN item
  BY <1>8, ItemFacts
<1>10. ASSUME g \in Firm, NEW x \in Inputs[g] PROVE Tried(r, x)
  <2>1. x \in Needed
    BY <1>10, FirmFacts
  <2>2. \/ \E h \in 1..n : item[h].call = x
        \/ \E l \in 1..(loop[r] - 1) : \E other \in Plan(r).loops[l] : x \in CallsOf(other)
    BY <1>7, <1>9, <1>10 DEF RegularPlans
  <2>3. CASE \E h \in 1..n : item[h].call = x
    BY <1>7, <2>1, <2>3 DEF Upto
  <2>4. ASSUME NEW l \in 1..(loop[r] - 1), NEW other \in Plan(r).loops[l], x \in CallsOf(other)
        PROVE  Tried(r, x)
    <3>1. l \in 1..loop[r] /\ l # loop[r] /\ loop[r] <= Len(Plan(r).loops)
      BY <1>8
    <3>2. QED
      BY <2>1, <2>4, <3>1 DEF SweepInv, RunInv, TriedBefore
  <2>5. QED
    BY <2>2, <2>3, <2>4
<1>11. ASSUME NEW h \in Firm
       PROVE  gauge'[h] = IF h = g THEN [x \in Inputs[g] |-> got[r][x]] ELSE gauge[h]
  BY <1>3, FirmFacts DEF TypeOK
<1>12. ASSUME NEW q \in Runners, Active(q) \/ Done(q), NEW h \in Firm, Settled(q, h) \/ h = g
       PROVE  Settled(q, h)'
  <2>1. CASE h = g
    <3>1. \A x \in Inputs[h] : gauge'[h][x] = got[r][x] /\ Tried(r, x)
      BY <1>10, <1>11, <2>1
    <3>2. QED
      BY <1>3, <1>12, <3>1, ShownSettles
  <2>2. CASE h # g
    BY <1>3, <1>5, <1>11, <1>12, <2>2, SettledStays DEF run
  <2>3. QED
    BY <2>1, <2>2
<1>13. ASSUME NEW q \in Runners, q # r PROVE RunInv(q)'
  BY <1>4, <1>12, <1>13, StillInv DEF SweepInv
<1>14. Progress(r)'
  <2> SUFFICES ASSUME NEW h \in Firm PROVE Settled(r, h)' \/ Pending(r, h)'
    BY DEF Progress
  <2>1. Settled(r, h) \/ Pending(r, h)
    BY DEF SweepInv, RunInv, Progress
  <2>2. Pending(r, h) => h = g \/ Pending(r, h)'
    BY <1>1, <1>2, <1>3, ShowNext
  <2>3. QED
    BY <1>12, <2>1, <2>2
<1>15. RunInv(r)'
  BY <1>1, <1>3, <1>5, <1>14, ShowNext DEF RunInv, Idle
<1>16. QED
  BY <1>5, <1>13, <1>15 DEF SweepInv

LEMMA GoOnInv ==
    ASSUME RegularPlans, TypeOK, SweepInv, NEW r \in Runners, Active(r), GoOn(r)
    PROVE  SweepInv'
<1>1. /\ out[r] # <<>> /\ out[r] \in Seq(Gauges \cup {Cut}) /\ Head(out[r]) = Cut
      /\ UNCHANGED <<gauge, run, found, suspect, got, loop, items>>
  BY DEF GoOn, TypeOK
<1>2. \/ out'[r] = Tail(out[r]) /\ UNCHANGED rest
      \/ out'[r] = <<>> /\ rest'[r] = <<>>
  BY DEF GoOn, TypeOK
<1>3. \A q \in Runners : q # r => Still(q)
  BY DEF GoOn, Still, run, TypeOK
<1>4. /\ Overlap' /\ Active(r)' /\ Plan(r)' = Plan(r) /\ Reported(r)' = Reported(r)
  BY <1>1, SameRuns DEF SweepInv
<1>5. \A g \in Firm : Settled(r, g) => Settled(r, g)'
  BY <1>1, <1>4, SettledStays DEF run
<1>6. CASE out'[r] = Tail(out[r]) /\ UNCHANGED rest
  <2>1. \A g \in Firm : Pending(r, g) => Pending(r, g)'
    BY <1>1, <1>6, FirmFacts, ShowNext
  <2>2. Progress(r)'
    BY <1>4, <1>5, <2>1 DEF SweepInv, RunInv, Progress
  <2>3. RunInv(r)'
    BY <1>1, <1>4, <1>6, <2>2, ShowNext DEF RunInv, Idle
  <2>4. QED
    BY <1>1, <1>3, <1>4, <2>3, OneMoves
<1>7. CASE out'[r] = <<>> /\ rest'[r] = <<>>
  <2>1. PICK item \in Plan(r).loops[loop[r]] : \E n \in 1..Len(item) :
          Upto(r, item, n) /\ \E m \in 0..Len(item[n].pub) :
             /\ m + 1 \in DOMAIN item[n].pub /\ item[n].pub[m + 1] = Cut
             /\ \A k \in 1..Len(out[r]) : out[r][k] = item[n].pub[m + k]
             /\ Len(out[r]) = Len(item[n].pub) - m
    BY <1>1, OutOf
  <2>2. PICK n \in 1..Len(item) :
          Upto(r, item, n) /\ \E m \in 0..Len(item[n].pub) :
             /\ m + 1 \in DOMAIN item[n].pub /\ item[n].pub[m + 1] = Cut
             /\ \A k \in 1..Len(out[r]) : out[r][k] = item[n].pub[m + k]
             /\ Len(out[r]) = Len(item[n].pub) - m
    BY <2>1
  <2>3. PICK m \in 0..Len(item[n].pub) :
             /\ m + 1 \in DOMAIN item[n].pub /\ item[n].pub[m + 1] = Cut
             /\ \A k \in 1..Len(out[r]) : out[r][k] = item[n].pub[m + k]
             /\ Len(out[r]) = Len(item[n].pub) - m
    BY <2>2
  <2>4. /\ loop[r] \in 1..Len(Plan(r).loops)
        /\ items[r] \subseteq Plan(r).loops[loop[r]]
    BY <1>1, OutOf
  <2>5. /\ item \in AllItems /\ item \in Seq(AllSteps) /\ n \in DOMAIN item
        /\ item[n].pub \in Seq(Gauges \cup {Cut})
    BY <2>4, ItemFacts
  <2>6. /\ Len(item) \in Nat /\ n \in Nat /\ DOMAIN item = 1..Len(item)
        /\ Len(item[n].pub) \in Nat /\ DOMAIN item[n].pub = 1..Len(item[n].pub)
        /\ Len(rest[r]) \in Nat /\ DOMAIN rest[r] = 1..Len(rest[r])
        /\ Len(rest[r]) = Len(item) - n
        /\ \A i \in 1..Len(rest[r]) : rest[r][i] = item[n + i]
    <3>1. rest[r] \in Seq(AllSteps)
      BY DEF TypeOK
    <3>2. /\ Len(rest[r]) = Len(item) - n
          /\ \A i \in 1..Len(rest[r]) : rest[r][i] = item[n + i]
      BY <2>2 DEF Upto
    <3>3. QED
      BY <2>5, <3>1, <3>2
  <2>7. ASSUME NEW i \in DOMAIN rest[r]
        PROVE  /\ n + i \in DOMAIN item /\ n \in 1..((n + i) - 1) /\ rest[r][i] = item[n + i]
               /\ n \in 1..(n + i) /\ n < n + i
    <3>1. i \in 1..Len(rest[r])
      BY <2>6
    <3>2. i \in Nat \ {0} /\ n + i <= Len(item) /\ n >= 1
      <4>1. n \in 1..Len(item) /\ Len(item) \in Nat /\ Len(rest[r]) = Len(item) - n
        BY <2>6
      <4>2. QED
        BY <3>1, <4>1
    <3>3. QED
      BY <2>6, <3>1, <3>2
  <2>8. ASSUME NEW x \in CallsOf(rest[r]) PROVE x \notin Needed
    <3>1. PICK i \in DOMAIN rest[r] : rest[r][i].call = x
      BY DEF CallsOf, StepsOf
    <3>2. n + i \in DOMAIN item /\ n \in 1..((n + i) - 1) /\ item[n + i].call = x
      BY <2>7, <3>1
    <3>3. Cut \in {item[n].pub[c] : c \in DOMAIN item[n].pub}
      BY <2>3
    <3>4. QED
      BY <2>5, <3>2, <3>3 DEF RegularPlans
  <2>9. ASSUME NEW g \in Firm, Publishes(rest[r], g) PROVE FALSE
    <3>1. g \in Gauges
      BY FirmFacts
    <3>2. PICK i \in DOMAIN rest[r] : \E k \in DOMAIN rest[r][i].pub : rest[r][i].pub[k] = g
      BY <2>9 DEF Publishes
    <3>3. /\ n + i \in DOMAIN item /\ n \in 1..(n + i) /\ n < n + i
          /\ \E k \in DOMAIN item[n + i].pub : item[n + i].pub[k] = g
      BY <2>7, <3>2
    <3>4. g \in Conditional
      BY <2>3, <2>5, <3>1, <3>3 DEF Conditional
    <3>5. QED
      BY <3>4 DEF Firm
  <2>10. ASSUME NEW g \in Firm, NEW k \in DOMAIN out[r], out[r][k] = g PROVE FALSE
    <3>1. g \in Gauges /\ g # Cut
      BY FirmFacts
    <3>2. Head(out[r]) = out[r][1] /\ k \in 1..Len(out[r]) /\ Len(out[r]) \in Nat
      BY <1>1
    <3>3. k # 1
      BY <1>1, <2>10, <3>1, <3>2
    <3>4. m + k \in DOMAIN item[n].pub /\ item[n].pub[m + k] = g /\ m + 1 < m + k
      <4>1. m \in Nat /\ k \in Nat /\ k > 1 /\ m + k <= Len(item[n].pub)
        <5>1. /\ m \in 0..Len(item[n].pub) /\ Len(item[n].pub) \in Nat
              /\ Len(out[r]) = Len(item[n].pub) - m
          BY <2>3, <2>6
        <5>2. QED
          BY <3>2, <3>3, <5>1
      <4>2. item[n].pub[m + k] = out[r][k]
        BY <2>3, <3>2
      <4>3. m + k \in 1..Len(item[n].pub) /\ m + 1 < m + k
        BY <4>1
      <4>4. QED
        BY <2>6, <2>10, <4>2, <4>3
    <3>5. n \in 1..n
      OBVIOUS
    <3>6. g \in Conditional
      BY <2>3, <2>5, <3>1, <3>4, <3>5 DEF Conditional
    <3>7. QED
      BY <3>6 DEF Firm
  <2>11. Place(r)'
    BY <1>1, <1>4, <1>7, <2>4 DEF Place, ItemOver
  <2>12. \A x : Tried(r, x) => Tried(r, x)'
    BY <1>1, <1>4, TriedStays DEF run
  <2>13. TriedBefore(r)'
    BY <1>1, <1>4, <2>4, <2>8, <2>12 DEF SweepInv, RunInv, TriedBefore
  <2>14. Progress(r)'
    <3>1. \A g \in Firm : Pending(r, g) => Pending(r, g)'
      BY <1>1, <1>4, <2>9, <2>10 DEF Pending, run
    <3>2. QED
      BY <1>4, <1>5, <3>1 DEF SweepInv, RunInv, Progress
  <2>15. RunInv(r)'
    BY <1>4, <2>11, <2>13, <2>14 DEF RunInv, Idle
  <2>16. QED
    BY <1>1, <1>3, <1>4, <2>15, OneMoves
<1>8. QED
  BY <1>2, <1>6, <1>7

LEMMA FailInv ==
    ASSUME RegularPlans, TypeOK, SweepInv, NEW r \in Runners, Active(r), Fail(r)
    PROVE  SweepInv'
<1>1. PICK c \in Reads : c = Head(rest[r]).call
  <2>1. rest[r] \in Seq(AllSteps) /\ rest[r] # <<>> /\ Head(rest[r]).call # None
    BY DEF Fail, TypeOK
  <2>2. QED
    BY <2>1, TailOfSeq, PlanParts
<1>2. /\ rest[r] # <<>> /\ out[r] = <<>> /\ out'[r] = <<>> /\ c # None
      /\ UNCHANGED <<gauge, run, got>>
      /\ found' = [found EXCEPT ![r] = @ \cup {c}]
      /\ \A q \in Runners : suspect'[q] = IF q = r THEN suspect[q] ELSE suspect[q] \cup {c}
  BY <1>1 DEF Fail
<1>3. \A q \in Runners : q # r => Still(q)
  BY <1>2 DEF Fail, Still, run, TypeOK
<1>4. \A q \in Runners : /\ Active(q)' = Active(q) /\ Done(q)' = Done(q) /\ Plan(q)' = Plan(q)
                         /\ Reported(q)' = IF q = r THEN Reported(q) \cup {c} ELSE Reported(q)
  <2> SUFFICES ASSUME NEW q \in Runners
               PROVE  /\ Active(q)' = Active(q) /\ Done(q)' = Done(q) /\ Plan(q)' = Plan(q)
                      /\ Reported(q)' = IF q = r THEN Reported(q) \cup {c} ELSE Reported(q)
    OBVIOUS
  <2>1. job' = job /\ reports' = reports
    BY <1>2 DEF run
  <2>2. found'[q] = IF q = r THEN found[q] \cup {c} ELSE found[q]
    BY <1>2 DEF TypeOK
  <2>3. Active(q)' = Active(q) /\ Done(q)' = Done(q) /\ Plan(q)' = Plan(q)
    BY <2>1 DEF Active, Done, Plan
  <2>4. Reported(q)' = IF q = r THEN Reported(q) \cup {c} ELSE Reported(q)
    BY <2>1, <2>2 DEF Reported
  <2>5. QED
    BY <2>3, <2>4
<1>5. Overlap'
  <2> SUFFICES ASSUME NEW a \in Runners, NEW b \in Runners, Active(a)' \/ Done(a)', Active(b)'
               PROVE  /\ floor'[a] <= start'[b]
                      /\ b # a => Reported(b)' \subseteq suspect'[a]
    BY DEF Overlap
  <2>1. floor[a] <= start[b] /\ (b # a => Reported(b) \subseteq suspect[a])
    BY <1>4 DEF SweepInv, Overlap
  <2>2. floor' = floor /\ start' = start
    BY <1>2 DEF run
  <2>3. b # a => Reported(b)' \subseteq suspect'[a]
    <3>1. suspect'[a] = IF a = r THEN suspect[a] ELSE suspect[a] \cup {c}
      BY <1>2
    <3>2. Reported(b)' = IF b = r THEN Reported(b) \cup {c} ELSE Reported(b)
      BY <1>4
    <3>3. QED
      BY <2>1, <3>1, <3>2
  <2>4. QED
    BY <2>1, <2>2, <2>3
<1>6. /\ loop[r] \in 1..Len(Plan(r).loops)
      /\ items[r] \subseteq Plan(r).loops[loop[r]]
  BY <1>2 DEF SweepInv, RunInv, Place, ItemOver
<1>7. PICK item \in Plan(r).loops[loop[r]] : \E n \in 0..Len(item) : Upto(r, item, n)
  BY <1>2 DEF SweepInv, RunInv, Place, ItemOver
<1>8. PICK n \in 0..Len(item) : Upto(r, item, n)
  BY <1>7
<1>9. /\ job[r] \in Jobs /\ Plan(r) = Plans[job[r]] /\ loop[r] \in DOMAIN Plan(r).loops
      /\ Len(Plan(r).loops) \in Nat
      /\ item \in AllItems /\ item \in Seq(AllSteps)
      /\ rest[r] \in Seq(AllSteps)
  BY <1>6, ItemFacts DEF TypeOK
<1>10. /\ n + 1 \in 1..Len(item) /\ Head(rest[r]) = item[n + 1]
       /\ Len(Tail(rest[r])) = Len(item) - (n + 1)
       /\ \A i \in 1..Len(Tail(rest[r])) : Tail(rest[r])[i] = item[(n + 1) + i]
       /\ \A x : x \in CallsOf(rest[r]) => x = c \/ x \in CallsOf(Tail(rest[r]))
       /\ \A g : Publishes(rest[r], g) =>
             \/ \E k \in DOMAIN item[n + 1].pub : item[n + 1].pub[k] = g
             \/ Publishes(Tail(rest[r]), g)
  <2>1. /\ n + 1 \in 1..Len(item) /\ Head(rest[r]) = item[n + 1]
        /\ Len(Tail(rest[r])) = Len(item) - (n + 1)
        /\ \A i \in 1..Len(Tail(rest[r])) : Tail(rest[r])[i] = item[(n + 1) + i]
        /\ \A x : x \in CallsOf(rest[r]) => x = Head(rest[r]).call \/ x \in CallsOf(Tail(rest[r]))
        /\ \A g : Publishes(rest[r], g) =>
              \/ \E k \in DOMAIN Head(rest[r]).pub : Head(rest[r]).pub[k] = g
              \/ Publishes(Tail(rest[r]), g)
    BY <1>2, <1>8, <1>9, UptoNext
  <2>2. QED
    BY <1>1, <2>1
<1>11. item[n + 1] \in StepsOf(item) /\ item[n + 1].call = c /\ c \in CallsOf(item)
  BY <1>1, <1>2, <1>6, <1>10, ItemFacts
<1>12. \A i \in DOMAIN rest[r] : n + i \in DOMAIN item /\ rest[r][i] = item[n + i]
  <2>1. /\ Len(item) \in Nat /\ DOMAIN item = 1..Len(item)
        /\ DOMAIN rest[r] = 1..Len(rest[r]) /\ Len(rest[r]) \in Nat
    BY <1>9
  <2>2. /\ Len(rest[r]) = Len(item) - n
        /\ \A i \in 1..Len(rest[r]) : rest[r][i] = item[n + i]
    BY <1>8 DEF Upto
  <2>3. ASSUME NEW i \in 1..Len(rest[r]) PROVE n + i \in 1..Len(item)
    <3>1. Len(item) \in Nat /\ n \in 0..Len(item) /\ Len(rest[r]) = Len(item) - n
      BY <2>1, <2>2
    <3>2. QED
      BY <3>1
  <2>4. QED
    BY <2>1, <2>2, <2>3
<1>13. \A x : Tried(r, x) => Tried(r, x)'
  BY <1>2, <1>4, TriedStays DEF run
<1>14. ASSUME NEW x \in CallsOf(rest[r]) PROVE Tried(r, x)'
  <2>1. x \in CallsOf(item)
    BY <1>12 DEF CallsOf, StepsOf
  <2>2. c \in Siblings(x)
    BY <1>9, <1>11, <2>1 DEF Siblings
  <2>3. c \in Siblings(x) \cap Reported(r)'
    BY <1>4, <2>2
  <2>4. QED
    BY <2>3 DEF Tried, Siblings
<1>15. ASSUME NEW g \in Firm, c \in Excuses(g) PROVE Settled(r, g)'
  <2>1. c \in Excuses(g) \cap Reported(r)'
    BY <1>4, <1>15
  <2>2. QED
    BY <2>1 DEF Settled, Excuses
<1>16. ASSUME NEW g \in Firm, Publishes(rest[r], g) PROVE Settled(r, g)'
  <2>1. Publishes(item, g)
    BY <1>12, <1>16 DEF Publishes
  <2>2. c \in Excuses(g)
    BY <1>9, <1>11, <2>1 DEF RegularPlans
  <2>3. QED
    BY <1>15, <2>2
<1>17. \A g \in Firm : Settled(r, g) => Settled(r, g)'
  <2>1. /\ gauge' = gauge /\ floor' = floor
        /\ Reported(r) \subseteq Reported(r)' /\ suspect[r] \subseteq suspect'[r]
    BY <1>2, <1>4 DEF run
  <2>2. QED
    BY <2>1, SettledStays
<1> DEFINE how == Head(rest[r]).onErr
<1>18. CASE how = "next"
  <2>1. rest'[r] = Tail(rest[r]) /\ items'[r] = items[r] /\ loop'[r] = loop[r]
    BY <1>18 DEF Fail, TypeOK
  <2>2. Upto(r, item, n + 1)'
    <3>1. ASSUME NEW h \in 1..(n + 1), item[h].call \in Needed PROVE Tried(r, item[h].call)'
      <4>1. CASE h = n + 1
        <5>1. Head(rest[r]) \in StepsOf(rest[r])
          BY <1>2, <1>9 DEF StepsOf
        <5>2. c \in CallsOf(rest[r])
          BY <1>1, <1>2, <5>1 DEF CallsOf
        <5>3. QED
          BY <1>11, <1>14, <4>1, <5>2
      <4>2. CASE h # n + 1
        <5>1. h \in 1..n
          BY <4>2
        <5>2. QED
          BY <1>8, <1>13, <3>1, <5>1 DEF Upto
      <4>3. QED
        BY <4>1, <4>2
    <3>2. QED
      BY <1>2, <1>10, <2>1, <3>1 DEF Upto
  <2>3. Place(r)'
    <3>1. n + 1 \in 0..Len(item)
      BY <1>10
    <3>2. QED
      BY <1>4, <1>6, <2>1, <2>2, <3>1 DEF Place
  <2>4. TriedBefore(r)'
    <3> SUFFICES ASSUME NEW l \in 1..loop[r], NEW other \in Plan(r).loops[l],
                        NEW x \in CallsOf(other) \cap Needed
                 PROVE  \/ Tried(r, x)'
                        \/ l = loop[r] /\ other \in items[r]
      BY <1>4, <2>1 DEF TriedBefore
    <3>1. loop[r] <= Len(Plan(r).loops)
      BY <1>6
    <3>2. \/ Tried(r, x)
          \/ l = loop[r] /\ (other \in items[r] \/ x \in CallsOf(rest[r]))
      BY <3>1 DEF SweepInv, RunInv, TriedBefore
    <3>3. QED
      BY <1>13, <1>14, <3>2
  <2>5. Progress(r)'
    <3> SUFFICES ASSUME NEW g \in Firm PROVE Settled(r, g)' \/ Pending(r, g)'
      BY DEF Progress
    <3>1. Pending(r, g) => Publishes(rest[r], g) \/ Pending(r, g)'
      BY <1>2, <1>4, <2>1 DEF Pending, run
    <3>2. QED
      BY <1>4, <1>16, <1>17, <3>1 DEF SweepInv, RunInv, Progress
  <2>6. QED
    BY <1>2, <1>3, <1>4, <1>5, <2>3, <2>4, <2>5, OneMoves DEF RunInv, Idle
<1>19. CASE how # "next"
  <2>1. /\ rest'[r] = <<>>
        /\ items'[r] = IF how = "task" THEN {} ELSE items[r]
        /\ loop'[r] = IF how = "task" THEN Len(Plan(r).loops) + 1 ELSE loop[r]
    BY <1>19 DEF Fail, TypeOK
  <2>2. \A g : ~Publishes(<<>>, g)
    BY DEF Publishes
  <2>3. Place(r)'
    BY <1>2, <1>4, <1>6, <2>1 DEF Place, ItemOver
  <2>4. TriedBefore(r)'
    <3> SUFFICES ASSUME loop'[r] <= Len(Plan(r).loops),
                        NEW l \in 1..loop'[r], NEW other \in Plan(r).loops[l],
                        NEW x \in CallsOf(other) \cap Needed
                 PROVE  \/ Tried(r, x)'
                        \/ l = loop'[r] /\ other \in items'[r]
      BY <1>4 DEF TriedBefore
    <3>1. how # "task" /\ loop'[r] = loop[r] /\ items'[r] = items[r]
      BY <1>9, <2>1
    <3>2. \/ Tried(r, x)
          \/ l = loop[r] /\ (other \in items[r] \/ x \in CallsOf(rest[r]))
      BY <3>1 DEF SweepInv, RunInv, TriedBefore
    <3>3. QED
      BY <1>13, <1>14, <3>1, <3>2
  <2>5. Progress(r)'
    <3> SUFFICES ASSUME NEW g \in Firm PROVE Settled(r, g)' \/ Pending(r, g)'
      BY DEF Progress
    <3>1. CASE how # "task"
      <4>1. Pending(r, g) => Publishes(rest[r], g) \/ Pending(r, g)'
        BY <1>2, <1>4, <2>1, <3>1 DEF Pending, run
      <4>2. QED
        BY <1>4, <1>16, <1>17, <4>1 DEF SweepInv, RunInv, Progress
    <3>2. CASE how = "task"
      <4>1. ASSUME NEW m \in loop[r]..Len(Plan(r).loops), NEW other \in Plan(r).loops[m],
                   Publishes(other, g)
            PROVE  Settled(r, g)'
        <5>1. c \in Excuses(g)
          <6>1. item[n + 1].onErr = "task"
            BY <1>10, <3>2
          <6>2. item \in Plans[job[r]].loops[loop[r]]
            BY <1>9
          <6>3. QED
            BY <1>2, <1>9, <1>11, <4>1, <6>1, <6>2 DEF RegularPlans
        <5>2. QED
          BY <1>15, <5>1
      <4>2. ASSUME NEW m \in DOMAIN Plan(r).loops, m > loop[r], NEW other \in Plan(r).loops[m],
                   Publishes(other, g)
            PROVE  Settled(r, g)'
        <5>1. m \in loop[r]..Len(Plan(r).loops)
          <6>1. Plan(r).loops \in Seq(SUBSET AllItems)
            BY <1>9, SweepAssumption DEF SoundPlans
          <6>2. QED
            BY <1>6, <4>2, <6>1
        <5>2. QED
          BY <4>1, <4>2, <5>1
      <4>3. ASSUME NEW other \in items[r], Publishes(other, g) PROVE Settled(r, g)'
        <5>1. loop[r] \in loop[r]..Len(Plan(r).loops) /\ other \in Plan(r).loops[loop[r]]
          BY <1>6
        <5>2. QED
          BY <4>1, <4>3, <5>1
      <4>4. (\E j \in Jobs : j > job[r] /\ \E other \in Items(Plans[j]) : Publishes(other, g))
              => Pending(r, g)'
        BY <1>2 DEF Pending, run
      <4>5. Settled(r, g) \/ Pending(r, g)
        BY DEF SweepInv, RunInv, Progress
      <4>6. \A k \in DOMAIN out[r] : out[r][k] # g
        BY <1>2
      <4>7. QED
        BY <1>16, <1>17, <4>2, <4>3, <4>4, <4>5, <4>6 DEF Pending
    <3>3. QED
      BY <3>1, <3>2
  <2>6. QED
    BY <1>2, <1>3, <1>4, <1>5, <2>3, <2>4, <2>5, OneMoves DEF RunInv, Idle
<1>20. QED
  BY <1>18, <1>19

LEMMA FinishJobInv ==
    ASSUME TypeOK, SweepInv, NEW r \in Runners, Active(r), FinishJob(r)
    PROVE  SweepInv'
<1>1. /\ rest[r] = <<>> /\ out[r] = <<>> /\ items[r] = {} /\ loop[r] >= Len(Plan(r).loops)
      /\ rest'[r] = <<>> /\ out'[r] = <<>> /\ items'[r] = {} /\ loop'[r] = 0
      /\ found'[r] = {} /\ job'[r] = job[r] + 1
      /\ reports'[r] = Append(reports[r], found[r])
      /\ UNCHANGED <<gauge, start, floor, suspect>>
  BY DEF FinishJob, JobOver, ItemOver, TypeOK
<1>2. \A q \in Runners : q # r => Still(q)
  BY DEF FinishJob, Still, TypeOK
<1>3. /\ job[r] \in 1..Len(Plans) /\ Len(Plans) \in Nat /\ Jobs = 1..Len(Plans)
      /\ Len(Plan(r).loops) \in Nat /\ loop[r] \in Nat
  BY SweepAssumption, PlanParts DEF SoundPlans, Active, Plan, TypeOK
<1>4. Active(r)' \/ Done(r)'
  BY <1>1, <1>3 DEF Active, Done
<1>5. Reported(r)' = Reported(r)
  <2>1. reports[r] \in Seq(SUBSET Reads) /\ found[r] \in SUBSET Reads
    BY DEF TypeOK
  <2> DEFINE s == reports[r]
             t == Append(reports[r], found[r])
  <2>2. /\ Len(s) \in Nat /\ DOMAIN s = 1..Len(s) /\ DOMAIN t = 1..(Len(s) + 1)
        /\ t[Len(s) + 1] = found[r]
        /\ \A i \in 1..Len(s) : t[i] = s[i]
    BY <2>1
  <2>3. reports'[r] = t
    BY <1>1
  <2> HIDE DEF t
  <2>4. UNION {t[i] : i \in DOMAIN t} = found[r] \cup UNION {s[i] : i \in DOMAIN s}
    <3>1. ASSUME NEW i \in DOMAIN t PROVE t[i] \subseteq found[r] \cup UNION {s[k] : k \in DOMAIN s}
      <4>1. i \in 1..Len(s) \/ i = Len(s) + 1
        BY <2>2
      <4>2. QED
        BY <2>2, <4>1
    <3>2. ASSUME NEW i \in DOMAIN s PROVE s[i] \subseteq UNION {t[k] : k \in DOMAIN t}
      BY <2>2
    <3>3. found[r] \subseteq UNION {t[k] : k \in DOMAIN t}
      <4>1. Len(s) + 1 \in DOMAIN t
        BY <2>2
      <4>2. QED
        BY <2>2, <4>1
    <3>4. QED
      BY <3>1, <3>2, <3>3
  <2>5. QED
    BY <1>1, <2>3, <2>4 DEF Reported
<1>6. \A q \in Runners : q # r =>
         Active(q)' = Active(q) /\ Done(q)' = Done(q) /\ Reported(q)' = Reported(q)
  BY <1>2 DEF Still, Active, Done, Reported
<1>7. Overlap'
  BY <1>1, <1>5, <1>6 DEF SweepInv, Overlap
<1>8. Place(r)'
  BY <1>1 DEF Place, ItemOver
<1>9. TriedBefore(r)'
  BY <1>1 DEF TriedBefore
<1>10. Progress(r)'
  <2> SUFFICES ASSUME NEW g \in Firm PROVE Settled(r, g)' \/ Pending(r, g)'
    BY DEF Progress
  <2>1. Settled(r, g) => Settled(r, g)'
    BY <1>1, <1>5, SettledStays
  <2>2. Pending(r, g) => Pending(r, g)'
    <3>1. \A k \in DOMAIN out[r] : out[r][k] # g
      BY <1>1
    <3>2. ~Publishes(rest[r], g)
      BY <1>1 DEF Publishes
    <3>3. ASSUME NEW l \in DOMAIN Plan(r).loops, l > loop[r] PROVE FALSE
      <4>1. Plan(r).loops \in Seq(SUBSET AllItems)
        BY SweepAssumption DEF SoundPlans, Active, Plan
      <4>2. QED
        BY <1>1, <1>3, <3>3, <4>1
    <3>4. ASSUME NEW j \in Jobs, j > job[r], NEW item \in Items(Plans[j]), Publishes(item, g)
          PROVE  Pending(r, g)'
      <4>1. CASE j = job[r] + 1
        <5>1. Active(r)' /\ Plan(r)' = Plans[j]
          BY <1>1, <4>1 DEF Active, Plan
        <5>2. Plans[j].loops \in Seq(SUBSET AllItems)
          BY SweepAssumption DEF SoundPlans
        <5>3. PICK l \in DOMAIN Plans[j].loops : item \in Plans[j].loops[l]
          BY DEF Items
        <5>4. l > 0
          BY <5>2, <5>3
        <5>5. QED
          BY <1>1, <3>4, <5>1, <5>3, <5>4 DEF Pending
      <4>2. CASE j # job[r] + 1
        <5>1. j > job'[r]
          BY <1>1, <1>3, <3>4, <4>2
        <5>2. QED
          BY <3>4, <5>1 DEF Pending
      <4>3. QED
        BY <4>1, <4>2
    <3>5. QED
      BY <1>1, <3>1, <3>2, <3>3, <3>4 DEF Pending
  <2>3. QED
    BY <2>1, <2>2 DEF SweepInv, RunInv, Progress
<1>11. QED
  BY <1>1, <1>2, <1>7, <1>8, <1>9, <1>10, OneMoves DEF RunInv, Idle

LEMMA BeginInv ==
    ASSUME RegularPlans, TypeOK, SweepInv, NEW r \in Runners, Begin(r)
    PROVE  SweepInv'
<1> DEFINE T == {head} \cup {start[q] : q \in {q \in Runners : Active(q)}}
<1>1. /\ ~Active(r) /\ job'[r] = 1 /\ start'[r] = head /\ floor'[r] = Min(T)
      /\ reports'[r] = <<>>
      /\ suspect'[r] = UNION {Reported(q) : q \in {q \in Runners : Active(q)}}
      /\ UNCHANGED <<gauge, local>>
  BY DEF Begin, TypeOK
<1>2. /\ found[r] = {} /\ loop[r] = 0 /\ items[r] = {} /\ rest[r] = <<>> /\ out[r] = <<>>
      /\ found'[r] = {} /\ loop'[r] = 0 /\ items'[r] = {} /\ rest'[r] = <<>> /\ out'[r] = <<>>
  BY <1>1 DEF SweepInv, RunInv, Idle, local
<1>3. \A q \in Runners : q # r => Still(q)
  BY DEF Begin, Still, local, TypeOK
<1>4. 1 \in Jobs /\ Jobs = 1..Len(Plans) /\ Len(Plans) \in Nat
  BY SweepAssumption DEF SoundPlans
<1>5. Active(r)' /\ Plan(r)' = Plans[1]
  BY <1>1, <1>4 DEF Active, Plan
<1>6. Reported(r)' = {}
  BY <1>1, <1>2 DEF Reported
<1>7. \A q \in Runners : q # r =>
         /\ Active(q)' = Active(q) /\ Done(q)' = Done(q) /\ Reported(q)' = Reported(q)
         /\ start'[q] = start[q] /\ floor'[q] = floor[q] /\ suspect[q] \subseteq suspect'[q]
  BY <1>3 DEF Still, Active, Done, Reported
<1>8. T \subseteq Nat /\ T # {}
  BY BlockNumbers
<1>9. \A y \in T : Min(T) <= y
  <2> HIDE DEF T
  <2> QED
    BY <1>8, MinOfNat
<1>10. Overlap'
  <2> SUFFICES ASSUME NEW a \in Runners, NEW b \in Runners, Active(a)' \/ Done(a)', Active(b)'
               PROVE  /\ floor'[a] <= start'[b]
                      /\ b # a => Reported(b)' \subseteq suspect'[a]
    BY DEF Overlap
  <2>1. CASE a = r /\ b = r
    BY <1>1, <1>9, <2>1
  <2>2. CASE a = r /\ b # r
    <3>1. Active(b) /\ start'[b] = start[b] /\ Reported(b)' = Reported(b)
      BY <1>7, <2>2
    <3>2. start[b] \in T /\ Reported(b) \subseteq UNION {Reported(q) : q \in {q \in Runners : Active(q)}}
      BY <3>1
    <3>3. QED
      BY <1>1, <1>9, <2>2, <3>1, <3>2
  <2>3. CASE a # r /\ b = r
    <3>1. floor'[a] <= head
      BY <1>7, <2>3, BlockNumbers
    <3>2. QED
      BY <1>1, <1>6, <2>3, <3>1
  <2>4. CASE a # r /\ b # r
    <3>1. (Active(a) \/ Done(a)) /\ Active(b)
      BY <1>7, <2>4
    <3>2. floor[a] <= start[b] /\ (b # a => Reported(b) \subseteq suspect[a])
      BY <3>1 DEF SweepInv, Overlap
    <3>3. QED
      BY <1>7, <2>4, <3>2
  <2>5. QED
    BY <2>1, <2>2, <2>3, <2>4
<1>11. Place(r)'
  BY <1>2 DEF Place, ItemOver
<1>12. TriedBefore(r)'
  BY <1>2 DEF TriedBefore
<1>13. Progress(r)'
  <2> SUFFICES ASSUME NEW g \in Firm PROVE Pending(r, g)'
    BY DEF Progress
  <2>1. PICK j \in Jobs : \E item \in Items(Plans[j]) : Publishes(item, g)
    BY DEF RegularPlans
  <2>2. PICK item \in Items(Plans[j]) : Publishes(item, g)
    BY <2>1
  <2>3. CASE j = 1
    <3>1. PICK l \in DOMAIN Plans[j].loops : item \in Plans[j].loops[l]
      BY DEF Items
    <3>2. Plans[j].loops \in Seq(SUBSET AllItems)
      BY SweepAssumption DEF SoundPlans
    <3>3. l > 0
      BY <3>1, <3>2
    <3>4. QED
      BY <1>2, <1>5, <2>2, <2>3, <3>1, <3>3 DEF Pending
  <2>4. CASE j # 1
    <3>1. j > job'[r]
      BY <1>1, <1>4, <2>4
    <3>2. QED
      BY <2>2, <3>1 DEF Pending
  <2>5. QED
    BY <2>3, <2>4
<1>14. RunInv(r)'
  BY <1>5, <1>11, <1>12, <1>13 DEF RunInv, Idle
<1>15. gauge' = gauge
  BY <1>1
<1> HIDE DEF T
<1>16. QED
  BY <1>3, <1>10, <1>14, <1>15, OneMoves

\* The chain moves on, or nothing happens.
LEMMA NobodyInv ==
    ASSUME SweepInv, UNCHANGED <<gauge, local, run, suspect>>
    PROVE  SweepInv'
<1>1. \A q \in Runners : Still(q)
  BY DEF Still, local, run
<1>2. Overlap'
  BY SameRuns DEF SweepInv, local
<1>3. ASSUME NEW q \in Runners PROVE RunInv(q)'
  <2>1. Reported(q)' = Reported(q)
    BY SameRuns DEF SweepInv, local
  <2>2. \A g \in Firm : Settled(q, g) => Settled(q, g)'
    BY <2>1, SettledStays DEF run
  <2>3. QED
    BY <1>1, <2>2, StillInv DEF SweepInv
<1>4. QED
  BY <1>2, <1>3 DEF SweepInv

LEMMA InitSweepInv == Init => SweepInv
<1> SUFFICES ASSUME Init PROVE SweepInv
  OBVIOUS
<1>1. ASSUME NEW r \in Runners PROVE ~Active(r) /\ ~Done(r)
  <2>1. job[r] = 0 /\ Jobs = 1..Len(Plans) /\ Len(Plans) \in Nat
    BY SweepAssumption DEF SoundPlans, Init
  <2>2. QED
    BY <2>1 DEF Active, Done
<1>2. Overlap
  BY <1>1 DEF Overlap
<1>3. ASSUME NEW r \in Runners PROVE RunInv(r)
  BY <1>1 DEF Init, RunInv, Idle, Place, TriedBefore, Progress
<1>4. QED
  BY <1>2, <1>3 DEF SweepInv

LEMMA StepSweepInv ==
    ASSUME RegularPlans, TypeOK, SweepInv, [Next]_vars
    PROVE  SweepInv'
<1>1. CASE NewBlock
  BY <1>1, NobodyInv DEF NewBlock
<1>2. ASSUME NEW r \in Runners, Begin(r) PROVE SweepInv'
  BY <1>2, BeginInv
<1>3. ASSUME NEW r \in Runners, Step(r) PROVE SweepInv'
  <2>1. Active(r)
    BY <1>3 DEF Step
  <2>2. CASE NextLoop(r)
    BY <2>1, <2>2, NextLoopInv
  <2>3. CASE PickItem(r)
    BY <2>1, <2>3, PickItemInv
  <2>4. CASE Answer(r)
    BY <2>1, <2>4, AnswerInv
  <2>5. CASE Fail(r)
    BY <2>1, <2>5, FailInv
  <2>6. CASE Compute(r)
    BY <2>1, <2>6, ComputeInv
  <2>7. CASE Publish(r)
    BY <2>1, <2>7, PublishInv
  <2>8. CASE GoOn(r)
    BY <2>1, <2>8, GoOnInv
  <2>9. CASE FinishJob(r)
    BY <2>1, <2>9, FinishJobInv
  <2>10. QED
    BY <1>3, <2>2, <2>3, <2>4, <2>5, <2>6, <2>7, <2>8, <2>9 DEF Step
<1>4. CASE UNCHANGED vars
  BY <1>4, NobodyInv DEF vars
<1>5. QED
  BY <1>1, <1>2, <1>3, <1>4 DEF Next

LEMMA SweepInvFresh ==
    ASSUME SweepInv
    PROVE  FreshOrReported
<1> SUFFICES ASSUME NEW r \in Runners, Done(r), NEW g \in Firm PROVE Settled(r, g)
  BY DEF FreshOrReported, Settled
<1>1. ~Active(r) /\ \A j \in Jobs : ~(j > job[r])
  BY SweepAssumption DEF SoundPlans, Active, Done
<1>2. items[r] = {} /\ rest[r] = <<>> /\ out[r] = <<>>
  BY <1>1 DEF SweepInv, RunInv, Idle
<1>3. ~Pending(r, g)
  BY <1>1, <1>2 DEF Pending, Publishes
<1>4. QED
  BY <1>3 DEF SweepInv, RunInv, Progress

-----------------------------------------------------------------------------

\* RunAll, whatever fails and whoever else is sweeping: when a run is over, every gauge
\* whose publication does not hang on the value read shows the chain as it was when the
\* run, or one it overlaps, began or later, or a finding names a call that failed.  It
\* holds for every table of plans that is regular (run sweep_all checks that those of
\* the twelve tasks are), for any number of goroutines, blocks and failures.
THEOREM FreshReported ==
    ASSUME RegularPlans
    PROVE  Spec => []FreshOrReported
<1>1. Init => TypeOK /\ SweepInv
  BY InitTypeOK, InitSweepInv
<1>2. TypeOK /\ SweepInv /\ [Next]_vars => (TypeOK /\ SweepInv)'
  BY StepTypeOK, StepSweepInv
<1>3. TypeOK /\ SweepInv => FreshOrReported
  BY SweepInvFresh
<1>4. QED
  BY <1>1, <1>2, <1>3, PTL DEF Spec

=============================================================================
