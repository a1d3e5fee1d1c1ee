------------------------- MODULE SharedGaugesProofs -------------------------
(***************************************************************************)
(* Theorems about module SharedGauges, for any number of loops that run a  *)
(* task side by side, of markets, of values and of blocks: whatever Sets   *)
(* lie between those of a Run, the gauges it leaves come from this Run or  *)
(* one that it overlaps, and an undisturbed Run leaves gauges that agree.  *)
(***************************************************************************)
EXTENDS SharedGauges, ValuesProofs

-----------------------------------------------------------------------------
(* The inductive invariant.                                                 *)

\* The steps of each task.
StepsOf == [fees |-> {"market", "setTotal", "bank", "setGap"},
            funding |-> {"long", "short", "setLong", "setShort", "setRatio"},
            chainlink |-> {"now", "updated", "setAge"}]

Types ==
    /\ task \in {"fees", "funding", "chainlink"}
    /\ past \in Seq(Vectors(Domain)) /\ newest >= 1
    /\ pc \in [Runners -> Idle \cup StepsOf[task]]
    /\ todo \in [Runners -> SUBSET Markets]
    /\ got \in [Runners -> [Reads -> Int]]
    /\ total \in [Runners -> Int]
    /\ failed \in [Runners -> SUBSET Reads]
    /\ start \in [Runners -> 0..newest]
    /\ floor \in [Runners -> 1..newest]
    /\ lost \in [Runners -> SUBSET Markets]

\* The values since block a.
Since(a) == [x \in Reads |-> {past[i][x] : i \in a..newest}]

\* Whoever is active began after the oldest start of any Run that there has been.
Spans ==
    \A r \in Runners : \A q \in Runners :
        pc[r] # "never" /\ Active(q) =>
            /\ 1 <= start[q]
            /\ floor[r] <= start[q]
            /\ failed[q] \cap Markets \subseteq lost[r]

\* The answers that a Run has at each step.
HasAt == [market |-> {}, setTotal |-> {}, bank |-> {}, setGap |-> {"bank"},
          long |-> {}, short |-> {"long"}, setLong |-> {"long", "short"},
          setShort |-> {"long", "short"}, setRatio |-> {"long", "short"},
          now |-> {}, updated |-> {"now"}, setAge |-> {"now", "updated"}]

\* They are values since its start.
Answers ==
    \A q \in Runners : Active(q) =>
        \A x \in HasAt[pc[q]] : got[q][x] \in Since(start[q])[x]

\* Its sum is one of values since its start.
SumIs(q) ==
    \E v \in Vectors(Since(start[q])) :
        total[q] = Claimable(v, Markets \ (todo[q] \cup failed[q]))

Totals ==
    \A q \in Runners : task = "fees" /\ Active(q) =>
        /\ SumIs(q)
        /\ todo[q] \cap failed[q] = {}
        /\ pc[q] # "market" => todo[q] = {}

\* What the gauges show fits the Run of r.
Fits(r) ==
    /\ task = "fees" /\ pc[r] \in {"bank", "setGap", "over"} => TotalFits(r)
    /\ task = "fees" /\ pc[r] = "over" /\ "bank" \notin failed[r] => GapFits(r)
    /\ task = "funding" /\ pc[r] = "over" /\ failed[r] = {} => RatioFits(r)
    /\ task = "chainlink" /\ pc[r] = "over" /\ failed[r] = {} => AgeFits(r)

AllFit == \A r \in Runners : Fits(r)

Inv == Types /\ Spans /\ Answers /\ Totals /\ AllFit

-----------------------------------------------------------------------------
(* Vectors and spans.                                                       *)

LEMMA VectorIs ==
    ASSUME NEW S, NEW f
    PROVE  f \in Vectors(S) <=>
              f = [x \in Reads |-> f[x]] /\ \A x \in Reads : f[x] \in S[x]
  BY DEF Vectors

LEMMA ReadsAre ==
    ASSUME task \in {"fees", "funding", "chainlink"}
    PROVE  /\ task = "fees" => Reads = Markets \cup {"bank"} /\ Markets \subseteq Reads
           /\ task = "funding" => Reads = {"long", "short"}
           /\ task = "chainlink" => Reads = {"now", "updated"}
           /\ Reads \subseteq Inputs
           /\ \A x \in Reads : Domain[x] \subseteq Int
  BY SharedGaugesAssumption DEF Reads, Inputs, Names

\* A block adds a value to every span.
LEMMA SinceGrows ==
    ASSUME Types, NEW v \in Vectors(Domain), past' = Append(past, v), task' = task,
           NEW a \in Nat
    PROVE  /\ newest' = newest + 1
           /\ Reads' = Reads
           /\ \A x \in Reads : a >= 1 => Since(a)[x] \subseteq Since(a)'[x]
<1>1. /\ past \in Seq(Vectors(Domain))
      /\ newest' = newest + 1
      /\ \A i \in 1..newest : past'[i] = past[i]
  BY DEF Types, newest
<1>2. Reads' = Reads
  BY DEF Reads
<1>3. newest \in Nat
  BY <1>1 DEF newest
<1>4. ASSUME NEW x \in Reads, a >= 1 PROVE Since(a)[x] \subseteq Since(a)'[x]
  <2>1. a..newest \subseteq a..newest' /\ a..newest \subseteq 1..newest
    BY <1>1, <1>3, <1>4
  <2>2. Since(a)[x] = {past[i][x] : i \in a..newest}
    BY <1>4 DEF Since
  <2>3. Since(a)'[x] = {past'[i][x] : i \in a..newest'}
    BY <1>2, <1>4 DEF Since
  <2>4. QED
    BY <1>1, <2>1, <2>2, <2>3
<1>5. QED
  BY <1>1, <1>2, <1>4

\* A vector of a span is one of every span that contains it.
LEMMA VectorsGrow ==
    ASSUME NEW S, NEW T, \A x \in Reads : S[x] \subseteq T[x]
    PROVE  Vectors(S) \subseteq Vectors(T)
<1> SUFFICES ASSUME NEW f \in Vectors(S) PROVE f \in Vectors(T)
  OBVIOUS
<1>1. f = [x \in Reads |-> f[x]] /\ \A x \in Reads : f[x] \in S[x]
  BY VectorIs
<1>2. \A x \in Reads : f[x] \in T[x]
  BY <1>1
<1>3. QED
  BY <1>1, <1>2, VectorIs

\* The newest values are in every span, and all spans hold values of the domain.
LEMMA SinceHas ==
    ASSUME Types, NEW a \in 1..newest
    PROVE  \A x \in Reads : /\ past[newest][x] \in Since(a)[x]
                            /\ Since(a)[x] \subseteq Domain[x]
                            /\ Since(a)[x] # {}
<1> SUFFICES ASSUME NEW x \in Reads
             PROVE  /\ past[newest][x] \in Since(a)[x]
                    /\ Since(a)[x] \subseteq Domain[x]
  OBVIOUS
<1>1. newest \in Nat /\ newest \in a..newest /\ a..newest \subseteq 1..newest
  BY DEF Types, newest
<1>2. Since(a)[x] = {past[i][x] : i \in a..newest}
  BY DEF Since
<1>3. \A i \in 1..newest : past[i] \in Vectors(Domain)
  BY DEF Types, newest
<1>4. \A i \in 1..newest : past[i][x] \in Domain[x]
  BY <1>3, VectorIs
<1>5. QED
  BY <1>1, <1>2, <1>4

\* An older start has a larger span.
LEMMA OlderSpan ==
    ASSUME Types, NEW a \in Nat, NEW b \in Nat, a <= b
    PROVE  \A x \in Reads : Since(b)[x] \subseteq Since(a)[x]
<1>1. newest \in Nat
  BY DEF Types, newest
<1>2. b..newest \subseteq a..newest
  BY <1>1
<1>3. QED
  BY <1>2 DEF Since

LEMMA SpanSince ==
    ASSUME NEW r
    PROVE  Span(r) = Since(floor[r])
  BY DEF Span, Since

LEMMA LeastIs ==
    ASSUME NEW T, T \subseteq Nat, T # {}
    PROVE  Min(T) \in T /\ \A y \in T : Min(T) <= y
<1>1. \E n \in T : \A m \in T : n <= m
  BY LeastOf
<1>2. QED
  BY <1>1 DEF Min

-----------------------------------------------------------------------------
(* Every step keeps the types.                                              *)

LEMMA TypesInit == ASSUME Init PROVE Types
<1>1. task \in {"fees", "funding", "chainlink"}
  BY SharedGaugesAssumption DEF Init
<1>2. PICK v \in Vectors(Domain) : past = <<v>>
  BY DEF Init
<1>3. past \in Seq(Vectors(Domain)) /\ newest = 1
  BY <1>2 DEF newest
<1>4. QED
  BY <1>1, <1>3 DEF Init, Types, Idle

\* The steps of a task stay its own.
LEMMA StepsAre ==
    ASSUME Types, NEW r \in Runners
    PROVE  /\ Active(r) => pc[r] \in StepsOf[task]
           /\ Active(r) => After[pc[r]] \in {"over"} \cup StepsOf[task]
           /\ First[task] \in StepsOf[task]
           /\ StepsOf[task] \cap Idle = {}
<1>1. task \in {"fees", "funding", "chainlink"} /\ pc[r] \in Idle \cup StepsOf[task]
  BY DEF Types
<1>2. CASE task = "fees"
  <2>1. StepsOf[task] = {"market", "setTotal", "bank", "setGap"} /\ First[task] = "market"
    <3>1. StepsOf["fees"] = {"market", "setTotal", "bank", "setGap"}
      BY DEF StepsOf
    <3>2. First["fees"] = "market"
      BY DEF First
    <3>3. QED
      BY <1>2, <3>1, <3>2
  <2>2. \A c \in {"market", "setTotal", "bank", "setGap"} : After[c] \in {"over"} \cup {"market", "setTotal", "bank", "setGap"}
    BY DEF After
  <2>3. QED
    BY <1>1, <2>1, <2>2 DEF Idle, Active
<1>3. CASE task = "funding"
  <2>1. StepsOf[task] = {"long", "short", "setLong", "setShort", "setRatio"} /\ First[task] = "long"
    <3>1. StepsOf["funding"] = {"long", "short", "setLong", "setShort", "setRatio"}
      BY DEF StepsOf
    <3>2. First["funding"] = "long"
      BY DEF First
    <3>3. QED
      BY <1>3, <3>1, <3>2
  <2>2. \A c \in {"long", "short", "setLong", "setShort", "setRatio"} : After[c] \in {"over"} \cup {"long", "short", "setLong", "setShort", "setRatio"}
    BY DEF After
  <2>3. QED
    BY <1>1, <2>1, <2>2 DEF Idle, Active
<1>4. CASE task = "chainlink"
  <2>1. StepsOf[task] = {"now", "updated", "setAge"} /\ First[task] = "now"
    <3>1. StepsOf["chainlink"] = {"now", "updated", "setAge"}
      BY DEF StepsOf
    <3>2. First["chainlink"] = "now"
      BY DEF First
    <3>3. QED
      BY <1>4, <3>1, <3>2
  <2>2. \A c \in {"now", "updated", "setAge"} : After[c] \in {"over"} \cup {"now", "updated", "setAge"}
    BY DEF After
  <2>3. QED
    BY <1>1, <2>1, <2>2 DEF Idle, Active
<1>5. QED
  BY <1>1, <1>2, <1>3, <1>4

\* What no step of a Run changes.
LEMMA SameTask ==
    ASSUME task' = task
    PROVE  Reads' = Reads /\ Vectors(Domain)' = Vectors(Domain) /\ StepsOf' = StepsOf
<1>1. Reads' = Reads
  BY DEF Reads
<1>2. QED
  BY <1>1 DEF Vectors, StepsOf

LEMMA TypesNewBlock == ASSUME Types, NewBlock PROVE Types'
<1>1. /\ task' = task /\ pc' = pc /\ todo' = todo /\ got' = got /\ total' = total
      /\ failed' = failed /\ start' = start /\ floor' = floor /\ lost' = lost
  BY DEF NewBlock, code, history
<1>2. PICK v \in Vectors(Domain) : past' = Append(past, v)
  BY DEF NewBlock
<1>3. Reads' = Reads /\ Vectors(Domain)' = Vectors(Domain) /\ StepsOf' = StepsOf
  BY <1>1, SameTask
<1>4. past' \in Seq(Vectors(Domain)) /\ newest' = newest + 1 /\ newest \in Nat
  BY <1>2 DEF Types, newest
<1>5. 0..newest \subseteq 0..newest' /\ 1..newest \subseteq 1..newest'
  BY <1>4
<1>6. start \in [Runners -> 0..newest'] /\ floor \in [Runners -> 1..newest']
  BY <1>5 DEF Types
<1>7. newest' >= 1
  BY <1>4 DEF Types
<1> HIDE DEF newest
<1>8. QED
  BY <1>1, <1>3, <1>4, <1>6, <1>7, Zenon DEF Types, Idle

\* The oldest start there is when the Run of r begins.
Oldest == Min({newest} \cup {start[q] : q \in Busy})

LEMMA OldestIs ==
    ASSUME Types, Spans
    PROVE  /\ Oldest \in 1..newest
           /\ \A q \in Runners : Active(q) => Oldest <= start[q]
<1> DEFINE T == {newest} \cup {start[q] : q \in Busy}
<1>1. newest \in Nat /\ newest >= 1 /\ start \in [Runners -> 0..newest]
  BY DEF Types, newest
<1>2. \A q \in Runners : Active(q) => 1 <= start[q]
  BY DEF Spans, Active, Idle
<1>3. T \subseteq 1..newest
  BY <1>1, <1>2 DEF Busy
<1>4. T \subseteq Nat /\ T # {}
  BY <1>1, <1>3
<1>5. Min(T) \in T /\ \A y \in T : Min(T) <= y
  <2> HIDE DEF T
  <2> QED
    BY <1>4, LeastIs
<1>6. QED
  BY <1>3, <1>5 DEF Oldest, Busy

LEMMA TypesBegin == ASSUME Types, Spans, NEW r \in Runners, Begin(r) PROVE Types'
<1>1. /\ task' = task /\ past' = past /\ newest' = newest
      /\ pc' = [pc EXCEPT ![r] = First[task]]
      /\ todo' = [todo EXCEPT ![r] = Markets]
      /\ got' = [got EXCEPT ![r] = [x \in Reads |-> 0]]
      /\ total' = [total EXCEPT ![r] = 0]
      /\ failed' = [failed EXCEPT ![r] = {}]
      /\ start' = [start EXCEPT ![r] = newest]
      /\ floor' = [floor EXCEPT ![r] = Oldest]
      /\ lost' = [lost EXCEPT ![r] = UNION {failed[q] \cap Markets : q \in Busy}]
  <2>1. BeginHistory(r) /\ past' = past
    BY DEF Begin
  <2>2. newest' = newest
    BY <2>1 DEF newest
  <2>3. floor' = [floor EXCEPT ![r] = Oldest]
    BY <2>1 DEF BeginHistory, Oldest
  <2>4. /\ start' = [start EXCEPT ![r] = newest]
        /\ lost' = [lost EXCEPT ![r] = UNION {failed[q] \cap Markets : q \in Busy}]
    BY <2>1 DEF BeginHistory
  <2>5. /\ pc' = [pc EXCEPT ![r] = First[task]]
        /\ todo' = [todo EXCEPT ![r] = Markets]
        /\ got' = [got EXCEPT ![r] = [x \in Reads |-> 0]]
        /\ total' = [total EXCEPT ![r] = 0]
        /\ failed' = [failed EXCEPT ![r] = {}]
    BY DEF Begin
  <2>6. task' = task
    BY DEF Begin
  <2>7. QED
    BY <2>1, <2>2, <2>3, <2>4, <2>5, <2>6
<1>2. Reads' = Reads /\ Vectors(Domain)' = Vectors(Domain) /\ StepsOf' = StepsOf
  BY <1>1, SameTask
<1>3. First[task] \in StepsOf[task]
  BY StepsAre
<1>4. Oldest \in 1..newest /\ newest \in 0..newest
  BY OldestIs DEF Types, newest
<1>5. [x \in Reads |-> 0] \in [Reads -> Int]
  OBVIOUS
<1>6. QED
  BY <1>1, <1>2, <1>3, <1>4, <1>5 DEF Types, Idle

LEMMA AnswerInDomain ==
    ASSUME Types, NEW x \in Reads
    PROVE  past[newest][x] \in Domain[x] /\ past[newest][x] \in Int
<1>1. newest \in 1..newest
  BY DEF Types, newest
<1>2. past[newest][x] \in Domain[x]
  BY <1>1, SinceHas
<1>3. QED
  BY <1>2, ReadsAre DEF Types

LEMMA TypesReadMarket ==
    ASSUME Types, NEW r \in Runners, ReadMarket(r), task = "fees" PROVE Types'
<1>1. PICK m \in todo[r] :
         /\ todo' = [todo EXCEPT ![r] = @ \ {m}]
         /\ pc' = IF todo[r] = {m} THEN [pc EXCEPT ![r] = After[@]] ELSE pc
         /\ \/ /\ total' = [total EXCEPT ![r] = @ + past[newest][m]]
               /\ failed' = failed /\ lost' = lost
            \/ /\ failed' = [failed EXCEPT ![r] = @ \cup {m}]
               /\ lost' = [q \in Runners |-> lost[q] \cup {m}]
               /\ total' = total
  BY DEF ReadMarket
<1>2. /\ task' = task /\ past' = past /\ newest' = newest /\ got' = got
      /\ start' = start /\ floor' = floor
  BY DEF ReadMarket, newest
<1>3. Reads' = Reads /\ Vectors(Domain)' = Vectors(Domain) /\ StepsOf' = StepsOf
  BY <1>2, SameTask
<1>4. m \in Markets /\ m \in Reads /\ past[newest][m] \in Int
  BY <1>1, ReadsAre, AnswerInDomain DEF Types
<1>5. pc' \in [Runners -> Idle \cup StepsOf[task]]
  <2>1. After[pc[r]] \in {"over"} \cup StepsOf[task]
    BY StepsAre DEF ReadMarket, Active, Idle
  <2>2. QED
    BY <1>1, <2>1 DEF Types, Idle
<1>6. /\ todo' \in [Runners -> SUBSET Markets]
      /\ failed' \in [Runners -> SUBSET Reads]
      /\ lost' \in [Runners -> SUBSET Markets]
  <2>1. todo' \in [Runners -> SUBSET Markets]
    BY <1>1 DEF Types
  <2>2. failed' \in [Runners -> SUBSET Reads]
    <3>1. failed[r] \cup {m} \in SUBSET Reads /\ failed \in [Runners -> SUBSET Reads]
      BY <1>4 DEF Types
    <3>2. CASE failed' = [failed EXCEPT ![r] = @ \cup {m}]
      BY <3>1, <3>2
    <3>3. QED
      BY <1>1, <3>1, <3>2
  <2>3. lost' \in [Runners -> SUBSET Markets]
    <3>1. \A q \in Runners : lost[q] \cup {m} \in SUBSET Markets
      BY <1>4 DEF Types
    <3>2. CASE lost' = [q \in Runners |-> lost[q] \cup {m}]
      BY <3>1, <3>2
    <3>3. QED
      BY <1>1, <3>2 DEF Types
  <2>4. QED
    BY <2>1, <2>2, <2>3
<1>7. total' \in [Runners -> Int]
  BY <1>1, <1>4 DEF Types
<1>8. QED
  BY <1>2, <1>3, <1>5, <1>6, <1>7 DEF Types, Idle

LEMMA TypesRead == ASSUME Types, NEW r \in Runners, Read(r), Active(r), pc[r] \in Reads PROVE Types'
<1>1. /\ got' = [got EXCEPT ![r][pc[r]] = past[newest][pc[r]]]
      /\ pc' = [pc EXCEPT ![r] = After[@]]
      /\ task' = task /\ past' = past /\ todo' = todo /\ total' = total
      /\ failed' = failed /\ start' = start /\ floor' = floor /\ lost' = lost
      /\ newest' = newest
  BY DEF Read, history, newest
<1>2. Reads' = Reads /\ Vectors(Domain)' = Vectors(Domain) /\ StepsOf' = StepsOf
  BY <1>1, SameTask
<1>3. past[newest][pc[r]] \in Int
  BY AnswerInDomain
<1>4. After[pc[r]] \in {"over"} \cup StepsOf[task]
  BY StepsAre
<1>5. pc' \in [Runners -> Idle \cup StepsOf[task]]
  BY <1>1, <1>4 DEF Types, Idle
<1>6. got' \in [Runners -> [Reads -> Int]]
  BY <1>1, <1>3 DEF Types
<1>7. QED
  BY <1>1, <1>2, <1>5, <1>6 DEF Types, Idle

LEMMA TypesFail == ASSUME Types, NEW r \in Runners, Fail(r), pc[r] \in Reads PROVE Types'
<1>1. /\ failed' = [failed EXCEPT ![r] = @ \cup {pc[r]}]
      /\ pc' = [pc EXCEPT ![r] = "over"]
      /\ task' = task /\ past' = past /\ todo' = todo /\ total' = total
      /\ got' = got /\ start' = start /\ floor' = floor /\ lost' = lost
      /\ newest' = newest
  BY DEF Fail, history, newest
<1>2. Reads' = Reads /\ Vectors(Domain)' = Vectors(Domain) /\ StepsOf' = StepsOf
  BY <1>1, SameTask
<1>3. pc' \in [Runners -> Idle \cup StepsOf[task]] /\ failed' \in [Runners -> SUBSET Reads]
  BY <1>1 DEF Types, Idle
<1>4. QED
  BY <1>1, <1>2, <1>3 DEF Types, Idle

LEMMA TypesSet == ASSUME Types, NEW r \in Runners, Set(r), Active(r) PROVE Types'
<1>1. /\ pc' = [pc EXCEPT ![r] = After[@]]
      /\ task' = task /\ past' = past /\ todo' = todo /\ total' = total
      /\ got' = got /\ failed' = failed /\ start' = start /\ floor' = floor
      /\ lost' = lost /\ newest' = newest
  BY DEF Set, history, newest
<1>2. Reads' = Reads /\ Vectors(Domain)' = Vectors(Domain) /\ StepsOf' = StepsOf
  BY <1>1, SameTask
<1>3. After[pc[r]] \in {"over"} \cup StepsOf[task]
  BY StepsAre
<1>4. pc' \in [Runners -> Idle \cup StepsOf[task]]
  BY <1>1, <1>3 DEF Types, Idle
<1>5. QED
  BY <1>1, <1>2, <1>4 DEF Types, Idle

-----------------------------------------------------------------------------
(* The step at which each action happens.                                   *)

LEMMA WhereRead ==
    ASSUME Types, NEW r \in Runners, pc[r] \in Names
    PROVE  /\ Active(r) /\ pc[r] \in Reads
           /\ After[pc[r]] # "over" /\ HasAt[After[pc[r]]] = HasAt[pc[r]] \cup {pc[r]}
           /\ task = "fees" => pc[r] = "bank" /\ After[pc[r]] = "setGap"
<1>1. /\ task \in {"fees", "funding", "chainlink"}
      /\ pc[r] \in Idle \cup StepsOf[task]
      /\ pc[r] \in {"bank", "long", "short", "now", "updated"}
  BY DEF Types, Names
<1>2. Active(r) /\ pc[r] \in StepsOf[task]
  BY <1>1 DEF Active, Idle
<1>3. \A c \in {"bank", "long", "short", "now", "updated"} :
         After[c] # "over" /\ HasAt[After[c]] = HasAt[c] \cup {c}
  BY DEF After, HasAt
<1>4. After["bank"] = "setGap"
  BY DEF After
<1>5. CASE task = "fees"
  <2>1. StepsOf["fees"] = {"market", "setTotal", "bank", "setGap"}
    BY DEF StepsOf
  <2>2. pc[r] = "bank"
    BY <1>1, <1>2, <1>5, <2>1
  <2>3. QED
    BY <1>2, <1>3, <1>4, <1>5, <2>2, ReadsAre
<1>6. CASE task = "funding"
  <2>1. StepsOf["funding"] = {"long", "short", "setLong", "setShort", "setRatio"}
    BY DEF StepsOf
  <2>2. pc[r] \in {"long", "short"}
    BY <1>1, <1>2, <1>6, <2>1
  <2>3. QED
    BY <1>2, <1>3, <1>6, <2>2, ReadsAre
<1>7. CASE task = "chainlink"
  <2>1. StepsOf["chainlink"] = {"now", "updated", "setAge"}
    BY DEF StepsOf
  <2>2. pc[r] \in {"now", "updated"}
    BY <1>1, <1>2, <1>7, <2>1
  <2>3. QED
    BY <1>2, <1>3, <1>7, <2>2, ReadsAre
<1>8. QED
  BY <1>1, <1>5, <1>6, <1>7

LEMMA WhereMarket ==
    ASSUME Types, NEW r \in Runners, pc[r] = "market"
    PROVE  task = "fees" /\ Active(r)
<1>1. task \in {"fees", "funding", "chainlink"} /\ pc[r] \in Idle \cup StepsOf[task]
  BY DEF Types
<1>2. /\ StepsOf["funding"] = {"long", "short", "setLong", "setShort", "setRatio"}
      /\ StepsOf["chainlink"] = {"now", "updated", "setAge"}
  BY DEF StepsOf
<1>3. QED
  BY <1>1, <1>2 DEF Idle, Active

Setting == {"setTotal", "setGap", "setLong", "setShort", "setRatio", "setAge"}

LEMMA WhereSet ==
    ASSUME Types, NEW r \in Runners, pc[r] \in Setting
    PROVE  /\ Active(r)
           /\ task = IF pc[r] \in {"setTotal", "setGap"} THEN "fees"
                     ELSE IF pc[r] = "setAge" THEN "chainlink" ELSE "funding"
           /\ After[pc[r]] # "market" /\ After[pc[r]] # "never"
           /\ After[pc[r]] # "over" => HasAt[After[pc[r]]] \subseteq HasAt[pc[r]]
<1>1. task \in {"fees", "funding", "chainlink"} /\ pc[r] \in Idle \cup StepsOf[task]
  BY DEF Types
<1>2. /\ StepsOf["fees"] = {"market", "setTotal", "bank", "setGap"}
      /\ StepsOf["funding"] = {"long", "short", "setLong", "setShort", "setRatio"}
      /\ StepsOf["chainlink"] = {"now", "updated", "setAge"}
  BY DEF StepsOf
<1>3. Active(r) /\ pc[r] \in StepsOf[task]
  BY <1>1 DEF Active, Idle, Setting
<1>4. \A c \in Setting :
         /\ After[c] # "market" /\ After[c] # "never"
         /\ After[c] # "over" => HasAt[After[c]] \subseteq HasAt[c]
  BY DEF After, HasAt, Setting
<1>5. task = IF pc[r] \in {"setTotal", "setGap"} THEN "fees"
             ELSE IF pc[r] = "setAge" THEN "chainlink" ELSE "funding"
  BY <1>1, <1>2, <1>3 DEF Setting
<1>6. QED
  BY <1>3, <1>4, <1>5

\* What the steps of a Run have in common.
Goes(r) ==
    /\ task' = task /\ past' = past /\ start' = start /\ floor' = floor
    /\ \A q \in Runners \ {r} : pc'[q] = pc[q]
    /\ Active(r) /\ pc'[r] # "never"

LEMMA AllGo ==
    ASSUME Types, NEW r \in Runners, ReadMarket(r) \/ Read(r) \/ Fail(r) \/ Set(r)
    PROVE  Goes(r)
<1>1. CASE ReadMarket(r)
  <2>1. Active(r) /\ pc \in [Runners -> Idle \cup StepsOf[task]] /\ pc[r] = "market"
    BY <1>1, WhereMarket DEF ReadMarket, Types
  <2>2. After["market"] # "never"
    BY DEF After
  <2>3. QED
    BY <1>1, <2>1, <2>2 DEF ReadMarket, Goes, Active, Idle
<1>2. CASE Read(r)
  <2>1. Active(r) /\ pc \in [Runners -> Idle \cup StepsOf[task]] /\ pc[r] \in Names
    BY <1>2, WhereRead DEF Read, Types
  <2>2. \A c \in Names : After[c] # "never"
    BY DEF After, Names
  <2>3. QED
    BY <1>2, <2>1, <2>2 DEF Read, Goes, history
<1>3. CASE Fail(r)
  <2>1. Active(r) /\ pc \in [Runners -> Idle \cup StepsOf[task]]
    BY <1>3, WhereRead DEF Fail, Types
  <2>2. QED
    BY <1>3, <2>1 DEF Fail, Goes, history
<1>4. CASE Set(r)
  <2>1. pc[r] \in Setting
    BY <1>4 DEF Set, Setting
  <2>2. Active(r) /\ pc \in [Runners -> Idle \cup StepsOf[task]] /\ After[pc[r]] # "never"
    BY <2>1, WhereSet DEF Types
  <2>3. QED
    BY <1>4, <2>2 DEF Set, Goes, history
<1>5. QED
  BY <1>1, <1>2, <1>3, <1>4

LEMMA TypesStep ==
    ASSUME Types, Spans, [Next]_vars
    PROVE  Types'
<1>1. CASE NewBlock
  BY <1>1, TypesNewBlock
<1>2. ASSUME NEW r \in Runners, Begin(r) PROVE Types'
  BY <1>2, TypesBegin
<1>3. ASSUME NEW r \in Runners, ReadMarket(r) PROVE Types'
  BY <1>3, TypesReadMarket, WhereMarket DEF ReadMarket
<1>4. ASSUME NEW r \in Runners, Read(r) PROVE Types'
  BY <1>4, TypesRead, WhereRead DEF Read
<1>5. ASSUME NEW r \in Runners, Fail(r) PROVE Types'
  BY <1>5, TypesFail, WhereRead DEF Fail
<1>6. ASSUME NEW r \in Runners, Set(r) PROVE Types'
  BY <1>6, TypesSet, WhereSet DEF Set, Setting
<1>7. CASE UNCHANGED vars
  <2>1. /\ task' = task /\ past' = past /\ newest' = newest /\ pc' = pc /\ todo' = todo
        /\ got' = got /\ total' = total /\ failed' = failed /\ start' = start
        /\ floor' = floor /\ lost' = lost
    BY <1>7 DEF vars, code, history, newest
  <2>2. Reads' = Reads /\ Vectors(Domain)' = Vectors(Domain) /\ StepsOf' = StepsOf
    BY <2>1, SameTask
  <2> HIDE DEF newest
  <2>3. QED
    BY <2>1, <2>2, Zenon DEF Types, Idle
<1>8. QED
  BY <1>1, <1>2, <1>3, <1>4, <1>5, <1>6, <1>7 DEF Next

-----------------------------------------------------------------------------
(* Every step keeps the bounds of the starts, the answers and the sums.     *)

\* After a step of a Run, whoever is active was so before.
LEMMA GoesWhere ==
    ASSUME NEW r \in Runners, Goes(r), NEW q \in Runners
    PROVE  /\ Active(q)' => Active(q)
           /\ pc'[q] # "never" => pc[q] # "never"
           /\ q # r => pc'[q] = pc[q] /\ (Active(q)' <=> Active(q))
  BY DEF Goes, Active, Idle

\* The failures of a Run are noted as lost by all.
LEMMA LostGrows ==
    ASSUME Types, NEW r \in Runners, ReadMarket(r) \/ Read(r) \/ Fail(r) \/ Set(r)
    PROVE  \A q \in Runners :
              /\ \A p \in Runners : Active(p)' /\ failed[p] \cap Markets \subseteq lost[q] =>
                    failed'[p] \cap Markets \subseteq lost'[q]
              /\ lost[q] \subseteq lost'[q]
<1>1. CASE ReadMarket(r)
  <2>1. PICK m \in todo[r] :
           \/ failed' = failed /\ lost' = lost
           \/ /\ failed' = [failed EXCEPT ![r] = @ \cup {m}]
              /\ lost' = [q \in Runners |-> lost[q] \cup {m}]
    BY <1>1 DEF ReadMarket
  <2>2. failed \in [Runners -> SUBSET Reads]
    BY DEF Types
  <2>3. QED
    BY <2>1, <2>2
<1>2. CASE Read(r) \/ Set(r)
  BY <1>2 DEF Read, Set, history
<1>3. CASE Fail(r)
  <2>1. failed' = [failed EXCEPT ![r] = @ \cup {pc[r]}] /\ lost' = lost /\ pc'[r] = "over"
    BY <1>3 DEF Fail, history, Types
  <2>2. failed \in [Runners -> SUBSET Reads] /\ ~Active(r)'
    BY <2>1 DEF Types, Active, Idle
  <2>3. QED
    BY <2>1, <2>2
<1>4. QED
  BY <1>1, <1>2, <1>3

LEMMA SpansGo ==
    ASSUME Types, Spans, NEW r \in Runners, ReadMarket(r) \/ Read(r) \/ Fail(r) \/ Set(r)
    PROVE  Spans'
<1>1. Goes(r)
  BY AllGo
<1> SUFFICES ASSUME NEW p \in Runners, NEW q \in Runners, pc'[p] # "never", Active(q)'
             PROVE  /\ 1 <= start'[q] /\ floor'[p] <= start'[q]
                    /\ failed'[q] \cap Markets \subseteq lost'[p]
  BY DEF Spans
<1>2. pc[p] # "never" /\ Active(q)
  BY <1>1, GoesWhere
<1>3. 1 <= start[q] /\ floor[p] <= start[q] /\ failed[q] \cap Markets \subseteq lost[p]
  BY <1>2 DEF Spans
<1>4. failed'[q] \cap Markets \subseteq lost'[p]
  BY <1>3, LostGrows
<1>5. QED
  BY <1>1, <1>3, <1>4 DEF Goes

LEMMA SpansBegin ==
    ASSUME Types, Spans, NEW r \in Runners, Begin(r)
    PROVE  Spans'
<1>1. /\ pc' = [pc EXCEPT ![r] = First[task]]
      /\ failed' = [failed EXCEPT ![r] = {}]
  BY DEF Begin
<1>2. /\ start' = [start EXCEPT ![r] = newest]
      /\ floor' = [floor EXCEPT ![r] = Oldest]
      /\ lost' = [lost EXCEPT ![r] = UNION {failed[q] \cap Markets : q \in Busy}]
  BY DEF Begin, BeginHistory, Oldest
<1>3. /\ start \in [Runners -> 0..newest] /\ floor \in [Runners -> 1..newest]
      /\ failed \in [Runners -> SUBSET Reads] /\ lost \in [Runners -> SUBSET Markets]
      /\ newest \in Nat /\ newest >= 1 /\ DOMAIN pc = Runners
  BY DEF Types, newest
<1>4. Oldest \in 1..newest /\ \A q \in Runners : Active(q) => Oldest <= start[q]
  BY OldestIs
<1> SUFFICES ASSUME NEW p \in Runners, NEW q \in Runners, pc'[p] # "never", Active(q)'
             PROVE  /\ 1 <= start'[q] /\ floor'[p] <= start'[q]
                    /\ failed'[q] \cap Markets \subseteq lost'[p]
  BY DEF Spans
<1>5. CASE q = r
  <2>1. start'[q] = newest /\ failed'[q] = {}
    BY <1>2, <1>1, <1>3, <1>5
  <2>2. floor'[p] \in 1..newest
    BY <1>2, <1>3, <1>4
  <2>3. QED
    BY <1>3, <2>1, <2>2
<1>6. CASE q # r
  <2>1. Active(q) /\ start'[q] = start[q] /\ failed'[q] = failed[q]
    BY <1>1, <1>2, <1>3, <1>6 DEF Active, Idle
  <2>2. 1 <= start[q] /\ pc[q] # "never"
    BY <2>1 DEF Spans, Active, Idle
  <2>3. CASE p = r
    <3>1. floor'[p] = Oldest /\ lost'[p] = UNION {failed[s] \cap Markets : s \in Busy}
      BY <1>2, <1>3, <2>3
    <3>2. q \in Busy
      BY <2>1 DEF Busy
    <3>3. QED
      BY <1>4, <2>1, <2>2, <3>1, <3>2
  <2>4. CASE p # r
    <3>1. floor'[p] = floor[p] /\ lost'[p] = lost[p] /\ pc[p] # "never"
      BY <1>1, <1>2, <1>3, <2>4
    <3>2. QED
      BY <2>1, <3>1 DEF Spans
  <2>5. QED
    BY <2>3, <2>4
<1>7. QED
  BY <1>5, <1>6

\* Spans of the same blocks.
LEMMA SinceStays ==
    ASSUME task' = task, past' = past
    PROVE  /\ newest' = newest /\ Reads' = Reads
           /\ \A a : Since(a)' = Since(a)
           /\ \A q : start'[q] = start[q] => Since(start[q])' = Since(start[q])
<1>1. newest' = newest
  BY DEF newest
<1>2. Reads' = Reads
  BY DEF Reads
<1>3. QED
  BY <1>1, <1>2 DEF Since

LEMMA AnswersBegin ==
    ASSUME Types, Answers, NEW r \in Runners, Begin(r)
    PROVE  Answers'
<1>1. /\ pc' = [pc EXCEPT ![r] = First[task]]
      /\ got' = [got EXCEPT ![r] = [x \in Reads |-> 0]]
      /\ start' = [start EXCEPT ![r] = newest]
      /\ task' = task /\ past' = past
  BY DEF Begin, BeginHistory
<1>2. HasAt[First[task]] = {}
  <2>1. \A t \in {"fees", "funding", "chainlink"} : HasAt[First[t]] = {}
    BY DEF First, HasAt
  <2>2. QED
    BY <2>1 DEF Types
<1> SUFFICES ASSUME NEW q \in Runners, Active(q)', NEW x \in HasAt[pc'[q]]
             PROVE  got'[q][x] \in Since(start[q])'[x]
  BY DEF Answers, HasAt
<1>3. q # r
  BY <1>1, <1>2 DEF Types
<1>4. pc'[q] = pc[q] /\ got'[q] = got[q] /\ start'[q] = start[q] /\ Active(q)
  BY <1>1, <1>3 DEF Types, Active, Idle
<1>5. got[q][x] \in Since(start[q])[x]
  BY <1>4 DEF Answers
<1>6. QED
  BY <1>1, <1>4, <1>5, SinceStays

\* An active Run has begun.
LEMMA StartIs ==
    ASSUME Types, Spans, NEW r \in Runners, Active(r)
    PROVE  start[r] \in 1..newest
  BY DEF Types, Spans, Active, Idle, newest

LEMMA AnswersRead ==
    ASSUME Types, Spans, Answers, NEW r \in Runners, Read(r)
    PROVE  Answers'
<1>1. /\ pc[r] \in Names
      /\ got' = [got EXCEPT ![r][pc[r]] = past[newest][pc[r]]]
      /\ pc' = [pc EXCEPT ![r] = After[@]]
      /\ start' = start /\ task' = task /\ past' = past
  BY DEF Read, history
<1>2. Active(r) /\ pc[r] \in Reads /\ HasAt[After[pc[r]]] = HasAt[pc[r]] \cup {pc[r]}
  BY <1>1, WhereRead
<1>3. Goes(r)
  BY AllGo
<1> SUFFICES ASSUME NEW q \in Runners, Active(q)', NEW x \in HasAt[pc'[q]]
             PROVE  got'[q][x] \in Since(start[q])'[x]
  BY DEF Answers, HasAt
<1>4. Active(q) /\ Since(start[q])' = Since(start[q])
  BY <1>1, <1>3, GoesWhere, SinceStays
<1>5. CASE q # r
  <2>1. pc'[q] = pc[q] /\ got'[q] = got[q]
    BY <1>1, <1>3, <1>5 DEF Types, Goes
  <2>2. QED
    BY <1>4, <2>1 DEF Answers
<1>6. CASE q = r
  <2>1. pc'[r] = After[pc[r]]
    BY <1>1 DEF Types
  <2>2. x \in HasAt[pc[r]] \cup {pc[r]}
    BY <1>2, <1>6, <2>1
  <2>3. CASE x = pc[r]
    <3>1. got'[r][x] = past[newest][x]
      BY <1>1, <1>2, <2>3 DEF Types
    <3>2. start[r] \in 1..newest
      BY <1>2, StartIs
    <3>3. past[newest][x] \in Since(start[r])[x]
      BY <1>2, <2>3, <3>2, SinceHas
    <3>4. QED
      BY <1>4, <1>6, <3>1, <3>3
  <2>4. CASE x # pc[r]
    <3>1. got'[r][x] = got[r][x]
      BY <1>1, <2>4 DEF Types
    <3>2. QED
      BY <1>4, <1>6, <2>2, <2>4, <3>1 DEF Answers
  <2>5. QED
    BY <2>3, <2>4
<1>7. QED
  BY <1>5, <1>6

LEMMA AnswersGo ==
    ASSUME Types, Answers, NEW r \in Runners, ReadMarket(r) \/ Fail(r) \/ Set(r)
    PROVE  Answers'
<1>1. Goes(r) /\ got' = got
  BY AllGo DEF ReadMarket, Fail, Set
<1>2. Active(r)' => HasAt[pc'[r]] \subseteq HasAt[pc[r]]
  <2>1. CASE ReadMarket(r)
    <3>1. pc[r] = "market" /\ pc'[r] \in {pc[r], After[pc[r]]}
      BY <2>1 DEF ReadMarket, Types
    <3>2. HasAt[After["market"]] = {} /\ HasAt["market"] = {}
      BY DEF HasAt, After
    <3>3. QED
      BY <3>1, <3>2
  <2>2. CASE Fail(r)
    BY <2>2 DEF Fail, Types, Active, Idle
  <2>3. CASE Set(r)
    <3>1. pc[r] \in Setting /\ pc'[r] = After[pc[r]]
      BY <2>3 DEF Set, Setting, Types
    <3>2. QED
      BY <3>1, WhereSet DEF Active, Idle
  <2>4. QED
    BY <2>1, <2>2, <2>3
<1> SUFFICES ASSUME NEW q \in Runners, Active(q)', NEW x \in HasAt[pc'[q]]
             PROVE  got'[q][x] \in Since(start[q])'[x]
  BY DEF Answers, HasAt
<1>3. Active(q) /\ x \in HasAt[pc[q]]
  BY <1>1, <1>2, GoesWhere
<1>4. got[q][x] \in Since(start[q])[x]
  BY <1>3 DEF Answers
<1>5. QED
  BY <1>1, <1>4, SinceStays DEF Goes

\* A sum of values stays one if nothing is taken from its span.
LEMMA SumStays ==
    ASSUME NEW q \in Runners, SumIs(q), task' = task,
           total'[q] = total[q], todo'[q] = todo[q], failed'[q] = failed[q],
           \A x \in Reads : Since(start[q])[x] \subseteq Since(start[q])'[x]
    PROVE  SumIs(q)'
<1>1. PICK v \in Vectors(Since(start[q])) :
         total[q] = Claimable(v, Markets \ (todo[q] \cup failed[q]))
  BY DEF SumIs
<1>2. Reads' = Reads
  BY DEF Reads
<1>3. v = [x \in Reads |-> v[x]] /\ \A x \in Reads : v[x] \in Since(start[q])[x]
  BY VectorIs
<1>4. v = [x \in Reads' |-> v[x]] /\ \A x \in Reads' : v[x] \in Since(start[q])'[x]
  BY <1>2, <1>3
<1>5. v \in Vectors(Since(start[q]))'
  BY <1>4 DEF Vectors
<1>6. QED
  BY <1>1, <1>5 DEF SumIs, Claimable

LEMMA TotalsBegin ==
    ASSUME Types, Totals, NEW r \in Runners, Begin(r)
    PROVE  Totals'
<1>1. /\ pc' = [pc EXCEPT ![r] = First[task]]
      /\ todo' = [todo EXCEPT ![r] = Markets]
      /\ total' = [total EXCEPT ![r] = 0]
      /\ failed' = [failed EXCEPT ![r] = {}]
      /\ start' = [start EXCEPT ![r] = newest]
      /\ task' = task /\ past' = past
  BY DEF Begin, BeginHistory
<1> SUFFICES ASSUME NEW q \in Runners, task = "fees", Active(q)'
             PROVE  /\ SumIs(q)' /\ todo'[q] \cap failed'[q] = {}
                    /\ pc'[q] # "market" => todo'[q] = {}
  BY <1>1 DEF Totals
<1>2. CASE q # r
  <2>1. /\ pc'[q] = pc[q] /\ todo'[q] = todo[q] /\ total'[q] = total[q]
        /\ failed'[q] = failed[q] /\ start'[q] = start[q]
    BY <1>1, <1>2 DEF Types
  <2>2. Active(q)
    BY <2>1 DEF Active, Idle
  <2>3. SumIs(q) /\ todo[q] \cap failed[q] = {} /\ (pc[q] # "market" => todo[q] = {})
    BY <2>2 DEF Totals
  <2>4. Since(start[q])' = Since(start[q])
    BY <1>1, <2>1, SinceStays
  <2>5. SumIs(q)'
    BY <1>1, <2>1, <2>3, <2>4, SumStays
  <2>6. QED
    BY <2>1, <2>3, <2>5
<1>3. CASE q = r
  <2>1. /\ pc'[q] = "market" /\ todo'[q] = Markets /\ total'[q] = 0 /\ failed'[q] = {}
        /\ start'[q] = newest
    BY <1>1, <1>3 DEF Types, First
  <2>2. newest \in 1..newest /\ past[newest] \in Vectors(Domain)
    BY DEF Types, newest
  <2>3. past[newest] \in Vectors(Since(newest))
    <3>1. past[newest] = [x \in Reads |-> past[newest][x]]
      BY <2>2, VectorIs
    <3>2. \A x \in Reads : past[newest][x] \in Since(newest)[x]
      BY <2>2, SinceHas
    <3>3. QED
      BY <3>1, <3>2, VectorIs
  <2>4. Claimable(past[newest], {}) = 0
    BY SumOfNone DEF Claimable
  <2>5. Vectors(Since(start[q]))' = Vectors(Since(newest))
    <3>1. Reads' = Reads /\ Since(newest)' = Since(newest) /\ newest' = newest
      BY <1>1, SinceStays
    <3>2. Since(start[q])' = Since(newest)
      BY <1>1, <2>1, <3>1 DEF Since
    <3>3. QED
      BY <3>1, <3>2 DEF Vectors
  <2>6. total'[q] = Claimable(past[newest], Markets \ (todo'[q] \cup failed'[q]))
    <3>1. Markets \ (todo'[q] \cup failed'[q]) = {}
      BY <2>1
    <3>2. QED
      BY <2>1, <2>4, <3>1
  <2>7. SumIs(q)'
    <3>1. PICK v : v = past[newest]
      OBVIOUS
    <3>2. v \in Vectors(Since(start[q]))'
      BY <2>3, <2>5, <3>1
    <3>3. total'[q] = Claimable(v, Markets \ (todo'[q] \cup failed'[q]))
      BY <2>6, <3>1
    <3>4. QED
      BY <3>2, <3>3 DEF SumIs, Claimable
  <2>8. QED
    BY <2>1, <2>7
<1>4. QED
  BY <1>2, <1>3

\* A market more in the sum.
LEMMA SumAdds ==
    ASSUME task = "fees", Types, NEW a \in 1..newest, NEW v \in Vectors(Since(a)),
           NEW S \in SUBSET Markets, NEW m \in Markets \ S
    PROVE  \E w \in Vectors(Since(a)) :
              Claimable(w, S \cup {m}) = Claimable(v, S) + past[newest][m]
<1>1. IsFiniteSet(Markets) /\ Markets \subseteq Reads /\ \A x \in Markets : Domain[x] \subseteq Nat
  BY SharedGaugesAssumption, ReadsAre
<1>2. v = [x \in Reads |-> v[x]] /\ \A x \in Reads : v[x] \in Since(a)[x]
  BY VectorIs
<1>3. \A x \in Reads : /\ past[newest][x] \in Since(a)[x]
                       /\ Since(a)[x] \subseteq Domain[x]
  BY SinceHas
<1>4. PICK w : w = [x \in Reads |-> IF x = m THEN past[newest][m] ELSE v[x]]
  OBVIOUS
<1>5. w \in Vectors(Since(a))
  <2>1. w = [x \in Reads |-> w[x]] /\ \A x \in Reads : w[x] \in Since(a)[x]
    BY <1>2, <1>3, <1>4
  <2>2. QED
    BY <2>1, VectorIs
<1>6. PICK T : T = S \cup {m}
  OBVIOUS
<1>7. IsFiniteSet(T) /\ IsFiniteSet(S) /\ T \ {m} = S /\ m \in T
  BY <1>1, <1>6, FS_Subset
<1>8. (\A x \in T : w[x] \in Int) /\ \A x \in S : v[x] \in Nat /\ w[x] = v[x]
  BY <1>1, <1>2, <1>3, <1>4, <1>6
<1>9. SumFunctionOnSet(w, T) = w[m] + SumFunctionOnSet(w, S)
  BY <1>7, <1>8, SumTakes
<1>10. SumFunctionOnSet(v, S) = SumFunctionOnSet(w, S)
  BY <1>7, <1>8, SumSame
<1>11. SumFunctionOnSet(w, S) \in Int /\ w[m] \in Int
  BY <1>6, <1>7, <1>8, SumIsInt
<1>12. w[m] = past[newest][m]
  BY <1>1, <1>4
<1>13. QED
  BY <1>5, <1>6, <1>9, <1>10, <1>11, <1>12 DEF Claimable

LEMMA TotalsMarket ==
    ASSUME Types, Spans, Totals, NEW r \in Runners, ReadMarket(r)
    PROVE  Totals'
<1>1. PICK m \in todo[r] :
         /\ todo' = [todo EXCEPT ![r] = @ \ {m}]
         /\ pc' = IF todo[r] = {m} THEN [pc EXCEPT ![r] = After[@]] ELSE pc
         /\ \/ /\ total' = [total EXCEPT ![r] = @ + past[newest][m]]
               /\ failed' = failed
            \/ /\ failed' = [failed EXCEPT ![r] = @ \cup {m}]
               /\ total' = total
  BY DEF ReadMarket
<1>2. /\ Goes(r) /\ pc[r] = "market" /\ task = "fees" /\ Active(r)
      /\ start' = start /\ task' = task /\ past' = past
  BY AllGo, WhereMarket DEF ReadMarket, Goes
<1> SUFFICES ASSUME NEW q \in Runners, Active(q)'
             PROVE  /\ SumIs(q)' /\ todo'[q] \cap failed'[q] = {}
                    /\ pc'[q] # "market" => todo'[q] = {}
  BY <1>2 DEF Totals
<1>3. Active(q) /\ Since(start[q])' = Since(start[q]) /\ Reads' = Reads
  BY <1>2, GoesWhere, SinceStays
<1>4. SumIs(q) /\ todo[q] \cap failed[q] = {} /\ (pc[q] # "market" => todo[q] = {})
  BY <1>2, <1>3 DEF Totals
<1>5. CASE q # r
  <2>1. /\ pc'[q] = pc[q] /\ todo'[q] = todo[q] /\ total'[q] = total[q]
        /\ failed'[q] = failed[q]
    BY <1>1, <1>5 DEF Types
  <2>2. SumIs(q)'
    BY <1>2, <1>3, <1>4, <2>1, SumStays
  <2>3. QED
    BY <1>4, <2>1, <2>2
<1>6. CASE q = r
  <2>1. /\ todo'[q] \cap failed'[q] = {}
        /\ pc'[q] # "market" => todo'[q] = {}
    BY <1>1, <1>2, <1>4, <1>6 DEF Types
  <2>2. PICK v \in Vectors(Since(start[q])) :
           total[q] = Claimable(v, Markets \ (todo[q] \cup failed[q]))
    BY <1>4 DEF SumIs
  <2>3. Vectors(Since(start[q]))' = Vectors(Since(start[q]))
    BY <1>3 DEF Vectors
  <2>4. todo[q] \subseteq Markets /\ m \in Markets /\ m \in todo[q] /\ todo'[q] = todo[q] \ {m}
    BY <1>1, <1>6 DEF Types
  <2> DEFINE S == Markets \ (todo[q] \cup failed[q])
             S1 == Markets \ (todo'[q] \cup failed'[q])
  <2>5. \E w \in Vectors(Since(start[q])) : total'[q] = Claimable(w, S1)
    <3>1. CASE failed'[q] = failed[q] \cup {m} /\ total' = total
      <4>1. S1 = S
        BY <2>4, <3>1
      <4>2. QED
        BY <2>2, <3>1, <4>1
    <3>2. CASE failed' = failed /\ total'[q] = total[q] + past[newest][m]
      <4>1. S1 = S \cup {m} /\ m \in Markets \ S /\ S \in SUBSET Markets
        BY <1>4, <2>4, <3>2
      <4>2. start[q] \in 1..newest
        BY <1>3, StartIs
      <4>3. PICK w \in Vectors(Since(start[q])) :
               Claimable(w, S \cup {m}) = Claimable(v, S) + past[newest][m]
        <5>1. PICK a : a = start[q]
          OBVIOUS
        <5>2. a \in 1..newest /\ v \in Vectors(Since(a)) /\ m \in Markets \ S /\ S \in SUBSET Markets
          BY <2>2, <4>1, <4>2, <5>1
        <5> HIDE DEF S, S1
        <5>3. \E w \in Vectors(Since(a)) :
                 Claimable(w, S \cup {m}) = Claimable(v, S) + past[newest][m]
          BY <1>2, <5>2, SumAdds, SMTT(30)
        <5> QED
          BY <5>1, <5>3
      <4>4. QED
        BY <2>2, <3>2, <4>1, <4>3
    <3>3. QED
      <4>1. \/ failed'[q] = failed[q] \cup {m} /\ total' = total
            \/ failed' = failed /\ total'[q] = total[q] + past[newest][m]
        BY <1>1, <1>6 DEF Types
      <4>2. QED
        BY <3>1, <3>2, <4>1
  <2>6. SumIs(q)'
    BY <2>3, <2>5 DEF SumIs, Claimable
  <2>7. QED
    BY <2>1, <2>6
<1>7. QED
  BY <1>5, <1>6

LEMMA TotalsGo ==
    ASSUME Types, Totals, NEW r \in Runners, Read(r) \/ Fail(r) \/ Set(r)
    PROVE  Totals'
<1>1. Goes(r) /\ todo' = todo /\ total' = total /\ task' = task /\ past' = past /\ start' = start
  BY AllGo DEF Read, Fail, Set, Goes
<1>2. Active(r)' => failed' = failed
  BY DEF Read, Fail, Set, Types, Active, Idle
<1>3. \A q \in Runners \ {r} : failed'[q] = failed[q]
  BY DEF Read, Fail, Set, Types
<1>4. Active(r)' => pc[r] # "market"
  BY DEF Read, Fail, Set, Names
<1> SUFFICES ASSUME NEW q \in Runners, task = "fees", Active(q)'
             PROVE  /\ SumIs(q)' /\ todo'[q] \cap failed'[q] = {}
                    /\ pc'[q] # "market" => todo'[q] = {}
  BY <1>1 DEF Totals
<1>5. Active(q) /\ Since(start[q])' = Since(start[q]) /\ failed'[q] = failed[q]
  BY <1>1, <1>2, <1>3, GoesWhere, SinceStays
<1>6. SumIs(q) /\ todo[q] \cap failed[q] = {} /\ (pc[q] # "market" => todo[q] = {})
  BY <1>5 DEF Totals
<1>7. SumIs(q)'
  BY <1>1, <1>5, <1>6, SumStays
<1>8. pc'[q] # "market" => todo'[q] = {}
  BY <1>1, <1>4, <1>6, GoesWhere
<1>9. QED
  BY <1>1, <1>5, <1>6, <1>7, <1>8

-----------------------------------------------------------------------------
(* Gauges that fit go on to fit.                                            *)

\* The Run of r, and the gauge g, keep what they have.
Kept(r) ==
    /\ task' = task
    /\ lost[r] \subseteq lost'[r]
    /\ \A x \in Reads : Span(r)[x] \subseteq Span(r)'[x]
KeptGauge(g) == g \in DOMAIN shown => g \in DOMAIN shown' /\ shown'[g] = shown[g]

LEMMA VectorsKept ==
    ASSUME NEW r \in Runners, Kept(r)
    PROVE  Vectors(Span(r)) \subseteq Vectors(Span(r))'
<1>1. Reads' = Reads
  BY DEF Kept, Reads
<1>2. PICK S : S = Span(r)
  OBVIOUS
<1>3. PICK T : T = Span(r)'
  OBVIOUS
<1>4. Vectors(S) \subseteq Vectors(T)
  BY <1>2, <1>3, VectorsGrow DEF Kept
<1>5. Vectors(Span(r))' = Vectors(T)
  BY <1>1, <1>3 DEF Vectors
<1>6. QED
  BY <1>2, <1>4, <1>5

LEMMA FitStays ==
    ASSUME NEW r \in Runners, Kept(r)
    PROVE  /\ KeptGauge("total") /\ TotalFits(r) => TotalFits(r)'
           /\ KeptGauge("gap") /\ GapFits(r) => GapFits(r)'
           /\ KeptGauge("ratio") /\ RatioFits(r) => RatioFits(r)'
           /\ KeptGauge("age") /\ AgeFits(r) => AgeFits(r)'
<1>1. /\ Vectors(Span(r)) \subseteq Vectors(Span(r))'
      /\ SUBSET lost[r] \subseteq SUBSET lost'[r]
  BY VectorsKept DEF Kept
<1>2. ASSUME KeptGauge("total"), TotalFits(r) PROVE TotalFits(r)'
  BY <1>1, <1>2, Zenon DEF TotalFits, KeptGauge, Shows, Claimable
<1>3. ASSUME KeptGauge("gap"), GapFits(r) PROVE GapFits(r)'
  BY <1>1, <1>3, Zenon DEF GapFits, KeptGauge, Shows, Claimable
<1>4. ASSUME KeptGauge("ratio"), RatioFits(r) PROVE RatioFits(r)'
  BY <1>1, <1>4, Zenon DEF RatioFits, KeptGauge, Shows, Magnitude, Distance
<1>5. ASSUME KeptGauge("age"), AgeFits(r) PROVE AgeFits(r)'
  BY <1>1, <1>5, Zenon DEF AgeFits, KeptGauge, Shows
<1>6. QED
  BY <1>2, <1>3, <1>4, <1>5

\* If nothing is set, and the Run of r stays where it is, what fits it does still.
LEMMA FitsStays ==
    ASSUME NEW r \in Runners, Kept(r), shown' = shown, pc'[r] = pc[r], failed'[r] = failed[r],
           Fits(r)
    PROVE  Fits(r)'
<1>1. /\ KeptGauge("total") /\ KeptGauge("gap") /\ KeptGauge("ratio") /\ KeptGauge("age")
      /\ task' = task
  BY DEF KeptGauge, Kept
<1>2. QED
  BY <1>1, FitStays DEF Fits

LEMMA GoesKept ==
    ASSUME Types, NEW r \in Runners, ReadMarket(r) \/ Read(r) \/ Fail(r) \/ Set(r)
    PROVE  \A q \in Runners : Kept(q)
<1>1. Goes(r)
  BY AllGo
<1>2. task' = task /\ past' = past /\ floor' = floor
  BY <1>1 DEF Goes
<1>3. newest' = newest /\ Reads' = Reads
  BY <1>2, SinceStays
<1>4. \A q \in Runners : Span(q)' = Span(q)
  BY <1>2, <1>3 DEF Span
<1>5. \A q \in Runners : lost[q] \subseteq lost'[q]
  BY LostGrows
<1>6. QED
  BY <1>2, <1>4, <1>5 DEF Kept

LEMMA FitBegin ==
    ASSUME Types, AllFit, NEW r \in Runners, Begin(r)
    PROVE  AllFit'
<1>1. /\ pc' = [pc EXCEPT ![r] = First[task]]
      /\ failed' = [failed EXCEPT ![r] = {}]
      /\ floor' = [floor EXCEPT ![r] = Oldest]
      /\ lost' = [lost EXCEPT ![r] = UNION {failed[q] \cap Markets : q \in Busy}]
      /\ task' = task /\ past' = past /\ shown' = shown
  BY DEF Begin, BeginHistory, Oldest
<1> SUFFICES ASSUME NEW q \in Runners PROVE Fits(q)'
  BY DEF AllFit
<1>2. CASE q = r
  <2>1. pc'[q] = First[task] /\ task \in {"fees", "funding", "chainlink"}
    BY <1>1, <1>2 DEF Types
  <2>2. First["fees"] = "market" /\ First["funding"] = "long" /\ First["chainlink"] = "now"
    BY DEF First
  <2>3. QED
    BY <1>1, <2>1, <2>2 DEF Fits
<1>3. CASE q # r
  <2>1. pc'[q] = pc[q] /\ failed'[q] = failed[q] /\ floor'[q] = floor[q] /\ lost'[q] = lost[q]
    BY <1>1, <1>3 DEF Types
  <2>2. newest' = newest /\ Reads' = Reads
    BY <1>1, SinceStays
  <2>3. Span(q)' = Span(q)
    BY <1>1, <2>1, <2>2 DEF Span
  <2>4. Kept(q)
    BY <1>1, <2>1, <2>3 DEF Kept
  <2>5. QED
    BY <1>1, <2>1, <2>4, FitsStays DEF AllFit
<1>4. QED
  BY <1>2, <1>3

LEMMA FitMarket ==
    ASSUME Types, AllFit, NEW r \in Runners, ReadMarket(r)
    PROVE  AllFit'
<1> SUFFICES ASSUME NEW q \in Runners PROVE Fits(q)'
  BY DEF AllFit
<1>1. Goes(r) /\ Kept(q) /\ shown' = shown /\ task' = task /\ task = "fees"
  BY AllGo, GoesKept, WhereMarket DEF ReadMarket
<1>2. CASE q # r
  <2>1. failed'[q] = failed[q]
    BY <1>2 DEF ReadMarket, Types
  <2>2. QED
    BY <1>1, <1>2, <2>1, FitsStays DEF AllFit, Goes
<1>3. CASE q = r
  <2>1. pc'[r] \in {"market", After["market"]}
    BY DEF ReadMarket, Types
  <2>2. After["market"] = "setTotal"
    BY DEF After
  <2>3. QED
    BY <1>1, <1>3, <2>1, <2>2 DEF Fits
<1>4. QED
  BY <1>2, <1>3

LEMMA FitRead ==
    ASSUME Types, AllFit, NEW r \in Runners, Read(r)
    PROVE  AllFit'
<1> SUFFICES ASSUME NEW q \in Runners PROVE Fits(q)'
  BY DEF AllFit
<1>1. Goes(r) /\ Kept(q) /\ shown' = shown /\ task' = task /\ failed' = failed
  BY AllGo, GoesKept DEF Read
<1>2. CASE q # r
  BY <1>1, <1>2, FitsStays DEF AllFit, Goes
<1>3. CASE q = r
  <2>1. /\ pc'[r] = After[pc[r]] /\ After[pc[r]] # "over"
        /\ task = "fees" => pc[r] = "bank"
    BY WhereRead DEF Read, Types
  <2>2. KeptGauge("total")
    BY <1>1 DEF KeptGauge
  <2>3. task = "fees" => TotalFits(r)
    BY <2>1 DEF AllFit, Fits
  <2>4. task = "fees" => TotalFits(r)'
    BY <1>1, <1>3, <2>2, <2>3, FitStays
  <2>5. QED
    BY <1>1, <1>3, <2>1, <2>4 DEF Fits
<1>4. QED
  BY <1>2, <1>3

LEMMA FitFail ==
    ASSUME Types, AllFit, NEW r \in Runners, Fail(r)
    PROVE  AllFit'
<1> SUFFICES ASSUME NEW q \in Runners PROVE Fits(q)'
  BY DEF AllFit
<1>1. Goes(r) /\ Kept(q) /\ shown' = shown /\ task' = task
  BY AllGo, GoesKept DEF Fail
<1>2. CASE q # r
  <2>1. failed'[q] = failed[q]
    BY <1>2 DEF Fail, Types
  <2>2. QED
    BY <1>1, <1>2, <2>1, FitsStays DEF AllFit, Goes
<1>3. CASE q = r
  <2>1. /\ pc'[r] = "over" /\ pc[r] \in failed'[r]
        /\ task = "fees" => pc[r] = "bank"
    BY WhereRead DEF Fail, Types
  <2>2. KeptGauge("total")
    BY <1>1 DEF KeptGauge
  <2>3. task = "fees" => TotalFits(r)
    BY <2>1 DEF AllFit, Fits
  <2>4. task = "fees" => TotalFits(r)'
    BY <1>1, <1>3, <2>2, <2>3, FitStays
  <2>5. QED
    BY <1>1, <1>3, <2>1, <2>4 DEF Fits
<1>4. QED
  BY <1>2, <1>3

-----------------------------------------------------------------------------
(* What a Run sets fits itself and every Run that there has been.           *)

LEMMA ShowIs ==
    ASSUME NEW g, NEW w, Show(g, w)
    PROVE  /\ g \in DOMAIN shown' /\ shown'[g] = w
           /\ \A h : h # g => KeptGauge(h)
  BY DEF Show, KeptGauge

\* A value since the start of an active Run is one in the span of any other.
LEMMA VectorsFit ==
    ASSUME Types, Spans, NEW r \in Runners, Active(r),
           NEW p \in Runners, pc[p] # "never"
    PROVE  Vectors(Since(start[r])) \subseteq Vectors(Span(p))
<1>1. floor[p] \in Nat /\ start[r] \in Nat /\ floor[p] <= start[r]
  BY DEF Types, Spans
<1>2. PICK a \in Nat : a = floor[p]
  BY <1>1
<1>3. PICK b \in Nat : b = start[r]
  BY <1>1
<1>4. \A x \in Reads : Since(b)[x] \subseteq Since(a)[x]
  BY <1>1, <1>2, <1>3, OlderSpan
<1>5. Vectors(Since(b)) \subseteq Vectors(Since(a))
  BY <1>4, VectorsGrow
<1>6. QED
  BY <1>2, <1>3, <1>5, SpanSince

\* What is fixed while the Run of r sets a gauge.
LEMMA SetKeeps ==
    ASSUME Types, Spans, NEW r \in Runners, Set(r), NEW p \in Runners, pc[p] # "never"
    PROVE  /\ Active(r) /\ lost'[p] = lost[p] /\ task' = task
           /\ Vectors(Since(start[r])) \subseteq Vectors(Span(p))'
           /\ failed[r] \cap Markets \subseteq lost[p]
<1>1. Goes(r) /\ Kept(p) /\ lost' = lost /\ Active(r)
  BY AllGo, GoesKept DEF Set, history, Goes
<1>2. Vectors(Since(start[r])) \subseteq Vectors(Span(p))
  BY <1>1, VectorsFit
<1>3. Vectors(Span(p)) \subseteq Vectors(Span(p))'
  BY <1>1, VectorsKept
<1>4. failed[r] \cap Markets \subseteq lost[p]
  BY <1>1 DEF Spans
<1>5. QED
  BY <1>1, <1>2, <1>3, <1>4 DEF Kept

LEMMA TotalSet ==
    ASSUME Inv, NEW r \in Runners, Set(r), pc[r] = "setTotal",
           NEW p \in Runners, pc[p] # "never"
    PROVE  TotalFits(p)' /\ \A g : g # "total" => KeptGauge(g)
<1>1. Show("total", total[r])
  BY DEF Set
<1>2. Shows("total", total[r])' /\ \A g : g # "total" => KeptGauge(g)
  <2>1. PICK w : w = total[r]
    OBVIOUS
  <2>2. Show("total", w)
    BY <1>1, <2>1
  <2>3. /\ "total" \in DOMAIN shown' /\ shown'["total"] = w
        /\ \A g : g # "total" => KeptGauge(g)
    BY <2>2, ShowIs
  <2>4. total' = total
    BY DEF Set
  <2>5. QED
    BY <2>1, <2>3, <2>4 DEF Shows
<1>3. /\ Active(r) /\ lost'[p] = lost[p] /\ task = "fees" /\ total' = total
      /\ Vectors(Since(start[r])) \subseteq Vectors(Span(p))'
      /\ failed[r] \cap Markets \subseteq lost[p]
  BY SetKeeps, WhereSet DEF Inv, Set, Setting
<1>4. SumIs(r) /\ todo[r] = {}
  BY <1>3 DEF Inv, Totals
<1>5. PICK v \in Vectors(Since(start[r])) : total[r] = Claimable(v, Markets \ (todo[r] \cup failed[r]))
  BY <1>4 DEF SumIs
<1>6. PICK L : L = failed[r] \cap Markets
  OBVIOUS
<1>7. Markets \ (todo[r] \cup failed[r]) = Markets \ L /\ L \in SUBSET lost'[p]
  BY <1>3, <1>4, <1>6
<1>8. v \in Vectors(Span(p))' /\ total[r] = Claimable(v, Markets \ L)
  BY <1>3, <1>5, <1>7
<1>9. Shows("total", Claimable(v, Markets \ L))'
  BY <1>2, <1>3, <1>8 DEF Shows, Claimable
<1>10. QED
  BY <1>2, <1>7, <1>8, <1>9 DEF TotalFits

LEMMA GapSet ==
    ASSUME Inv, NEW r \in Runners, Set(r), pc[r] = "setGap",
           NEW p \in Runners, pc[p] # "never"
    PROVE  GapFits(p)' /\ \A g : g # "gap" => KeptGauge(g)
<1>1. Show("gap", total[r] - got[r]["bank"])
  BY DEF Set
<1>2. /\ "gap" \in DOMAIN shown' /\ shown'["gap"] = total[r] - got[r]["bank"]
      /\ \A g : g # "gap" => KeptGauge(g)
  <2>1. PICK w : w = total[r] - got[r]["bank"]
    OBVIOUS
  <2>2. Show("gap", w)
    BY <1>1, <2>1
  <2>3. QED
    BY <2>1, <2>2, ShowIs
<1>3. /\ Active(r) /\ lost'[p] = lost[p] /\ task = "fees"
      /\ Vectors(Since(start[r])) \subseteq Vectors(Span(p))'
      /\ failed[r] \cap Markets \subseteq lost[p]
  BY SetKeeps, WhereSet DEF Inv, Setting
<1>4. SumIs(r) /\ todo[r] = {}
  BY <1>3 DEF Inv, Totals
<1>5. PICK v \in Vectors(Since(start[r])) : total[r] = Claimable(v, Markets \ (todo[r] \cup failed[r]))
  BY <1>4 DEF SumIs
<1>6. PICK L : L = failed[r] \cap Markets
  OBVIOUS
<1>7. Markets \ (todo[r] \cup failed[r]) = Markets \ L /\ L \in SUBSET lost'[p]
  BY <1>3, <1>4, <1>6
<1>8. PICK b : b = got[r]["bank"]
  OBVIOUS
<1>9. b \in Since(start[r])["bank"]
  <2>1. HasAt["setGap"] = {"bank"}
    BY DEF HasAt
  <2>2. QED
    BY <1>3, <1>8, <2>1 DEF Inv, Answers
<1>10. /\ Reads = Markets \cup {"bank"} /\ "bank" \notin Markets
       /\ IsFiniteSet(Markets) /\ \A x \in Markets : Domain[x] \subseteq Nat
  BY <1>3, ReadsAre, SharedGaugesAssumption DEF Inv, Types, Names
<1>11. PICK w : w = [x \in Reads |-> IF x = "bank" THEN b ELSE v[x]]
  OBVIOUS
<1>12. v = [x \in Reads |-> v[x]] /\ \A x \in Reads : v[x] \in Since(start[r])[x]
  BY VectorIs
<1>13. w \in Vectors(Since(start[r]))
  <2>1. w = [x \in Reads |-> w[x]] /\ \A x \in Reads : w[x] \in Since(start[r])[x]
    BY <1>9, <1>11, <1>12
  <2>2. QED
    BY <2>1, VectorIs
<1>14. Claimable(v, Markets \ L) = Claimable(w, Markets \ L)
  <2>1. PICK a : a = start[r]
    OBVIOUS
  <2>2. a \in 1..newest
    BY <1>3, <2>1, StartIs DEF Inv
  <2>3. \A x \in Reads : Since(a)[x] \subseteq Domain[x]
    BY <2>2, SinceHas DEF Inv
  <2>4. \A x \in Markets \ L : v[x] \in Nat /\ w[x] = v[x]
    BY <1>10, <1>11, <1>12, <2>1, <2>3
  <2>5. IsFiniteSet(Markets \ L)
    BY <1>10, FS_Subset
  <2>6. SumFunctionOnSet(v, Markets \ L) = SumFunctionOnSet(w, Markets \ L)
    BY <2>4, <2>5, SumSame
  <2>7. QED
    BY <2>6 DEF Claimable
<1>15. w["bank"] = b /\ w \in Vectors(Span(p))'
  BY <1>3, <1>10, <1>11, <1>13
<1>16. shown'["gap"] = Claimable(w, Markets \ L) - w["bank"]
  BY <1>2, <1>5, <1>7, <1>8, <1>14, <1>15
<1>17. Shows("gap", Claimable(w, Markets \ L) - w["bank"])'
  BY <1>2, <1>16 DEF Shows, Claimable
<1>18. QED
  BY <1>2, <1>7, <1>15, <1>17 DEF GapFits

\* The answers of a Run that has them all.
LEMMA GotFits ==
    ASSUME Inv, NEW r \in Runners, Active(r), Reads \subseteq HasAt[pc[r]]
    PROVE  got[r] \in Vectors(Since(start[r]))
<1>1. got[r] = [x \in Reads |-> got[r][x]]
  BY DEF Inv, Types
<1>2. \A x \in Reads : got[r][x] \in Since(start[r])[x]
  BY DEF Inv, Answers
<1>3. QED
  BY <1>1, <1>2, VectorIs

LEMMA RatioSet ==
    ASSUME Inv, NEW r \in Runners, Set(r), pc[r] = "setRatio",
           NEW p \in Runners, pc[p] # "never"
    PROVE  RatioFits(p)' /\ \A g : g # "ratio" => KeptGauge(g)
<1>1. /\ Active(r) /\ task = "funding"
      /\ Vectors(Since(start[r])) \subseteq Vectors(Span(p))'
  BY SetKeeps, WhereSet DEF Inv, Setting
<1>2. Reads = {"long", "short"}
  BY <1>1, ReadsAre DEF Inv, Types
<1>3. HasAt["setRatio"] = {"long", "short"}
  BY DEF HasAt
<1>4. PICK v : v = got[r]
  OBVIOUS
<1>5. v \in Vectors(Span(p))'
  BY <1>1, <1>2, <1>3, <1>4, GotFits
<1>6. v["long"] \in Int /\ v["short"] \in Int
  BY <1>2, <1>4 DEF Inv, Types
<1>7. /\ AbsSub(v["long"], v["short"]) = Distance(v)
      /\ AbsMax(v["long"], v["short"]) = Magnitude(v) /\ Magnitude(v) \in Nat
  BY <1>6, AbsSubIsDistance, AbsMaxIsMagnitude
<1>8. \/ Magnitude(v) > 0 /\ Show("ratio", <<Distance(v), Magnitude(v)>>)
      \/ Magnitude(v) = 0 /\ shown' = shown
  BY <1>4, <1>7 DEF Set
<1>9. CASE Magnitude(v) > 0 /\ Show("ratio", <<Distance(v), Magnitude(v)>>)
  <2>1. PICK w : w = <<Distance(v), Magnitude(v)>>
    OBVIOUS
  <2>2. /\ "ratio" \in DOMAIN shown' /\ shown'["ratio"] = w
        /\ \A g : g # "ratio" => KeptGauge(g)
    BY <1>9, <2>1, ShowIs
  <2>3. QED
    BY <1>5, <2>1, <2>2, Zenon DEF RatioFits, Shows, Distance, Magnitude
<1>10. CASE Magnitude(v) = 0 /\ shown' = shown
  BY <1>5, <1>10 DEF RatioFits, KeptGauge, Magnitude
<1>11. QED
  BY <1>8, <1>9, <1>10

LEMMA AgeSet ==
    ASSUME Inv, NEW r \in Runners, Set(r), pc[r] = "setAge",
           NEW p \in Runners, pc[p] # "never"
    PROVE  AgeFits(p)' /\ \A g : g # "age" => KeptGauge(g)
<1>1. /\ Active(r) /\ task = "chainlink"
      /\ Vectors(Since(start[r])) \subseteq Vectors(Span(p))'
  BY SetKeeps, WhereSet DEF Inv, Setting
<1>2. Reads = {"now", "updated"}
  BY <1>1, ReadsAre DEF Inv, Types
<1>3. HasAt["setAge"] = {"now", "updated"}
  BY DEF HasAt
<1>4. PICK v : v = got[r]
  OBVIOUS
<1>5. v \in Vectors(Since(start[r])) /\ v \in Vectors(Span(p))'
  BY <1>1, <1>2, <1>3, <1>4, GotFits
<1>6. Word \in Nat \ {0} /\ v["now"] \in 0..(Word - 1) /\ v["updated"] \in 0..(Word - 1)
  <2>1. PICK a : a = start[r]
    OBVIOUS
  <2>2. a \in 1..newest
    BY <1>1, <2>1, StartIs DEF Inv
  <2>3. \A x \in Reads : Since(a)[x] \subseteq Domain[x]
    BY <2>2, SinceHas DEF Inv
  <2>4. \A x \in Reads : v[x] \in Since(a)[x]
    BY <1>5, <2>1, VectorIs
  <2>5. QED
    BY <1>2, <2>3, <2>4, SharedGaugesAssumption
<1>7. FeedAge(v["now"], v["updated"]) = Max({0, v["now"] - v["updated"]})
  BY <1>6, FeedAgeMax
<1>8. Show("age", Max({0, v["now"] - v["updated"]}))
  BY <1>4, <1>7 DEF Set
<1>9. PICK w : w = Max({0, v["now"] - v["updated"]})
  OBVIOUS
<1>10. /\ "age" \in DOMAIN shown' /\ shown'["age"] = w
       /\ \A g : g # "age" => KeptGauge(g)
  BY <1>8, <1>9, ShowIs
<1>11. QED
  BY <1>5, <1>9, <1>10, Zenon DEF AgeFits, Shows

LEMMA FitSet ==
    ASSUME Inv, NEW r \in Runners, Set(r)
    PROVE  AllFit'
<1> SUFFICES ASSUME NEW p \in Runners PROVE Fits(p)'
  BY DEF AllFit
<1>1. /\ Goes(r) /\ Kept(p) /\ task' = task /\ failed' = failed
      /\ pc' = [pc EXCEPT ![r] = After[@]] /\ r \in DOMAIN pc
  BY AllGo, GoesKept DEF Set, Inv, Types
<1>2. CASE pc[p] = "never"
  <2>1. p # r
    BY <1>1, <1>2 DEF Goes, Active, Idle
  <2>2. pc'[p] = "never"
    BY <1>1, <1>2, <2>1
  <2>3. QED
    BY <2>2 DEF Fits
<1>3. CASE pc[p] # "never"
  <2>1. Fits(p) /\ pc[r] \in Setting /\ pc'[r] = After[pc[r]] /\ \A q \in Runners \ {r} : pc'[q] = pc[q]
    BY <1>1 DEF Inv, AllFit, Set, Setting
  <2>2. /\ After["setTotal"] = "bank" /\ After["setGap"] = "over" /\ After["setLong"] = "setShort"
        /\ After["setShort"] = "setRatio" /\ After["setRatio"] = "over" /\ After["setAge"] = "over"
    BY DEF After
  <2>3. CASE pc[r] = "setTotal"
    <3>1. task = "fees"
      BY <2>1, <2>3, WhereSet DEF Inv
    <3>2. TotalFits(p)' /\ KeptGauge("gap")
      BY <1>3, <2>3, TotalSet
    <3>3. pc'[p] = "over" => pc[p] = "over"
      BY <2>1, <2>2, <2>3
    <3>4. GapFits(p) => GapFits(p)'
      BY <1>1, <3>2, FitStays
    <3>5. QED
      BY <1>1, <2>1, <3>1, <3>2, <3>3, <3>4 DEF Fits
  <2>4. CASE pc[r] = "setGap"
    <3>1. task = "fees"
      BY <2>1, <2>4, WhereSet DEF Inv
    <3>2. GapFits(p)' /\ KeptGauge("total")
      BY <1>3, <2>4, GapSet
    <3>3. pc'[p] \in {"bank", "setGap", "over"} => pc[p] \in {"bank", "setGap", "over"}
      BY <2>1, <2>2, <2>4
    <3>4. TotalFits(p) => TotalFits(p)'
      BY <1>1, <3>2, FitStays
    <3>5. QED
      BY <1>1, <2>1, <3>1, <3>2, <3>3, <3>4 DEF Fits
  <2>5. CASE pc[r] \in {"setLong", "setShort"}
    <3>1. task = "funding"
      BY <2>1, <2>5, WhereSet DEF Inv
    <3>2. KeptGauge("ratio")
      <4>1. Show("long", got[r]["long"]) \/ Show("short", got[r]["short"])
        BY <2>5 DEF Set
      <4>2. QED
        BY <4>1, ShowIs
    <3>3. pc'[p] = "over" => pc[p] = "over"
      BY <2>1, <2>2, <2>5
    <3>4. RatioFits(p) => RatioFits(p)'
      BY <1>1, <3>2, FitStays
    <3>5. QED
      BY <1>1, <2>1, <3>1, <3>3, <3>4 DEF Fits
  <2>6. CASE pc[r] = "setRatio"
    <3>1. task = "funding" /\ RatioFits(p)'
      BY <1>3, <2>1, <2>6, WhereSet, RatioSet DEF Inv
    <3>2. QED
      BY <1>1, <3>1 DEF Fits
  <2>7. CASE pc[r] = "setAge"
    <3>1. task = "chainlink" /\ AgeFits(p)'
      BY <1>3, <2>1, <2>7, WhereSet, AgeSet DEF Inv
    <3>2. QED
      BY <1>1, <3>1 DEF Fits
  <2>8. QED
    BY <2>1, <2>3, <2>4, <2>5, <2>6, <2>7 DEF Setting
<1>4. QED
  BY <1>2, <1>3

-----------------------------------------------------------------------------
(* The invariant holds.                                                     *)

LEMMA InvNewBlock ==
    ASSUME Inv, NewBlock
    PROVE  Spans' /\ Answers' /\ Totals' /\ AllFit'
<1>1. /\ task' = task /\ pc' = pc /\ todo' = todo /\ got' = got /\ total' = total
      /\ failed' = failed /\ shown' = shown /\ start' = start /\ floor' = floor
      /\ lost' = lost
  BY DEF NewBlock, code, history
<1>2. PICK v \in Vectors(Domain) : past' = Append(past, v)
  BY DEF NewBlock
<1>3. Reads' = Reads
  BY <1>1 DEF Reads
<1>4. ASSUME NEW a \in Nat, a >= 1
      PROVE  \A x \in Reads : Since(a)[x] \subseteq Since(a)'[x]
  BY <1>1, <1>2, <1>4, SinceGrows DEF Inv
<1>5. Spans'
  BY <1>1 DEF Inv, Spans, Active
<1>6. ASSUME NEW q \in Runners, Active(q)
      PROVE  \A x \in Reads : Since(start[q])[x] \subseteq Since(start[q])'[x]
  <2>1. PICK a : a = start[q]
    OBVIOUS
  <2>2. a \in Nat /\ a >= 1
    BY <1>6, <2>1, StartIs DEF Inv
  <2>3. Since(start[q]) = Since(a) /\ Since(start[q])' = Since(a)'
    BY <1>1, <2>1 DEF Since
  <2>4. QED
    BY <1>4, <2>2, <2>3
<1>7. Answers'
  <2> SUFFICES ASSUME NEW q \in Runners, Active(q)', NEW x \in HasAt[pc'[q]]
               PROVE  got'[q][x] \in Since(start[q])'[x]
    BY DEF Answers, HasAt
  <2>1. Active(q) /\ got[q][x] \in Since(start[q])[x] /\ x \in HasAt[pc[q]]
    BY <1>1 DEF Inv, Answers, Active
  <2>2. x \in Reads
    <3>1. pc[q] \in StepsOf[task] /\ task \in {"fees", "funding", "chainlink"}
      BY <2>1, StepsAre DEF Inv, Types
    <3>2. /\ StepsOf["fees"] = {"market", "setTotal", "bank", "setGap"}
          /\ StepsOf["funding"] = {"long", "short", "setLong", "setShort", "setRatio"}
          /\ StepsOf["chainlink"] = {"now", "updated", "setAge"}
      BY DEF StepsOf
    <3>3. /\ \A c \in {"market", "setTotal", "bank", "setGap"} : HasAt[c] \subseteq {"bank"}
          /\ \A c \in {"long", "short", "setLong", "setShort", "setRatio"} :
                HasAt[c] \subseteq {"long", "short"}
          /\ \A c \in {"now", "updated", "setAge"} : HasAt[c] \subseteq {"now", "updated"}
      BY DEF HasAt
    <3>4. QED
      BY <2>1, <3>1, <3>2, <3>3, ReadsAre
  <2>3. QED
    BY <1>1, <1>6, <2>1, <2>2
<1>8. Totals'
  <2> SUFFICES ASSUME NEW q \in Runners, task = "fees", Active(q)'
               PROVE  /\ SumIs(q)' /\ todo'[q] \cap failed'[q] = {}
                      /\ pc'[q] # "market" => todo'[q] = {}
    BY <1>1 DEF Totals
  <2>1. Active(q)
    BY <1>1 DEF Active
  <2>2. /\ SumIs(q) /\ todo[q] \cap failed[q] = {}
        /\ pc[q] # "market" => todo[q] = {}
    BY <2>1 DEF Inv, Totals
  <2>3. SumIs(q)'
    BY <1>1, <1>6, <2>1, <2>2, SumStays
  <2>4. QED
    BY <1>1, <2>2, <2>3
<1>9. AllFit'
  <2> SUFFICES ASSUME NEW q \in Runners PROVE Fits(q)'
    BY DEF AllFit
  <2>1. PICK a : a = floor[q]
    OBVIOUS
  <2>2. a \in Nat /\ a >= 1
    BY <2>1 DEF Inv, Types
  <2>3. Span(q) = Since(a) /\ Span(q)' = Since(a)'
    BY <1>1, <2>1, SpanSince DEF Since, Span
  <2>4. Kept(q)
    BY <1>1, <1>4, <2>2, <2>3 DEF Kept
  <2>5. QED
    BY <1>1, <2>4, FitsStays DEF Inv, AllFit
<1>10. QED
  BY <1>5, <1>7, <1>8, <1>9

LEMMA InvInit == ASSUME Init PROVE Inv
<1>1. Types
  BY TypesInit
<1>2. \A r \in Runners : pc[r] = "never"
  BY DEF Init
<1>3. QED
  BY <1>1, <1>2 DEF Inv, Spans, Answers, Totals, AllFit, Fits, Active, Idle

LEMMA InvStep == ASSUME Inv, [Next]_vars PROVE Inv'
<1>1. Types /\ Spans /\ Answers /\ Totals /\ AllFit /\ Types'
  BY TypesStep DEF Inv
<1>2. CASE NewBlock
  BY <1>1, <1>2, InvNewBlock DEF Inv
<1>3. ASSUME NEW r \in Runners, Begin(r) PROVE Inv'
  BY <1>1, <1>3, SpansBegin, AnswersBegin, TotalsBegin, FitBegin DEF Inv
<1>4. ASSUME NEW r \in Runners, ReadMarket(r) PROVE Inv'
  BY <1>1, <1>4, SpansGo, AnswersGo, TotalsMarket, FitMarket DEF Inv
<1>5. ASSUME NEW r \in Runners, Read(r) PROVE Inv'
  BY <1>1, <1>5, SpansGo, AnswersRead, TotalsGo, FitRead DEF Inv
<1>6. ASSUME NEW r \in Runners, Fail(r) PROVE Inv'
  BY <1>1, <1>6, SpansGo, AnswersGo, TotalsGo, FitFail DEF Inv
<1>7. ASSUME NEW r \in Runners, Set(r) PROVE Inv'
  <2>1. AllFit'
    BY <1>7, FitSet
  <2>2. QED
    BY <1>1, <1>7, <2>1, SpansGo, AnswersGo, TotalsGo DEF Inv
<1>8. CASE UNCHANGED vars
  <2>1. /\ task' = task /\ past' = past /\ pc' = pc /\ todo' = todo /\ got' = got
        /\ total' = total /\ failed' = failed /\ shown' = shown /\ start' = start
        /\ floor' = floor /\ lost' = lost
    BY <1>8 DEF vars, code, history
  <2>2. Reads' = Reads /\ newest' = newest
    BY <2>1, SinceStays
  <2>3. Spans'
    BY <1>1, <2>1 DEF Spans, Active
  <2>4. Answers'
    <3> SUFFICES ASSUME NEW q \in Runners, Active(q)', NEW x \in HasAt[pc'[q]]
                 PROVE  got'[q][x] \in Since(start[q])'[x]
      BY DEF Answers, HasAt
    <3>1. got[q][x] \in Since(start[q])[x]
      BY <1>1, <2>1 DEF Answers, Active
    <3>2. QED
      BY <2>1, <3>1, SinceStays
  <2>5. Totals'
    <3>1. \A q \in Runners : SumIs(q) => SumIs(q)'
      BY <2>1, SinceStays, SumStays
    <3>2. QED
      BY <1>1, <2>1, <3>1 DEF Totals, Active
  <2>6. AllFit'
    <3>1. \A q \in Runners : Kept(q)
      BY <2>1, <2>2 DEF Kept, Span
    <3>2. QED
      BY <1>1, <2>1, <3>1, FitsStays DEF AllFit
  <2>7. QED
    BY <1>1, <2>3, <2>4, <2>5, <2>6 DEF Inv
<1>9. QED
  BY <1>2, <1>3, <1>4, <1>5, <1>6, <1>7, <1>8 DEF Next

THEOREM Invariant == Spec => []Inv
<1>1. Init => Inv
  BY InvInit
<1>2. Inv /\ [Next]_vars => Inv'
  BY InvStep
<1>3. QED
  BY <1>1, <1>2, PTL DEF Spec

\* fee.go, funding.go, chainlink.go: whatever Sets of other loops lie between its own, what
\* the gauges show when a Run is over comes from reads of this Run and of those that it
\* overlaps, and never from an older one.
THEOREM GaugesOfRuns == Spec => []ShownOfRuns
<1>1. Inv => ShownOfRuns
  BY DEF Inv, AllFit, Fits, ShownOfRuns
<1>2. QED
  BY <1>1, Invariant, PTL

-----------------------------------------------------------------------------
(* An undisturbed Run.                                                      *)

\* What it has set stands until it is over, and what it sets next is of the same answers.
Agrees(r) ==
    /\ task = "fees" =>
          /\ pc[r] \in {"bank", "setGap"} => Shows("total", total[r])
          /\ pc[r] = "over" /\ failed[r] = {} => GapOf(Span(r)["bank"])
    /\ task = "funding" =>
          /\ pc[r] \in {"setShort", "setRatio"} => Shows("long", got[r]["long"])
          /\ pc[r] = "setRatio" => Shows("short", got[r]["short"])
          /\ pc[r] = "over" /\ failed[r] = {} => RatioOfSides

AloneInv ==
    \A r \in alone :
        /\ r \in Runners
        /\ \A q \in Runners \ {r} : ~Active(q)
        /\ Agrees(r)

LEMMA AloneBegin ==
    ASSUME Inv, AloneInv, NEW r \in Runners, Begin(r)
    PROVE  AloneInv'
<1>1. /\ pc' = [pc EXCEPT ![r] = First[task]] /\ task' = task
      /\ alone' = IF Busy = {} THEN {r} ELSE {}
  BY DEF Begin, BeginHistory
<1> SUFFICES ASSUME Busy = {}, alone' = {r}
             PROVE  /\ \A q \in Runners \ {r} : ~Active(q)'
                    /\ Agrees(r)'
  BY <1>1 DEF AloneInv
<1>2. \A q \in Runners \ {r} : ~Active(q)'
  BY <1>1 DEF Busy, Active, Idle, Inv, Types
<1>3. pc'[r] = First[task]
  BY <1>1 DEF Inv, Types
<1>4. First["fees"] = "market" /\ First["funding"] = "long"
  BY DEF First
<1>5. QED
  BY <1>1, <1>2, <1>3, <1>4 DEF Agrees

LEMMA AloneNewBlock ==
    ASSUME Inv, AloneInv, NewBlock
    PROVE  AloneInv'
<1>1. /\ task' = task /\ pc' = pc /\ got' = got /\ total' = total /\ floor' = floor
      /\ failed' = failed /\ shown' = shown /\ alone' = alone
  BY DEF NewBlock, code, history
<1>2. PICK v \in Vectors(Domain) : past' = Append(past, v)
  BY DEF NewBlock
<1>3. ASSUME NEW r \in alone, task = "fees", GapOf(Span(r)["bank"])
      PROVE  GapOf(Span(r)["bank"])'
  <2>1. r \in Runners /\ "bank" \in Reads
    BY <1>3, ReadsAre DEF AloneInv, Inv, Types
  <2>2. PICK a : a = floor[r]
    OBVIOUS
  <2>3. a \in Nat /\ a >= 1
    BY <2>1, <2>2 DEF Inv, Types
  <2>4. \A x \in Reads : Since(a)[x] \subseteq Since(a)'[x]
    BY <1>1, <1>2, <2>3, SinceGrows DEF Inv
  <2>5. Span(r) = Since(a) /\ Span(r)' = Since(a)'
    BY <1>1, <2>2, SpanSince DEF Since, Span
  <2>6. Span(r)["bank"] \subseteq Span(r)'["bank"]
    BY <2>1, <2>4, <2>5
  <2>7. QED
    BY <1>1, <1>3, <2>6 DEF GapOf, Shows
<1> SUFFICES ASSUME NEW r \in alone
             PROVE  /\ r \in Runners /\ Agrees(r)'
                    /\ \A q \in Runners \ {r} : ~Active(q)'
  BY <1>1 DEF AloneInv
<1>4. r \in Runners /\ Agrees(r) /\ \A q \in Runners \ {r} : ~Active(q)
  BY DEF AloneInv
<1>5. \A q \in Runners \ {r} : ~Active(q)'
  BY <1>1, <1>4 DEF Active
<1>6. RatioOfSides => RatioOfSides'
  BY <1>1 DEF RatioOfSides, Shows, Distance, Magnitude
<1>7. Agrees(r)'
  BY <1>1, <1>3, <1>4, <1>6 DEF Agrees, Shows
<1>8. QED
  BY <1>4, <1>5, <1>7

\* The Sets of an undisturbed Run.
LEMMA AgreesSet ==
    ASSUME Inv, NEW r \in Runners, Agrees(r), Set(r)
    PROVE  Agrees(r)'
<1>1. /\ Goes(r) /\ Active(r) /\ pc'[r] = After[pc[r]] /\ pc[r] \in Setting
      /\ task' = task /\ past' = past /\ floor' = floor
      /\ got' = got /\ total' = total /\ failed' = failed
  BY AllGo DEF Inv, Types, Set, Setting, history, Goes
<1>2. /\ After["setTotal"] = "bank" /\ After["setGap"] = "over" /\ After["setLong"] = "setShort"
      /\ After["setShort"] = "setRatio" /\ After["setRatio"] = "over" /\ After["setAge"] = "over"
  BY DEF After
<1>3. CASE pc[r] = "setTotal"
  <2>1. task = "fees"
    BY <1>1, <1>3, WhereSet DEF Inv
  <2>2. PICK w : w = total[r]
    OBVIOUS
  <2>3. Show("total", w)
    BY <1>3, <2>2 DEF Set
  <2>4. "total" \in DOMAIN shown' /\ shown'["total"] = w
    BY <2>3, ShowIs
  <2>5. QED
    BY <1>1, <1>2, <1>3, <2>1, <2>2, <2>4 DEF Agrees, Shows
<1>4. CASE pc[r] = "setGap"
  <2>1. task = "fees" /\ Shows("total", total[r])
    BY <1>1, <1>4, WhereSet DEF Inv, Agrees
  <2>2. PICK b : b = got[r]["bank"]
    OBVIOUS
  <2>3. PICK w : w = shown["total"] - b
    OBVIOUS
  <2>4. Show("gap", w)
    BY <1>4, <2>1, <2>2, <2>3 DEF Set, Shows
  <2>5. "gap" \in DOMAIN shown' /\ shown'["gap"] = w /\ KeptGauge("total")
    BY <2>4, ShowIs
  <2>6. shown'["total"] = shown["total"]
    BY <2>1, <2>5 DEF KeptGauge, Shows
  <2>7. b \in Span(r)["bank"]
    <3>1. HasAt["setGap"] = {"bank"}
      BY DEF HasAt
    <3>2. b \in Since(start[r])["bank"]
      BY <1>1, <1>4, <2>2, <3>1 DEF Inv, Answers
    <3>3. /\ floor[r] \in Nat /\ start[r] \in Nat /\ floor[r] <= start[r] /\ "bank" \in Reads
      BY <1>1, <2>1, ReadsAre DEF Inv, Types, Spans, Active, Idle
    <3>4. Since(start[r])["bank"] \subseteq Since(floor[r])["bank"]
      BY <3>3, OlderSpan DEF Inv
    <3>5. QED
      BY <3>2, <3>4, SpanSince
  <2>8. Span(r)' = Span(r)
    BY <1>1, SinceStays DEF Span
  <2>9. GapOf(Span(r)["bank"])'
    BY <2>3, <2>5, <2>6, <2>7, <2>8 DEF GapOf, Shows
  <2>10. QED
    BY <1>1, <1>2, <1>4, <2>1, <2>9 DEF Agrees
<1>5. CASE pc[r] = "setLong"
  <2>1. task = "funding"
    BY <1>1, <1>5, WhereSet DEF Inv
  <2>2. PICK w : w = got[r]["long"]
    OBVIOUS
  <2>3. Show("long", w)
    BY <1>5, <2>2 DEF Set
  <2>4. "long" \in DOMAIN shown' /\ shown'["long"] = w
    BY <2>3, ShowIs
  <2>5. QED
    BY <1>1, <1>2, <1>5, <2>1, <2>2, <2>4 DEF Agrees, Shows
<1>6. CASE pc[r] = "setShort"
  <2>1. task = "funding" /\ Shows("long", got[r]["long"])
    BY <1>1, <1>6, WhereSet DEF Inv, Agrees
  <2>2. PICK w : w = got[r]["short"]
    OBVIOUS
  <2>3. Show("short", w)
    BY <1>6, <2>2 DEF Set
  <2>4. "short" \in DOMAIN shown' /\ shown'["short"] = w /\ KeptGauge("long")
    BY <2>3, ShowIs
  <2>5. QED
    BY <1>1, <1>2, <1>6, <2>1, <2>2, <2>4 DEF Agrees, Shows, KeptGauge
<1>7. CASE pc[r] = "setRatio"
  <2>1. task = "funding" /\ Shows("long", got[r]["long"]) /\ Shows("short", got[r]["short"])
    BY <1>1, <1>7, WhereSet DEF Inv, Agrees
  <2>2. Reads = {"long", "short"}
    BY <2>1, ReadsAre DEF Inv, Types
  <2>3. PICK v : v = shown
    OBVIOUS
  <2>4. /\ v["long"] = got[r]["long"] /\ v["short"] = got[r]["short"]
        /\ v["long"] \in Int /\ v["short"] \in Int
        /\ "long" \in DOMAIN shown /\ "short" \in DOMAIN shown
    BY <2>1, <2>2, <2>3 DEF Inv, Types, Shows
  <2>5. /\ AbsSub(v["long"], v["short"]) = Distance(v)
        /\ AbsMax(v["long"], v["short"]) = Magnitude(v) /\ Magnitude(v) \in Nat
        /\ Magnitude(v) = 0 <=> v["long"] = 0 /\ v["short"] = 0
    BY <2>4, AbsSubIsDistance, AbsMaxIsMagnitude
  <2>6. \/ Magnitude(v) > 0 /\ Show("ratio", <<Distance(v), Magnitude(v)>>)
        \/ Magnitude(v) = 0 /\ shown' = shown
    BY <1>7, <2>4, <2>5 DEF Set
  <2>7. CASE Magnitude(v) > 0 /\ Show("ratio", <<Distance(v), Magnitude(v)>>)
    <3>1. PICK w : w = <<Distance(v), Magnitude(v)>>
      OBVIOUS
    <3>2. /\ "ratio" \in DOMAIN shown' /\ shown'["ratio"] = w
          /\ KeptGauge("long") /\ KeptGauge("short")
      BY <2>7, <3>1, ShowIs
    <3>3. shown'["long"] = v["long"] /\ shown'["short"] = v["short"]
      BY <2>3, <2>4, <3>2 DEF KeptGauge
    <3>4. w = <<Distance(shown'), Magnitude(shown')>>
      BY <3>1, <3>3 DEF Distance, Magnitude
    <3>5. RatioOfSides'
      BY <3>2, <3>4, Zenon DEF RatioOfSides, Shows, Distance, Magnitude
    <3>6. QED
      BY <1>1, <1>2, <1>7, <2>1, <3>5 DEF Agrees
  <2>8. CASE Magnitude(v) = 0 /\ shown' = shown
    <3>1. RatioOfSides'
      BY <2>3, <2>5, <2>8 DEF RatioOfSides
    <3>2. QED
      BY <1>1, <1>2, <1>7, <2>1, <3>1 DEF Agrees
  <2>9. QED
    BY <2>6, <2>7, <2>8
<1>8. CASE pc[r] = "setAge"
  <2>1. task = "chainlink"
    BY <1>1, <1>8, WhereSet DEF Inv
  <2>2. QED
    BY <1>1, <2>1 DEF Agrees
<1>9. QED
  BY <1>1, <1>3, <1>4, <1>5, <1>6, <1>7, <1>8 DEF Setting

LEMMA AgreesGo ==
    ASSUME Inv, NEW r \in Runners, Agrees(r), ReadMarket(r) \/ Read(r) \/ Fail(r)
    PROVE  Agrees(r)'
<1>1. CASE ReadMarket(r)
  <2>1. pc'[r] \in {"market", After["market"]} /\ task' = task /\ task = "fees"
    BY <1>1, WhereMarket DEF ReadMarket, Inv, Types
  <2>2. After["market"] = "setTotal"
    BY DEF After
  <2>3. QED
    BY <2>1, <2>2 DEF Agrees
<1>2. CASE Read(r)
  <2>1. /\ pc'[r] = After[pc[r]] /\ pc[r] \in Names /\ task' = task /\ shown' = shown
        /\ total' = total /\ After[pc[r]] # "over"
        /\ task = "fees" => pc[r] = "bank"
    BY <1>2, WhereRead DEF Read, Inv, Types
  <2>2. \A c \in Names : After[c] \notin {"setShort", "setRatio"}
    BY DEF After, Names
  <2>3. QED
    BY <2>1, <2>2 DEF Agrees, Shows
<1>3. CASE Fail(r)
  <2>1. pc'[r] = "over" /\ pc[r] \in failed'[r] /\ task' = task
    BY <1>3 DEF Fail, Inv, Types
  <2>2. QED
    BY <2>1 DEF Agrees
<1>4. QED
  BY <1>1, <1>2, <1>3

LEMMA AloneGo ==
    ASSUME Inv, AloneInv, NEW r \in Runners, ReadMarket(r) \/ Read(r) \/ Fail(r) \/ Set(r)
    PROVE  AloneInv'
<1>1. Goes(r) /\ Active(r) /\ alone' = alone
  BY AllGo DEF Inv, ReadMarket, Read, Fail, Set, history, Goes
<1> SUFFICES ASSUME NEW q \in alone
             PROVE  /\ q \in Runners /\ Agrees(q)'
                    /\ \A p \in Runners \ {q} : ~Active(p)'
  BY <1>1 DEF AloneInv
<1>2. q \in Runners /\ Agrees(q) /\ \A p \in Runners \ {q} : ~Active(p)
  BY DEF AloneInv
<1>3. q = r
  BY <1>1, <1>2
<1>4. \A p \in Runners \ {q} : ~Active(p)'
  BY <1>1, <1>2, GoesWhere
<1>5. Agrees(r)'
  BY <1>2, <1>3, AgreesSet, AgreesGo
<1>6. QED
  BY <1>2, <1>3, <1>4, <1>5

LEMMA AloneStep == ASSUME Inv, AloneInv, [Next]_vars PROVE AloneInv'
<1>1. CASE UNCHANGED vars
  <2>1. /\ task' = task /\ past' = past /\ pc' = pc /\ got' = got /\ total' = total
        /\ failed' = failed /\ shown' = shown /\ floor' = floor /\ alone' = alone
    BY <1>1 DEF vars, code, history
  <2>2. \A r : Span(r)' = Span(r)
    BY <2>1, SinceStays DEF Span
  <2>3. RatioOfSides => RatioOfSides'
    BY <2>1 DEF RatioOfSides, Shows, Distance, Magnitude
  <2>4. \A r \in alone : Agrees(r)'
    BY <2>1, <2>2, <2>3 DEF AloneInv, Agrees, Shows, GapOf
  <2>5. QED
    BY <2>1, <2>4 DEF AloneInv, Active
<1>2. QED
  BY <1>1, AloneNewBlock, AloneBegin, AloneGo DEF Next

\* fee.go, funding.go: a Run with no failure and no other beside it leaves a gap that is that
\* of the total and a balance it found, and a ratio that is that of the sides, whatever
\* gauges failures and overlapping Runs have left before it.
THEOREM AgreesAlone == Spec => []AgreeAlone
<1>1. Init => AloneInv
  BY DEF Init, AloneInv
<1>2. Inv /\ AloneInv /\ [Next]_vars => AloneInv'
  BY AloneStep
<1>3. AloneInv => AgreeAlone
  BY DEF AloneInv, Agrees, AgreeAlone
<1>4. QED
  BY <1>1, <1>2, <1>3, Invariant, PTL DEF Spec

=============================================================================
