----------------------------- MODULE AlertsProofs -----------------------------
(***************************************************************************)
(* Theorems about module Alerts, for all values that the reads may have,   *)
(* any number of markets and of changes during a Run: what a report        *)
(* complains of was so, and what was bad throughout is complained of.      *)
(***************************************************************************)
EXTENDS Alerts, ValuesProofs

-----------------------------------------------------------------------------
(* The calls of a task.                                                     *)

LEMMA FundingReads ==
    ASSUME task = "funding"
    PROVE  /\ Calls(task) = <<"long", "short">>
           /\ Reads = {"long", "short"}
           /\ End = 3
<1>1. Calls(task) = <<"long", "short">>
  BY DEF Calls
<1>2. QED
  BY <1>1 DEF Reads, End, ToSet

LEMMA SetToSeqLists ==
    ASSUME NEW S, IsFiniteSet(S)
    PROVE  /\ SetToSeq(S) \in Seq(S) /\ Len(SetToSeq(S)) = Cardinality(S)
           /\ \A i, j \in 1..Cardinality(S) : SetToSeq(S)[i] = SetToSeq(S)[j] => i = j
           /\ \A x \in S : \E i \in 1..Cardinality(S) : SetToSeq(S)[i] = x
<1> DEFINE n == Cardinality(S)
<1>1. n \in Nat /\ ExistsBijection(1..n, S)
  BY FS_CardinalityType
<1>2. PICK f : f = SetToSeq(S)
  OBVIOUS
<1>3. f \in [1..n -> S] /\ IsInjective(f)
  <2>1. \E g \in [1..n -> S] : IsInjective(g)
    BY <1>1 DEF ExistsBijection, Bijection, Injection
  <2>2. QED
    BY <1>2, <2>1 DEF SetToSeq
<1>4. \A i, j \in 1..n : f[i] = f[j] => i = j
  BY <1>3 DEF IsInjective
<1>5. IsFiniteSet(1..n) /\ Cardinality(1..n) = n
  <2>1. Cardinality(1..n) = IF 1 > n THEN 0 ELSE n - 1 + 1
    BY <1>1, FS_Interval
  <2>2. QED
    BY <1>1, <2>1, FS_Interval
<1>6. f \in Surjection(1..n, S)
  <2>1. f \in Injection(1..n, S)
    BY <1>3 DEF Injection
  <2>2. QED
    BY <1>5, <2>1, FS_Injection
<1>7. \A x \in S : \E i \in 1..n : f[i] = x
  BY <1>6 DEF Surjection
<1>8. f \in Seq(S) /\ Len(f) = n
  BY <1>1, <1>3
<1>9. QED
  BY <1>2, <1>4, <1>7, <1>8

\* The calls of the fees task: every market once, then the bank.
LEMMA FeesCalls ==
    ASSUME task = "fees"
    PROVE  LET c == Calls(task)
           IN  /\ Len(c) \in Nat \ {0} /\ DOMAIN c = 1..Len(c) /\ End = Len(c) + 1
               /\ \A i, j \in 1..Len(c) : c[i] = c[j] => i = j
               /\ Reads = {c[i] : i \in 1..Len(c)}
               /\ Reads = Markets \cup {"bank"}
               /\ \A i \in 1..Len(c) : c[i] \in Markets <=> i # Len(c)
               /\ c[Len(c)] = "bank"
<1> DEFINE m == SetToSeq(Markets)
           n == Cardinality(Markets)
<1>1. /\ m \in Seq(Markets) /\ Len(m) = n /\ n \in Nat
      /\ \A i, j \in 1..n : m[i] = m[j] => i = j
      /\ \A x \in Markets : \E i \in 1..n : m[i] = x
  BY SetToSeqLists, AlertsAssumption, FS_CardinalityType
<1>2. PICK c : c = Calls(task)
  OBVIOUS
<1>3. c = Append(m, "bank")
  BY <1>2 DEF Calls
<1> HIDE DEF m, n
<1>4. "bank" \notin Markets
  BY AlertsAssumption DEF Names
<1>5. /\ Len(c) = n + 1 /\ DOMAIN c = 1..(n + 1)
      /\ \A i \in 1..n : c[i] = m[i] /\ m[i] \in Markets
      /\ c[n + 1] = "bank"
  BY <1>1, <1>3
<1>6. \A i, j \in 1..(n + 1) : c[i] = c[j] => i = j
  <2>1. ASSUME NEW i \in 1..(n + 1), NEW j \in 1..(n + 1), c[i] = c[j] PROVE i = j
    <3>1. (i \in 1..n \/ i = n + 1) /\ (j \in 1..n \/ j = n + 1)
      BY <1>1
    <3>2. QED
      BY <1>1, <1>4, <1>5, <2>1, <3>1
  <2>2. QED
    BY <2>1
<1>7. \A i \in 1..(n + 1) : c[i] \in Markets <=> i # n + 1
  <2>1. ASSUME NEW i \in 1..(n + 1) PROVE c[i] \in Markets <=> i # n + 1
    <3>1. i \in 1..n \/ i = n + 1
      BY <1>1
    <3>2. n + 1 \notin 1..n
      BY <1>1
    <3>3. QED
      BY <1>4, <1>5, <3>1, <3>2
  <2>2. QED
    BY <2>1
<1>8. {c[i] : i \in 1..(n + 1)} = Markets \cup {"bank"}
  <2>1. ASSUME NEW i \in 1..(n + 1) PROVE c[i] \in Markets \cup {"bank"}
    BY <1>5, <1>7
  <2>2. ASSUME NEW x \in Markets PROVE \E i \in 1..(n + 1) : c[i] = x
    <3>1. PICK i \in 1..n : m[i] = x
      BY <1>1
    <3>2. i \in 1..(n + 1)
      BY <1>1
    <3>3. QED
      BY <1>5, <3>1, <3>2
  <2>3. n + 1 \in 1..(n + 1)
    BY <1>1
  <2>4. QED
    BY <1>5, <2>1, <2>2, <2>3
<1>9. Reads = {c[i] : i \in 1..(n + 1)} /\ End = n + 2
  BY <1>1, <1>2, <1>5 DEF Reads, ToSet, End
<1>10. QED
  BY <1>1, <1>2, <1>5, <1>6, <1>7, <1>8, <1>9

\* The calls of the other tasks, one or two.
LEMMA OtherCalls ==
    ASSUME task \in Tasks, task # "fees"
    PROVE  /\ \/ task = "vault_balances" /\ Calls(task) = <<"native", "usdt">>
              \/ task = "roles" /\ Calls(task) = <<"count", "members">>
              \/ task = "timelock" /\ Calls(task) = <<"delay">>
              \/ task = "funding" /\ Calls(task) = <<"long", "short">>
              \/ task = "features" /\ Calls(task) = <<"flag">>
              \/ task = "chainlink" /\ Calls(task) = <<"now", "updated">>
           /\ \/ End = 2 /\ Reads = {Calls(task)[1]}
              \/ End = 3 /\ Reads = {Calls(task)[1], Calls(task)[2]}
                 /\ Calls(task)[1] # Calls(task)[2]
           /\ Reads \subseteq Names
<1>1. \/ task = "vault_balances" /\ Calls(task) = <<"native", "usdt">>
      \/ task = "roles" /\ Calls(task) = <<"count", "members">>
      \/ task = "timelock" /\ Calls(task) = <<"delay">>
      \/ task = "funding" /\ Calls(task) = <<"long", "short">>
      \/ task = "features" /\ Calls(task) = <<"flag">>
      \/ task = "chainlink" /\ Calls(task) = <<"now", "updated">>
  BY AlertsAssumption DEF Calls
<1>2. \A a : Calls(task) = <<a>> => End = 2 /\ Reads = {a}
  BY DEF End, Reads, ToSet
<1>3. \A a, b : Calls(task) = <<a, b>> => End = 3 /\ Reads = {a, b}
  BY DEF End, Reads, ToSet
<1>4. QED
  BY <1>1, <1>2, <1>3 DEF Names

LEMMA OtherReads ==
    ASSUME task \in Tasks, task # "fees"
    PROVE  \/ task = "vault_balances" /\ Reads = {"native", "usdt"}
           \/ task = "roles" /\ Reads = {"count", "members"}
           \/ task = "timelock" /\ Reads = {"delay"}
           \/ task = "funding" /\ Reads = {"long", "short"}
           \/ task = "features" /\ Reads = {"flag"}
           \/ task = "chainlink" /\ Reads = {"now", "updated"}
<1>1. \A a : Calls(task) = <<a>> => Reads = {a}
  BY DEF Reads, ToSet
<1>2. \A a, b : Calls(task) = <<a, b>> => Reads = {a, b}
  BY DEF Reads, ToSet
<1>3. QED
  BY <1>1, <1>2, OtherCalls

\* What all tasks have in common.
LEMMA CallsFacts ==
    ASSUME task \in Tasks
    PROVE  /\ End \in Nat /\ End > 1
           /\ \A i, j \in 1..(End - 1) : Calls(task)[i] = Calls(task)[j] => i = j
           /\ Reads = {Calls(task)[i] : i \in 1..(End - 1)}
           /\ Reads \subseteq DOMAIN Domain
           /\ \A i \in 1..(End - 1) :
                 Calls(task)[i] \in Markets <=> task = "fees" /\ i # End - 1
<1>1. CASE task = "fees"
  <2>1. Reads \subseteq DOMAIN Domain
    BY <1>1, FeesCalls, AlertsAssumption DEF Names
  <2>2. End - 1 = Len(Calls(task)) /\ Len(Calls(task)) \in Nat \ {0}
    BY <1>1, FeesCalls
  <2>3. QED
    BY <1>1, <2>1, <2>2, FeesCalls
<1>2. CASE task # "fees"
  <2>1. \A x \in Reads : x \notin Markets /\ x \in DOMAIN Domain
    BY <1>2, OtherCalls, AlertsAssumption
  <2>2. CASE End = 2 /\ Reads = {Calls(task)[1]}
    BY <1>2, <2>1, <2>2
  <2>3. CASE End = 3 /\ Reads = {Calls(task)[1], Calls(task)[2]} /\ Calls(task)[1] # Calls(task)[2]
    <3>1. 1..(End - 1) = {1, 2} /\ End = 3
      BY <2>3
    <3>2. QED
      BY <1>2, <2>1, <2>3, <3>1
  <2>4. QED
    BY <1>2, <2>2, <2>3, OtherCalls
<1>3. QED
  BY <1>1, <1>2

\* The inductive invariant: in a Run the calls so far were answered or, for markets,
\* failed; what was answered was there at the time; the sum is that of the answers.
Calling ==
    at > 0 =>
        /\ ~alarm /\ failed \subseteq Markets
        /\ \A x \in Reads : value[x] \in seen[x]
        /\ \A x \in DOMAIN got : got[x] \in seen[x]
        /\ \A i \in 1..(at - 1) : Calls(task)[i] \in DOMAIN got \cup failed
        /\ \A i \in at..(End - 1) : Calls(task)[i] \notin DOMAIN got \cup failed
        /\ DOMAIN got \cap failed = {}

SumInv == total = Claimable(got, DOMAIN got \cap Markets)

Promises == NoFalseAlarm /\ NoSilentMiss

AlertInv == TypeOK /\ Calling /\ SumInv /\ Promises

\* While a Run is on, nothing is promised of it.
LEMMA NotOver ==
    ASSUME at' # 0
    PROVE  Promises'
  BY DEF Promises, NoFalseAlarm, NoSilentMiss, Over

LEMMA MarketFees ==
    ASSUME NEW D, D \subseteq Markets
    PROVE  /\ IsFiniteSet(D) /\ IsFiniteSet(Markets)
           /\ \A m \in Markets : Domain[m] \subseteq Nat
  BY AlertsAssumption, FS_Subset

\* What the answers of the markets can add up to.
LEMMA SumInRange ==
    ASSUME NEW v, \A x \in DOMAIN v : v[x] \in Domain[x]
    PROVE  LET most == Claimable([m \in Markets |-> Max(Domain[m])], Markets)
           IN  most \in Nat /\ Claimable(v, DOMAIN v \cap Markets) \in 0..most
<1> DEFINE D == DOMAIN v \cap Markets
           top == [m \in Markets |-> Max(Domain[m])]
<1>1. ASSUME NEW m \in Markets PROVE top[m] \in Nat /\ \A x \in Domain[m] : x <= top[m]
  <2>1. Domain[m] \subseteq Nat /\ Domain[m] # {} /\ IsFiniteSet(Domain[m])
    BY AlertsAssumption
  <2>2. PICK l \in Domain[m] : \A x \in Domain[m] : x <= l
    BY <2>1, LargestOf
  <2>3. Max(Domain[m]) = l
    <3>1. Domain[m] \in SUBSET Int /\ \A y \in Domain[m] : l >= y
      BY <2>1, <2>2
    <3>2. QED
      BY <3>1, MaxIs
  <2>4. QED
    BY <2>1, <2>2, <2>3
<1> HIDE DEF top
<1>2. \A x \in D : v[x] \in Nat /\ v[x] \in Int /\ v[x] <= top[x]
  <2> SUFFICES ASSUME NEW x \in D
               PROVE  v[x] \in Nat /\ v[x] \in Int /\ v[x] <= top[x]
    OBVIOUS
  <2>1. x \in Markets /\ v[x] \in Domain[x]
    OBVIOUS
  <2>2. v[x] \in Nat
    BY <2>1, MarketFees
  <2>3. v[x] <= top[x]
    BY <1>1, <2>1
  <2>4. QED
    BY <2>2, <2>3
<1>3. D \in SUBSET Markets /\ IsFiniteSet(D) /\ IsFiniteSet(Markets)
  BY MarketFees
<1> HIDE DEF D
<1>4. SumFunctionOnSet(v, D) <= SumFunctionOnSet(top, Markets)
  BY <1>1, <1>2, <1>3, SumMonotone
<1>5. SumFunctionOnSet(v, D) \in Nat /\ SumFunctionOnSet(top, Markets) \in Nat
  BY <1>1, <1>2, <1>3, SumIsNat
<1>6. QED
  BY <1>4, <1>5 DEF D, top, Claimable

LEMMA InitAlertInv == Init => AlertInv
<1> SUFFICES ASSUME Init PROVE AlertInv
  OBVIOUS
<1>1. task \in Tasks /\ at = 0 /\ got = <<>> /\ DOMAIN got = {} /\ total = 0
  BY DEF Init
<1>2. SumInv
  BY <1>1, SumOfNone DEF SumInv, Claimable
<1>3. total \in 0..Claimable([m \in Markets |-> Max(Domain[m])], Markets)
  BY <1>1, <1>2, SumInRange DEF SumInv
<1>4. TypeOK
  <2>1. 0 \in 0..End /\ 0 \in 0..MaxMoves
    BY <1>1, CallsFacts, AlertsAssumption
  <2>2. seen \in [Reads -> SUBSET UNION {Domain[x] : x \in Reads}]
    BY DEF Init
  <2>3. QED
    BY <1>1, <1>3, <2>1, <2>2 DEF Init, TypeOK
<1>5. ~Over
  <2>1. 1 \in 1..(End - 1)
    BY <1>1, CallsFacts
  <2>2. Calls(task)[1] \in Reads
    BY <1>1, <2>1, CallsFacts
  <2>3. QED
    BY <2>2 DEF Init, Over
<1>6. Promises
  BY <1>5 DEF Promises, NoFalseAlarm, NoSilentMiss, Over
<1>7. QED
  BY <1>1, <1>2, <1>4, <1>6 DEF AlertInv, Calling

LEMMA StartAlertInv == AlertInv /\ Start => AlertInv'
<1> SUFFICES ASSUME AlertInv, Start PROVE AlertInv'
  OBVIOUS
<1>1. /\ at' = 1 /\ task' = task /\ alarm' = FALSE /\ failed' = {}
      /\ value' \in Vectors(Domain) /\ seen' = [x \in Reads |-> {value'[x]}]
      /\ moves' = 0 /\ total' = 0 /\ got' = <<>> /\ DOMAIN got' = {}
  BY DEF Start
<1>2. Reads' = Reads /\ End' = End /\ Calls(task)' = Calls(task) /\ Vectors(Domain)' = Vectors(Domain)
  BY <1>1 DEF Reads, End, Vectors
<1>3. task \in Tasks /\ End \in Nat /\ End > 1
  BY CallsFacts DEF AlertInv, TypeOK
<1>4. SumInv'
  BY <1>1, SumOfNone DEF SumInv, Claimable
<1>5. total' \in 0..Claimable([m \in Markets |-> Max(Domain[m])], Markets)
  <2>1. 0 \in 0..Claimable([m \in Markets |-> Max(Domain[m])], Markets)
    <3>1. \A x \in DOMAIN got : got[x] \in Domain[x]
      BY DEF AlertInv, TypeOK
    <3>2. PICK most \in Nat : most = Claimable([m \in Markets |-> Max(Domain[m])], Markets)
      BY <3>1, SumInRange
    <3>3. 0 \in 0..most
      OBVIOUS
    <3>4. QED
      BY <3>2, <3>3
  <2>2. QED
    BY <1>1, <2>1
<1>6. seen' \in [Reads -> SUBSET UNION {Domain[x] : x \in Reads}]
  BY <1>1 DEF Vectors
<1>7. TypeOK'
  <2>1. 1 \in 0..End /\ 0 \in 0..MaxMoves
    BY <1>3, AlertsAssumption
  <2>2. QED
    BY <1>1, <1>2, <1>3, <1>5, <1>6, <2>1 DEF TypeOK
<1>8. Calling'
  BY <1>1, <1>2, <1>3 DEF Calling
<1>9. QED
  BY <1>1, <1>4, <1>7, <1>8, NotOver DEF AlertInv

LEMMA MoveAlertInv == AlertInv /\ Move => AlertInv'
<1> SUFFICES ASSUME AlertInv, Move PROVE AlertInv'
  OBVIOUS
<1>1. /\ at > 0 /\ moves' = moves + 1 /\ moves < MaxMoves
      /\ UNCHANGED <<task, at, got, total, failed, alarm>>
  BY DEF Move
<1>2. PICK x \in Reads : \E w \in Domain[x] :
         /\ value' = [value EXCEPT ![x] = w]
         /\ seen' = [seen EXCEPT ![x] = @ \cup {w}]
  BY DEF Move
<1>3. PICK w \in Domain[x] : /\ value' = [value EXCEPT ![x] = w]
                             /\ seen' = [seen EXCEPT ![x] = @ \cup {w}]
  BY <1>2
<1>4. Reads' = Reads /\ End' = End /\ Calls(task)' = Calls(task) /\ Vectors(Domain)' = Vectors(Domain)
  BY <1>1 DEF Reads, End, Vectors
<1>5. value \in Vectors(Domain) /\ seen \in [Reads -> SUBSET UNION {Domain[y] : y \in Reads}]
  BY DEF AlertInv, TypeOK
<1>6. value' \in Vectors(Domain) /\ seen' \in [Reads -> SUBSET UNION {Domain[y] : y \in Reads}]
  BY <1>3, <1>5 DEF Vectors
<1>7. \A y \in Reads : /\ seen[y] \subseteq seen'[y]
                       /\ value[y] \in seen[y] => value'[y] \in seen'[y]
  BY <1>3, <1>5 DEF Vectors
<1>8. moves' \in 0..MaxMoves
  BY <1>1, AlertsAssumption DEF AlertInv, TypeOK
<1>9. TypeOK'
  BY <1>1, <1>4, <1>6, <1>8 DEF AlertInv, TypeOK
<1>10. Calling'
  BY <1>1, <1>4, <1>7 DEF AlertInv, TypeOK, Calling
<1>11. SumInv'
  BY <1>1 DEF AlertInv, SumInv
<1>12. at' # 0
  BY <1>1 DEF AlertInv, TypeOK
<1>13. QED
  BY <1>9, <1>10, <1>11, <1>12, NotOver DEF AlertInv

\* One more answer: the sum grows by that of a market.
LEMMA AnswerSums ==
    ASSUME \A y \in DOMAIN got : got[y] \in Domain[y], SumInv,
           NEW x, x \notin DOMAIN got, value[x] \in Domain[x],
           got' = [y \in DOMAIN got \cup {x} |-> IF y = x THEN value[x] ELSE got[y]],
           total' = IF x \in Markets THEN total + value[x] ELSE total
    PROVE  SumInv'
<1> DEFINE D == DOMAIN got \cap Markets
           E == DOMAIN got' \cap Markets
<1>1. IsFiniteSet(D) /\ IsFiniteSet(E)
  BY MarketFees
<1>2. (\A y \in D : got[y] \in Nat) /\ (x \in Markets => value[x] \in Nat)
  BY MarketFees
<1>3. DOMAIN got' = DOMAIN got \cup {x} /\ got'[x] = value[x] /\ \A y \in D : got'[y] = got[y]
  OBVIOUS
<1>4. \A y \in D : got[y] \in Nat /\ got'[y] = got[y]
  BY <1>2, <1>3
<1> HIDE DEF D, E
<1>5. SumFunctionOnSet(got', D) = SumFunctionOnSet(got, D)
  BY <1>1, <1>4, SumSame
<1>6. CASE x \in Markets
  <2>1. E = D \cup {x} /\ x \in E /\ E \ {x} = D
    BY <1>3, <1>6 DEF D, E
  <2>2. ASSUME NEW y \in E PROVE got'[y] \in Int
    <3>1. CASE y = x
      <4>1. got'[y] = value[x] /\ value[x] \in Nat
        BY <1>2, <1>3, <1>6, <3>1
      <4>2. QED
        BY <4>1
    <3>2. CASE y # x
      <4>1. y \in D
        BY <2>1, <3>2
      <4>2. got[y] \in Nat /\ got'[y] = got[y]
        BY <1>4, <4>1
      <4>3. QED
        BY <4>2
    <3>3. QED
      BY <3>1, <3>2
  <2>3. SumFunctionOnSet(got', E) = got'[x] + SumFunctionOnSet(got', E \ {x})
    BY <1>1, <2>1, <2>2, SumTakes
  <2>4. total = SumFunctionOnSet(got, D) /\ total \in Nat
    BY <1>1, <1>2, SumIsNat DEF SumInv, Claimable, D
  <2>5. total' = SumFunctionOnSet(got', E)
    <3>1. total' = total + value[x]
      BY <1>6
    <3>2. SumFunctionOnSet(got', E) = value[x] + SumFunctionOnSet(got, D)
      BY <1>3, <1>5, <2>1, <2>3
    <3>3. value[x] \in Nat
      BY <1>2, <1>6
    <3>4. QED
      BY <2>4, <3>1, <3>2, <3>3
  <2>6. QED
    BY <2>5 DEF SumInv, Claimable, E
<1>7. CASE x \notin Markets
  <2>1. E = D
    BY <1>3, <1>7 DEF D, E
  <2>2. QED
    BY <1>5, <1>7, <2>1 DEF SumInv, Claimable, D, E
<1>8. QED
  BY <1>6, <1>7

\* The values of the moment are values of the Run.
LEMMA ValueVector ==
    ASSUME task \in Tasks, value \in Vectors(Domain), \A x \in Reads : value[x] \in seen[x]
    PROVE  value \in Vectors(seen)
  BY DEF Vectors

LEMMA AnswerAlertInv == AlertInv /\ Answer => AlertInv'
<1> SUFFICES ASSUME AlertInv, Answer PROVE AlertInv'
  OBVIOUS
<1>1. /\ task \in Tasks /\ value \in Vectors(Domain)
      /\ DOMAIN got \subseteq Reads /\ \A y \in DOMAIN got : got[y] \in Domain[y]
      /\ SumInv
  BY DEF AlertInv, TypeOK
<1>2. PICK x : x = Calls(task)[at]
  OBVIOUS
<1>3. /\ at \in 1..(End - 1)
      /\ got' = [y \in DOMAIN got \cup {x} |-> IF y = x THEN value[x] ELSE got[y]]
      /\ total' = IF x \in Markets THEN total + value[x] ELSE total
      /\ at' = IF x = "count" /\ value[x] = 0 THEN 0 ELSE at + 1
      /\ UNCHANGED <<task, value, seen, moves, failed, alarm>>
  BY <1>2 DEF Answer, chain
<1>4. /\ End \in Nat /\ x \in Reads /\ x \notin DOMAIN got \cup failed
      /\ ~alarm /\ failed \subseteq Markets
      /\ \A y \in Reads : value[y] \in seen[y]
  <2>1. at > 0 /\ at \in at..(End - 1)
    BY <1>1, <1>3, CallsFacts
  <2>2. x \in Reads /\ End \in Nat
    BY <1>1, <1>2, <1>3, CallsFacts
  <2>3. QED
    BY <1>2, <2>1, <2>2 DEF AlertInv, Calling
<1>5. value[x] \in Domain[x]
  BY <1>1, <1>4 DEF Vectors
<1>6. /\ DOMAIN got' = DOMAIN got \cup {x} /\ got'[x] = value[x]
      /\ \A y \in DOMAIN got : got'[y] = got[y]
  BY <1>3, <1>4
<1>7. /\ Reads' = Reads /\ End' = End /\ Calls(task)' = Calls(task)
      /\ Vectors(Domain)' = Vectors(Domain) /\ Vectors(seen)' = Vectors(seen)
  BY <1>3 DEF Reads, End, Vectors
<1>8. SumInv'
  BY <1>1, <1>3, <1>4, <1>5, AnswerSums
<1>9. \A y \in DOMAIN got' : got'[y] \in Domain[y]
  BY <1>1, <1>5, <1>6
<1>10. TypeOK'
  <2>1. total' \in 0..Claimable([m \in Markets |-> Max(Domain[m])], Markets)
    BY <1>8, <1>9, SumInRange DEF SumInv
  <2>2. at' \in 0..End
    BY <1>3, <1>4
  <2>3. DOMAIN got' \subseteq Reads
    BY <1>1, <1>4, <1>6
  <2>4. QED
    BY <1>1, <1>3, <1>7, <1>9, <2>1, <2>2, <2>3 DEF AlertInv, TypeOK
<1>11. CASE at' # 0
  <2>1. at' = at + 1 /\ at > 0
    BY <1>3, <1>4, <1>11
  <2>2. ASSUME NEW i \in 1..at PROVE Calls(task)[i] \in DOMAIN got' \cup failed
    <3>1. CASE i = at
      BY <1>2, <1>6, <3>1
    <3>2. CASE i # at
      <4>1. i \in 1..(at - 1)
        BY <1>3, <3>2
      <4>2. QED
        BY <1>6, <2>1, <4>1 DEF AlertInv, Calling
    <3>3. QED
      BY <3>1, <3>2
  <2>3. ASSUME NEW i \in (at + 1)..(End - 1) PROVE Calls(task)[i] \notin DOMAIN got' \cup failed
    <3>1. i \in at..(End - 1) /\ i \in 1..(End - 1) /\ i # at
      BY <1>3, <1>4
    <3>2. Calls(task)[i] # x
      BY <1>1, <1>2, <1>3, <3>1, CallsFacts
    <3>3. Calls(task)[i] \notin DOMAIN got \cup failed
      BY <2>1, <3>1 DEF AlertInv, Calling
    <3>4. QED
      BY <1>6, <3>2, <3>3
  <2>4. \A y \in DOMAIN got' : got'[y] \in seen[y]
    BY <1>4, <1>6, <2>1 DEF AlertInv, Calling
  <2>5. DOMAIN got' \cap failed = {}
    BY <1>4, <1>6, <2>1 DEF AlertInv, Calling
  <2>6. 1..((at + 1) - 1) = 1..at
    BY <1>3
  <2>7. Calling'
    BY <1>3, <1>4, <1>7, <2>1, <2>2, <2>3, <2>4, <2>5, <2>6 DEF Calling
  <2>8. QED
    BY <1>8, <1>10, <1>11, <2>7, NotOver DEF AlertInv
<1>12. CASE at' = 0
  <2>1. x = "count" /\ value[x] = 0
    BY <1>3, <1>4, <1>12
  <2>2. task = "roles"
    <3>1. "count" \notin Markets
      BY AlertsAssumption DEF Names
    <3>2. CASE task = "fees"
      BY <1>4, <2>1, <3>1, <3>2, FeesCalls
    <3>3. CASE task # "fees"
      BY <1>1, <1>4, <2>1, <3>3, OtherReads
    <3>4. QED
      BY <3>2, <3>3
  <2>3. ~Bad(value)
    BY <2>1, <2>2 DEF Bad
  <2>4. value \in Vectors(seen)
    BY <1>1, <1>4, ValueVector
  <2>5. Bad(value)' = Bad(value)
    BY <1>3 DEF Bad, Claimable
  <2>6. Promises'
    BY <1>3, <1>4, <1>7, <2>2, <2>3, <2>4, <2>5
       DEF Promises, NoFalseAlarm, NoSilentMiss
  <2>7. Calling'
    BY <1>12 DEF Calling
  <2>8. QED
    BY <1>8, <1>10, <2>6, <2>7 DEF AlertInv
<1>13. QED
  BY <1>11, <1>12

\* When all markets have been called, the sum is that of those that answered.
LEMMA FeesSum ==
    ASSUME TypeOK, Calling, SumInv, task = "fees", at \in {End - 1, End},
           NEW v, \A x \in DOMAIN got : v[x] = got[x]
    PROVE  total = Claimable(v, Markets \ failed)
<1>1. /\ End \in Nat /\ End > 1 /\ End - 1 = Len(Calls(task)) /\ at > 0
      /\ \A i \in 1..(End - 1) : Calls(task)[i] \in Markets <=> i # End - 1
      /\ \A m \in Markets : \E i \in 1..(End - 1) : Calls(task)[i] = m
  <2>1. task \in Tasks
    BY DEF TypeOK
  <2>2. Reads = {Calls(task)[i] : i \in 1..(End - 1)} /\ Markets \subseteq Reads
    BY <2>1, CallsFacts, FeesCalls
  <2>3. End \in Nat /\ End > 1
    BY <2>1, CallsFacts
  <2>4. \A m \in Markets : \E i \in 1..(End - 1) : Calls(task)[i] = m
    BY <2>2
  <2>5. \A i \in 1..(End - 1) : Calls(task)[i] \in Markets <=> i # End - 1
    BY <2>1, CallsFacts
  <2>6. End - 1 = Len(Calls(task))
    BY FeesCalls
  <2>7. at > 0
    BY <2>3
  <2>8. QED
    BY <2>3, <2>4, <2>5, <2>6, <2>7
<1>2. ASSUME NEW m \in Markets PROVE m \in DOMAIN got \cup failed
  <2>1. PICK i \in 1..(End - 1) : Calls(task)[i] = m
    BY <1>1
  <2>2. i # End - 1
    BY <1>1, <2>1
  <2>3. i \in 1..(at - 1)
    BY <1>1, <2>2
  <2>4. QED
    BY <1>1, <2>1, <2>3 DEF Calling
<1>3. DOMAIN got \cap failed = {}
  BY <1>1 DEF Calling
<1>4. Markets \ failed = DOMAIN got \cap Markets
  BY <1>2, <1>3
<1>5. PICK D : D = DOMAIN got \cap Markets
  OBVIOUS
<1>6. IsFiniteSet(D)
  BY <1>5, MarketFees
<1>7. \A x \in D : got[x] \in Nat /\ v[x] = got[x]
  <2>1. \A x \in D : got[x] \in Domain[x] /\ x \in Markets /\ v[x] = got[x]
    BY <1>5 DEF TypeOK
  <2>2. QED
    BY <2>1, MarketFees
<1>8. SumFunctionOnSet(got, D) = SumFunctionOnSet(v, D)
  BY <1>6, <1>7, SumSame
<1>9. QED
  BY <1>4, <1>5, <1>8 DEF SumInv, Claimable

\* Values that were there: the answers, and what the reads that failed had.
LEMMA AnswerVector ==
    ASSUME TypeOK, Calling, at > 0
    PROVE  \E v \in Vectors(seen) :
              /\ \A x \in DOMAIN got : v[x] = got[x]
              /\ \A x \in Reads : v[x] \in Domain[x]
<1> DEFINE v == [x \in Reads |-> IF x \in DOMAIN got THEN got[x] ELSE value[x]]
<1>1. /\ DOMAIN got \subseteq Reads /\ \A x \in DOMAIN got : got[x] \in Domain[x]
      /\ \A x \in Reads : value[x] \in Domain[x]
  BY DEF TypeOK, Vectors
<1>2. /\ \A x \in Reads : value[x] \in seen[x]
      /\ \A x \in DOMAIN got : got[x] \in seen[x]
  BY DEF Calling
<1>3. v \in Vectors(seen)
  BY <1>2 DEF Vectors
<1>4. QED
  BY <1>1, <1>3

LEMMA FailAlertInv == AlertInv /\ Fail => AlertInv'
<1> SUFFICES ASSUME AlertInv, Fail PROVE AlertInv'
  OBVIOUS
<1>1. /\ task \in Tasks /\ TypeOK /\ Calling /\ SumInv
  BY DEF AlertInv, TypeOK
<1>2. PICK x : x = Calls(task)[at]
  OBVIOUS
<1>3. /\ at \in 1..(End - 1) /\ x # "now"
      /\ failed' = failed \cup {x}
      /\ at' = IF x \in Markets THEN at + 1 ELSE 0
      /\ UNCHANGED <<task, value, seen, moves, got, total, alarm>>
  BY <1>2 DEF Fail, chain
<1>4. /\ End \in Nat /\ x \in Reads /\ x \notin DOMAIN got \cup failed /\ at > 0
      /\ ~alarm /\ failed \subseteq Markets
  <2>1. at > 0 /\ at \in at..(End - 1)
    BY <1>1, <1>3, CallsFacts
  <2>2. x \in Reads /\ End \in Nat
    BY <1>1, <1>2, <1>3, CallsFacts
  <2>3. QED
    BY <1>1, <1>2, <2>1, <2>2 DEF Calling
<1>5. /\ Reads' = Reads /\ End' = End /\ Calls(task)' = Calls(task)
      /\ Vectors(Domain)' = Vectors(Domain) /\ Vectors(seen)' = Vectors(seen)
  BY <1>3 DEF Reads, End, Vectors
<1>6. SumInv'
  BY <1>1, <1>3 DEF SumInv
<1>7. TypeOK'
  <2>1. at' \in 0..End /\ failed' \subseteq Reads \ {"now"}
    BY <1>1, <1>3, <1>4 DEF TypeOK
  <2>2. QED
    BY <1>1, <1>3, <1>5, <2>1 DEF TypeOK
<1>8. CASE at' # 0
  <2>1. x \in Markets /\ at' = at + 1
    BY <1>3, <1>8
  <2>2. ASSUME NEW i \in 1..at PROVE Calls(task)[i] \in DOMAIN got \cup failed'
    <3>1. CASE i = at
      BY <1>2, <1>3, <3>1
    <3>2. CASE i # at
      <4>1. i \in 1..(at - 1)
        BY <1>3, <3>2
      <4>2. QED
        BY <1>1, <1>3, <1>4, <4>1 DEF Calling
    <3>3. QED
      BY <3>1, <3>2
  <2>3. ASSUME NEW i \in (at + 1)..(End - 1) PROVE Calls(task)[i] \notin DOMAIN got \cup failed'
    <3>1. i \in at..(End - 1) /\ i \in 1..(End - 1) /\ i # at
      BY <1>3, <1>4
    <3>2. Calls(task)[i] # x
      BY <1>1, <1>2, <1>3, <3>1, CallsFacts
    <3>3. Calls(task)[i] \notin DOMAIN got \cup failed
      BY <1>1, <1>4, <3>1 DEF Calling
    <3>4. QED
      BY <1>3, <3>2, <3>3
  <2>4. DOMAIN got \cap failed' = {}
    BY <1>1, <1>3, <1>4 DEF Calling
  <2>5. 1..((at + 1) - 1) = 1..at
    BY <1>3
  <2>6. Calling'
    BY <1>1, <1>3, <1>4, <1>5, <2>1, <2>2, <2>3, <2>4, <2>5 DEF Calling
  <2>7. QED
    BY <1>6, <1>7, <1>8, <2>6, NotOver DEF AlertInv
<1>9. CASE at' = 0
  <2>1. x \notin Markets
    BY <1>3, <1>4, <1>9
  <2>2. NoFalseAlarm' /\ NoSilentMiss'
    BY <1>3, <1>4 DEF NoFalseAlarm, NoSilentMiss
  <2>3. Calling'
    BY <1>9 DEF Calling
  <2>4. QED
    BY <1>6, <1>7, <2>2, <2>3 DEF AlertInv, Promises
<1>10. QED
  BY <1>8, <1>9

\* At the end of a Run: what was not answered is a market that failed.
LEMMA AtEnd ==
    ASSUME TypeOK, Calling, at = End, NEW v, \A x \in DOMAIN got : v[x] = got[x]
    PROVE  /\ failed \subseteq Markets \cap Reads
           /\ task # "fees" => failed = {}
           /\ \A x \in Reads \ failed :
                 x \in DOMAIN got /\ v[x] = got[x] /\ got[x] \in Domain[x] /\ got[x] \in Int
<1>1. task \in Tasks /\ End > 1 /\ End \in Nat
  BY CallsFacts DEF TypeOK
<1>2. failed \subseteq Markets \cap Reads
  BY <1>1 DEF Calling, TypeOK
<1>3. task # "fees" => failed = {}
  <2>1. task # "fees" => Reads \subseteq Names
    BY <1>1, OtherCalls
  <2>2. QED
    BY <1>2, <2>1, AlertsAssumption
<1>4. ASSUME NEW x \in Reads \ failed
      PROVE  x \in DOMAIN got /\ v[x] = got[x] /\ got[x] \in Domain[x] /\ got[x] \in Int
  <2>1. PICK i \in 1..(End - 1) : Calls(task)[i] = x
    BY <1>1, CallsFacts
  <2>2. x \in DOMAIN got
    BY <1>1, <2>1 DEF Calling
  <2>3. got[x] \in Domain[x]
    BY <2>2 DEF TypeOK
  <2>4. x \in DOMAIN Domain
    BY <1>1, CallsFacts
  <2>5. QED
    BY <2>2, <2>3, <2>4, AlertsAssumption
<1>5. QED
  BY <1>2, <1>3, <1>4

\* The sum of the markets that answered is no more than that of all.
LEMMA FeesAtMost ==
    ASSUME TypeOK, Calling, SumInv, task = "fees", at = End,
           NEW v, \A x \in DOMAIN got : v[x] = got[x], \A x \in Reads : v[x] \in Domain[x]
    PROVE  /\ total = Claimable(v, Markets \ failed)
           /\ total \in Int /\ Claimable(v, Markets) \in Int
           /\ total <= Claimable(v, Markets)
           /\ failed = {} => total = Claimable(v, Markets)
<1>1. total = Claimable(v, Markets \ failed)
  <2>1. at \in {End - 1, End}
    OBVIOUS
  <2>2. QED
    BY <2>1, FeesSum
<1>2. Markets \subseteq Reads
  BY FeesCalls
<1>3. \A x \in Markets : v[x] \in Nat /\ v[x] \in Int /\ v[x] <= v[x]
  <2>1. \A x \in Markets : v[x] \in Nat
    BY <1>2, MarketFees
  <2>2. QED
    BY <2>1
<1>4. PICK T : T = Markets \ failed
  OBVIOUS
<1>5. T \in SUBSET Markets /\ IsFiniteSet(T) /\ IsFiniteSet(Markets)
  BY <1>4, MarketFees
<1>6. SumFunctionOnSet(v, T) <= SumFunctionOnSet(v, Markets)
  BY <1>3, <1>5, SumMonotone
<1>7. SumFunctionOnSet(v, T) \in Int /\ SumFunctionOnSet(v, Markets) \in Int
  BY <1>3, <1>5, SumIsInt
<1>8. failed = {} => T = Markets
  BY <1>4
<1>9. QED
  BY <1>1, <1>4, <1>6, <1>7, <1>8 DEF Claimable

\* What is complained of is bad, and without a failure what is bad is complained of.
LEMMA RaisesBad ==
    ASSUME TypeOK, Calling, SumInv, at = End,
           NEW v, \A x \in DOMAIN got : v[x] = got[x], \A x \in Reads : v[x] \in Domain[x]
    PROVE  /\ Raises(task, got) => Bad(v)
           /\ failed = {} /\ Bad(v) => Raises(task, got)
<1>1. task \in Tasks
  BY DEF TypeOK
<1>2. /\ failed \subseteq Markets
      /\ task # "fees" => failed = {}
      /\ \A x \in Reads \ failed : v[x] = got[x] /\ got[x] \in Domain[x] /\ got[x] \in Int
  BY AtEnd
<1>3. CASE task = "fees"
  <2>1. "bank" \in Reads /\ "bank" \notin failed
    BY <1>2, <1>3, FeesCalls, AlertsAssumption DEF Names
  <2>2. v["bank"] = got["bank"] /\ got["bank"] \in Int
    BY <1>2, <2>1
  <2>3. PICK all \in Int : /\ all = Claimable(v, Markets)
                           /\ total \in Int /\ total <= all
                           /\ failed = {} => total = all
    BY <1>3, FeesAtMost
  <2>4. Bad(v) <=> all - got["bank"] > 1000
    BY <1>3, <2>2, <2>3 DEF Bad
  <2>5. Raises(task, got) <=> total - got["bank"] > 1000
    BY <1>3 DEF Raises
  <2>6. QED
    BY <2>2, <2>3, <2>4, <2>5
<1>4. CASE task = "funding"
  <2>1. v["long"] = got["long"] /\ got["long"] \in Int /\ v["short"] = got["short"] /\ got["short"] \in Int
    BY <1>2, <1>4, FundingReads
  <2>2. /\ AbsSub(got["long"], got["short"]) = Distance(v) /\ Distance(v) \in Nat
        /\ AbsMax(got["long"], got["short"]) = Magnitude(v) /\ Magnitude(v) \in Nat
    BY <2>1, AbsSubIsDistance, AbsMaxIsMagnitude
  <2>3. Raises(task, got) <=> Magnitude(v) > 0 /\ 10 * Distance(v) > 9 * Magnitude(v)
    BY <1>4, <2>2 DEF Raises
  <2>4. Bad(v) <=> Magnitude(v) # 0 /\ 10 * Distance(v) > 9 * Magnitude(v)
    BY <1>4 DEF Bad
  <2>5. QED
    BY <2>2, <2>3, <2>4
<1>5. CASE task = "chainlink"
  <2>1. Reads = {"now", "updated"} /\ failed = {}
    BY <1>1, <1>2, <1>5, OtherReads
  <2>2. /\ v["now"] = got["now"] /\ v["updated"] = got["updated"]
        /\ got["now"] \in 0..(Word - 1) /\ got["updated"] \in 0..(Word - 1)
    BY <1>2, <2>1, AlertsAssumption
  <2>3. FeedAge(got["now"], got["updated"]) > 600 <=> got["now"] - got["updated"] > 600
    BY <2>2, FeedAgeLarge, AlertsAssumption
  <2>4. QED
    BY <1>5, <2>2, <2>3 DEF Raises, Bad
<1>6. CASE task \notin {"fees", "funding", "chainlink"}
  <2>1. failed = {} /\ \A x \in Reads : v[x] = got[x]
    BY <1>2, <1>6
  <2>2. CASE task = "vault_balances"
    BY <1>1, <2>1, <2>2, OtherReads DEF Raises, Bad
  <2>3. CASE task = "roles"
    BY <1>1, <2>1, <2>3, OtherReads DEF Raises, Bad
  <2>4. CASE task = "timelock"
    BY <1>1, <2>1, <2>4, OtherReads DEF Raises, Bad
  <2>5. CASE task = "features"
    BY <1>1, <2>1, <2>5, OtherReads DEF Raises, Bad
  <2>6. QED
    BY <1>1, <1>6, <2>2, <2>3, <2>4, <2>5, AlertsAssumption
<1>7. QED
  BY <1>3, <1>4, <1>5, <1>6

LEMMA ConcludeAlertInv == AlertInv /\ Conclude => AlertInv'
<1> SUFFICES ASSUME AlertInv, Conclude PROVE AlertInv'
  OBVIOUS
<1>1. /\ task \in Tasks /\ TypeOK /\ Calling /\ SumInv /\ End \in Nat /\ End > 1
      /\ at = End /\ at' = 0 /\ alarm' = Raises(task, got)
      /\ UNCHANGED <<task, value, seen, moves, got, total, failed>>
  BY CallsFacts DEF AlertInv, TypeOK, Conclude, chain
<1>2. PICK v \in Vectors(seen) : /\ \A x \in DOMAIN got : v[x] = got[x]
                                 /\ \A x \in Reads : v[x] \in Domain[x]
  BY <1>1, AnswerVector
<1>3. /\ failed \subseteq Markets
      /\ task # "fees" => failed = {}
      /\ \A x \in Reads \ failed : v[x] = got[x] /\ got[x] \in Domain[x] /\ got[x] \in Int
  BY <1>1, <1>2, AtEnd
<1>4. /\ Reads' = Reads /\ End' = End /\ Calls(task)' = Calls(task)
      /\ Vectors(Domain)' = Vectors(Domain) /\ Vectors(seen)' = Vectors(seen)
  BY <1>1 DEF Reads, End, Vectors
<1>5. /\ Raises(task, got) => Bad(v)
      /\ failed = {} /\ Bad(v) => Raises(task, got)
  BY <1>1, <1>2, RaisesBad
<1>6. \A w : Bad(w)' <=> Bad(w)
  BY <1>1 DEF Bad, Claimable
<1>7. NoFalseAlarm'
  <2>1. SUFFICES ASSUME alarm' PROVE \E w \in Vectors(seen)' : Bad(w)'
    BY DEF NoFalseAlarm
  <2>2. Bad(v)'
    BY <1>1, <1>5, <1>6, <2>1
  <2>3. v \in Vectors(seen)'
    BY <1>2, <1>4
  <2>4. QED
    BY <2>2, <2>3
<1>8. NoSilentMiss'
  <2>1. SUFFICES ASSUME failed' = {}, \A w \in Vectors(seen)' : Bad(w)' PROVE alarm'
    BY DEF NoSilentMiss
  <2>2. Bad(v)'
    BY <1>2, <1>4, <2>1
  <2>3. QED
    BY <1>1, <1>5, <1>6, <2>1, <2>2
<1>9. SumInv'
  BY <1>1 DEF SumInv
<1>10. Calling'
  BY <1>1 DEF Calling
<1>11. TypeOK'
  <2>1. alarm' \in BOOLEAN
    <3>1. task \in {"vault_balances", "roles", "timelock", "fees", "funding", "features",
                    "chainlink"}
      BY <1>1, AlertsAssumption
    <3>2. CASE task = "fees"
      <4>1. "bank" \in Reads \ failed
        BY <1>3, <3>2, FeesCalls, AlertsAssumption DEF Names
      <4>2. got["bank"] \in Int
        BY <1>3, <4>1
      <4>3. total \in Int
        BY <1>1, <1>2, <3>2, FeesAtMost
      <4>4. alarm' = (total - got["bank"] > 1000)
        BY <1>1, <3>2 DEF Raises
      <4>5. QED
        BY <4>2, <4>3, <4>4
    <3>3. CASE task # "fees"
      <4>1. failed = {} /\ \A x \in Reads : got[x] \in Int
        BY <1>3, <3>3
      <4>2. CASE task = "vault_balances"
        BY <1>1, <4>1, <4>2, OtherReads DEF Raises
      <4>3. CASE task = "roles"
        BY <1>1, <4>1, <4>3, OtherReads DEF Raises
      <4>4. CASE task = "timelock"
        BY <1>1, <4>1, <4>4, OtherReads DEF Raises
      <4>5. CASE task = "funding"
        BY <1>1, <4>5 DEF Raises
      <4>6. CASE task = "features"
        BY <1>1, <4>6 DEF Raises
      <4>7. CASE task = "chainlink"
        BY <1>1, <4>1, <4>7, OtherReads DEF Raises, FeedAge
      <4>8. QED
        BY <3>1, <3>3, <4>2, <4>3, <4>4, <4>5, <4>6, <4>7
    <3>4. QED
      BY <3>2, <3>3
  <2>2. 0 \in 0..End
    BY <1>1
  <2>3. QED
    BY <1>1, <1>4, <2>1, <2>2 DEF TypeOK
<1>12. QED
  BY <1>7, <1>8, <1>9, <1>10, <1>11 DEF AlertInv, Promises

LEMMA StepAlertInv == AlertInv /\ [Next]_vars => AlertInv'
<1> SUFFICES ASSUME AlertInv, [Next]_vars PROVE AlertInv'
  OBVIOUS
<1>1. CASE UNCHANGED vars
  <2>1. UNCHANGED <<task, at, value, seen, moves, got, total, failed, alarm>>
    BY <1>1 DEF vars, chain
  <2>2. /\ Reads' = Reads /\ End' = End
        /\ Vectors(Domain)' = Vectors(Domain) /\ Vectors(seen)' = Vectors(seen)
    BY <2>1 DEF Reads, End, Vectors
  <2>3. TypeOK' /\ SumInv'
    BY <2>1, <2>2 DEF AlertInv, TypeOK, SumInv
  <2>4. Calling'
    BY <2>1, <2>2 DEF AlertInv, Calling
  <2>a. \A w : Bad(w)' <=> Bad(w)
    BY <2>1 DEF Bad, Claimable
  <2>b. Over' = Over
    BY <2>1, <2>2 DEF Over
  <2>5. NoFalseAlarm'
    BY <2>1, <2>2, <2>a, <2>b DEF AlertInv, Promises, NoFalseAlarm
  <2>6. NoSilentMiss'
    BY <2>1, <2>2, <2>a, <2>b DEF AlertInv, Promises, NoSilentMiss
  <2>7. QED
    BY <2>3, <2>4, <2>5, <2>6 DEF AlertInv, Promises
<1>2. QED
  BY <1>1, StartAlertInv, MoveAlertInv, AnswerAlertInv, FailAlertInv, ConcludeAlertInv DEF Next

\* Alerts.TypeOK: whatever the reads give, the sum of fee.go Run is a sum of the fees of
\* its markets, with nothing left over from another Run.
THEOREM AlertsTypeCorrect == Spec => []TypeOK
<1>1. AlertInv => TypeOK
  BY DEF AlertInv
<1>2. QED
  BY InitAlertInv, StepAlertInv, <1>1, PTL DEF Spec

\* Alerts.NoFalseAlarm: what the Run of a task complains of was so, of values that its
\* reads had during it, whatever changed between the reads and whichever of them failed.
THEOREM NoFalse == Spec => []NoFalseAlarm
<1>1. AlertInv => NoFalseAlarm
  BY DEF AlertInv, Promises
<1>2. QED
  BY InitAlertInv, StepAlertInv, <1>1, PTL DEF Spec

\* Alerts.NoSilentMiss: what is bad throughout a Run is complained of, or the report says
\* which call failed.
THEOREM NoSilent == Spec => []NoSilentMiss
<1>1. AlertInv => NoSilentMiss
  BY DEF AlertInv, Promises
<1>2. QED
  BY InitAlertInv, StepAlertInv, <1>1, PTL DEF Spec

=============================================================================
