----------------------------- MODULE PlansProofs -----------------------------
(***************************************************************************)
(* That the plans of module TaskPlans are sound and regular in the sense   *)
(* of module Sweep, for every configuration: any versions, in any order,   *)
(* any vaults, markets, handlers, roles, keepers, features and feeds, and  *)
(* any of the twelve tasks.  With that, what SweepProofs says of      *)
(* regular tables holds of the program.                                    *)
(***************************************************************************)
EXTENDS SweepProofs

CONSTANTS Versions, Vaults, Markets, Timelocks, Handlers, UsdtSet, RoleNames, Keepers,
          FeatureNames, Feeds, Tasks

T == INSTANCE TaskPlans

TaskNames == {"vault_balances", "roles", "timelock", "market_params", "fees", "funding",
              "keeper_gas", "features", "queue", "market_oi", "oracle_config", "chainlink"}

Published(p) ==
    UNION {UNION {{s.pub[k] : k \in DOMAIN s.pub} : s \in StepsOf(item)} : item \in Items(p)}

\* Sweep runs the plans of a configuration.
Configured ==
    /\ Versions \in Seq(STRING) /\ Tasks \in Seq(TaskNames)
    /\ RoleNames \in Seq(STRING) /\ FeatureNames \in Seq(STRING)
    /\ Plans = T!AllPlans
    /\ Cut = T!CutMark
    /\ None = T!NoCall
    /\ Inputs = [g \in (UNION {Published(Plans[j]) : j \in Jobs}) \ {Cut} |-> T!GaugeInputs(g)]

-----------------------------------------------------------------------------
(* Sequences of sequences, end to end.                                      *)

FlatTo(f, ss, n) == f = [i \in 1..n |-> IF i = 1 THEN ss[i] ELSE f[i - 1] \o ss[i]]

LEMMA FlatExists ==
    ASSUME NEW ss, NEW n \in Nat
    PROVE  \E f : FlatTo(f, ss, n)
<1> DEFINE W == {m \in Nat : ~\E f : FlatTo(f, ss, m)}
<1> SUFFICES ASSUME W # {} PROVE FALSE
  OBVIOUS
<1>1. PICK m \in W : \A k \in W : m <= k
  <2>1. W \subseteq Nat
    OBVIOUS
  <2> HIDE DEF W
  <2>2. QED
    BY <2>1, MinOfNat
<1>2. CASE m = 0
  <2>1. FlatTo([i \in 1..0 |-> <<>>], ss, 0)
    BY DEF FlatTo
  <2>2. QED
    BY <1>2, <2>1
<1>3. CASE m # 0
  <2>1. m - 1 \in Nat /\ m - 1 \notin W
    BY <1>1, <1>3
  <2>2. PICK f : FlatTo(f, ss, m - 1)
    BY <2>1
  <2> DEFINE g == [i \in 1..m |-> IF i = 1 THEN ss[i] ELSE f[i - 1] \o ss[i]]
  <2>3. ASSUME NEW i \in 1..m, i # 1 PROVE f[i - 1] = g[i - 1]
    <3>1. i - 1 \in 1..(m - 1) /\ i - 1 \in 1..m
      BY <2>3
    <3>2. f[i - 1] = IF i - 1 = 1 THEN ss[i - 1] ELSE f[(i - 1) - 1] \o ss[i - 1]
      BY <2>2, <3>1 DEF FlatTo
    <3>3. QED
      BY <3>1, <3>2
  <2>4. FlatTo(g, ss, m)
    BY <2>3 DEF FlatTo
  <2>5. QED
    BY <2>4
<1>4. QED
  BY <1>2, <1>3

\* FlattenSeq holds nothing but elements of the parts.
LEMMA FlattenSeqType ==
    ASSUME NEW S, NEW ss \in Seq(Seq(S))
    PROVE  T!FlattenSeq(ss) \in Seq(S)
<1> DEFINE n == Len(ss)
<1>1. CASE n = 0
  BY <1>1 DEF T!FlattenSeq
<1>2. CASE n # 0
  <2>1. n \in Nat /\ n \in 1..n
    BY <1>2
  <2>2. PICK f : FlatTo(f, ss, n)
    BY <2>1, FlatExists
  <2>3. T!FlattenSeq(ss) = (CHOOSE h : FlatTo(h, ss, n))[n]
    BY <1>2 DEF T!FlattenSeq, FlatTo
  <2>4. PICK h : FlatTo(h, ss, n) /\ T!FlattenSeq(ss) = h[n]
    BY <2>2, <2>3
  <2> DEFINE W == {m \in 1..n : h[m] \notin Seq(S)}
  <2>5. W = {}
    <3> SUFFICES ASSUME W # {} PROVE FALSE
      OBVIOUS
    <3>1. PICK m \in W : \A k \in W : m <= k
      <4>1. W \subseteq Nat
        BY <2>1
      <4> HIDE DEF W
      <4>2. QED
        BY <4>1, MinOfNat
    <3>2. ss[m] \in Seq(S) /\ m \in 1..n
      OBVIOUS
    <3>3. h[m] = IF m = 1 THEN ss[m] ELSE h[m - 1] \o ss[m]
      BY <2>4, <3>2 DEF FlatTo
    <3>4. m # 1 => h[m - 1] \in Seq(S)
      <4>1. m # 1 => m - 1 \in 1..n /\ ~(m <= m - 1)
        BY <3>2
      <4>2. QED
        BY <3>1, <4>1
    <3>5. CASE m = 1
      BY <3>2, <3>3, <3>5
    <3>6. CASE m # 1
      <4>1. h[m] = h[m - 1] \o ss[m]
        BY <3>3, <3>6
      <4>2. h[m] \in Seq(S)
        BY <3>2, <3>4, <3>6, <4>1
      <4>3. QED
        BY <4>2
    <3>7. QED
      BY <3>5, <3>6
  <2>6. QED
    BY <2>1, <2>4, <2>5
<1>3. QED
  BY <1>1, <1>2

LEMMA AllPlansType ==
    ASSUME Configured
    PROVE  T!AllPlans \in Seq({T!PlanOf(v, t) : v \in STRING, t \in TaskNames})
<1> DEFINE S == {T!PlanOf(v, t) : v \in STRING, t \in TaskNames}
           ss == [i \in DOMAIN Versions |->
                     [j \in DOMAIN Tasks |-> T!PlanOf(Versions[i], Tasks[j])]]
<1>1. Versions \in Seq(STRING) /\ Tasks \in Seq(TaskNames)
  BY DEF Configured
<1>2. ASSUME NEW i \in DOMAIN Versions
      PROVE  [j \in DOMAIN Tasks |-> T!PlanOf(Versions[i], Tasks[j])] \in Seq(S)
  <2>1. Versions[i] \in STRING
    BY <1>1
  <2>2. \A j \in DOMAIN Tasks : Tasks[j] \in TaskNames
    BY <1>1
  <2>3. \A j \in DOMAIN Tasks : T!PlanOf(Versions[i], Tasks[j]) \in S
    BY <2>1, <2>2
  <2>4. DOMAIN Tasks = 1..Len(Tasks) /\ Len(Tasks) \in Nat
    BY <1>1
  <2> HIDE DEF S
  <2>5. QED
    BY <2>3, <2>4
<1>3. ss \in Seq(Seq(S))
  <2>1. DOMAIN Versions = 1..Len(Versions) /\ Len(Versions) \in Nat
    BY <1>1
  <2> HIDE DEF S
  <2>2. QED
    BY <1>2, <2>1
<1>4. T!AllPlans = T!FlattenSeq(ss)
  BY DEF T!AllPlans
<1> HIDE DEF S, ss
<1>5. QED
  BY <1>3, <1>4, FlattenSeqType DEF S

-----------------------------------------------------------------------------
(* Being a sequence, of whatever it holds.                                  *)

IsSeq(q) == q \in Seq({q[i] : i \in DOMAIN q})

LEMMA SeqWithin ==
    ASSUME NEW q, IsSeq(q), NEW S, \A i \in DOMAIN q : q[i] \in S
    PROVE  q \in Seq(S)
<1> DEFINE R == {q[i] : i \in DOMAIN q}
<1>1. q \in Seq(R)
  BY DEF IsSeq
<1>2. R \subseteq S
  OBVIOUS
<1> HIDE DEF R
<1>3. QED
  BY <1>1, <1>2

LEMMA SeqIsSeq ==
    ASSUME NEW U, NEW q \in Seq(U)
    PROVE  IsSeq(q)
<1> DEFINE R == {q[i] : i \in DOMAIN q}
<1>1. DOMAIN q = 1..Len(q) /\ Len(q) \in Nat
  OBVIOUS
<1>2. \A i \in DOMAIN q : q[i] \in R
  OBVIOUS
<1> HIDE DEF R
<1>3. q \in Seq(R)
  BY <1>1, <1>2
<1>4. QED
  BY <1>3 DEF IsSeq, R

LEMMA ShortSeqs ==
    /\ IsSeq(<<>>)
    /\ \A a : IsSeq(<<a>>)
    /\ \A a, b : IsSeq(<<a, b>>)
    /\ \A a, b, c, d : IsSeq(<<a, b, c, d>>)
    /\ \A a, b, c, d, e, f : IsSeq(<<a, b, c, d, e, f>>)
<1>1. <<>> \in Seq({})
  OBVIOUS
<1>2. \A a : <<a>> \in Seq({a})
  OBVIOUS
<1>3. \A a, b : <<a, b>> \in Seq({a, b})
  OBVIOUS
<1>4. \A a, b, c, d : <<a, b, c, d>> \in Seq({a, b, c, d})
  OBVIOUS
<1>5. \A a, b, c, d, e, f : <<a, b, c, d, e, f>> \in Seq({a, b, c, d, e, f})
  OBVIOUS
<1>6. QED
  BY <1>1, <1>2, <1>3, <1>4, <1>5, SeqIsSeq

LEMMA JoinedSeqs ==
    ASSUME NEW p, NEW q, IsSeq(p), IsSeq(q)
    PROVE  IsSeq(p \o q)
<1> DEFINE U == {p[i] : i \in DOMAIN p} \cup {q[i] : i \in DOMAIN q}
<1>1. p \in Seq(U)
  BY SeqWithin
<1>2. q \in Seq(U)
  BY SeqWithin
<1> HIDE DEF U
<1>3. p \o q \in Seq(U)
  BY <1>1, <1>2
<1>4. QED
  BY <1>3, SeqIsSeq

-----------------------------------------------------------------------------
(* The items of the twelve tasks are of five kinds.                         *)

Shown == {"native", "usdt", "delay", "minCollateral", "borrowing", "liquidationFee",
          "claimable", "keeper", "fdUsdt", "feature", "queue", "oi", "maxOI", "pool",
          "maxPool", "maxPriceAge", "feedAge"}

\* Every read is shown by a gauge of its own.
IsShow(s) == s.call[1] \in Shown /\ s.pub = <<s.call>> /\ s.onErr # "task"
ShowItem(item) == IsSeq(item) /\ \A i \in DOMAIN item : IsShow(item[i])

RoleItem(item) ==
    \E v, n : item = <<T!Step(<<"count", v, n>>, <<<<"count", v, n>>, T!CutMark>>, "item"),
                       T!Step(<<"members", v, n>>, <<>>, "item")>>

FundingItem(item) ==
    \E v, m : item = <<T!Step(<<"funding", v, m, "long">>, <<>>, "item"),
                       T!Step(<<"funding", v, m, "short">>,
                              <<<<"funding", v, m, "long">>, <<"funding", v, m, "short">>,
                                T!CutMark, <<"ratio", v, m>>>>, "item")>>

Claims(v) == {T!Single(<<"claimable", v, m>>) : m \in Markets[v]}
Total(v) == <<T!Step(T!NoCall, <<<<"total", v>>>>, "next")>>
Gap(v) == <<T!Step(<<"fdBalance", v>>, <<<<"gap", v>>>>, "task")>>

TotalItem(loops, l, item) == \E v : item = Total(v) /\ l = 2 /\ loops[1] = Claims(v)
GapItem(loops, l, item) ==
    \E v : /\ item = Gap(v) /\ l = 3 /\ Len(loops) = 3
           /\ loops[1] = Claims(v) /\ loops[3] = {Gap(v)}

Kind(loops, l, item) ==
    \/ ShowItem(item) \/ RoleItem(item) \/ FundingItem(item)
    \/ TotalItem(loops, l, item) \/ GapItem(loops, l, item)

LEMMA ShowIsShow ==
    ASSUME NEW r, NEW e, r[1] \in Shown, e # "task"
    PROVE  IsShow(T!Show(r, e))
  BY DEF T!Show, T!Step, IsShow

LEMMA ShowItems ==
    /\ \A a, b : IsShow(a) /\ IsShow(b) => ShowItem(<<a, b>>)
    /\ \A a, b, c, d : IsShow(a) /\ IsShow(b) /\ IsShow(c) /\ IsShow(d)
                         => ShowItem(<<a, b, c, d>>)
    /\ \A a, b, c, d, e, f :
          IsShow(a) /\ IsShow(b) /\ IsShow(c) /\ IsShow(d) /\ IsShow(e) /\ IsShow(f)
             => ShowItem(<<a, b, c, d, e, f>>)
  BY ShortSeqs DEF ShowItem

LEMMA SingleShows ==
    ASSUME NEW r, r[1] \in Shown
    PROVE  ShowItem(T!Single(r))
<1>1. IsShow(T!Show(r, "next"))
  BY ShowIsShow
<1>2. T!Single(r) = <<T!Show(r, "next")>>
  BY DEF T!Single
<1>3. QED
  BY <1>1, <1>2, ShortSeqs DEF ShowItem

LEMMA OnlyLoop ==
    ASSUME NEW A, NEW q, q = <<A>>, NEW k \in DOMAIN q
    PROVE  q[k] = A
  OBVIOUS

\* One case per task, as its Run is written.
LEMMA PlanKinds ==
    ASSUME Configured, NEW v \in STRING, NEW t \in TaskNames,
           NEW l \in DOMAIN T!PlanOf(v, t).loops, NEW item \in T!PlanOf(v, t).loops[l]
    PROVE  Kind(T!PlanOf(v, t).loops, l, item)
<1> DEFINE p == T!PlanOf(v, t)
<1>0. l \in DOMAIN p.loops /\ item \in p.loops[l]
  OBVIOUS
<1> HIDE DEF p
<1>1. CASE t = "vault_balances"
  <2> DEFINE A == {<<T!Show(<<"native", v, n>>, "item"), T!Show(<<"usdt", v, n>>, "item")>>
                         : n \in Vaults[v]}
  <2>1. p.loops = <<A>>
    BY <1>1 DEF p, T!PlanOf, T!VaultBalances, T!Plan
  <2>2. item \in A
    <3> HIDE DEF A
    <3>1. QED
      BY <1>0, <2>1, OnlyLoop
  <2>3. PICK n : item = <<T!Show(<<"native", v, n>>, "item"), T!Show(<<"usdt", v, n>>, "item")>>
    BY <2>2
  <2>4. IsShow(T!Show(<<"native", v, n>>, "item")) /\ IsShow(T!Show(<<"usdt", v, n>>, "item"))
    BY ShowIsShow DEF Shown
  <2>5. ShowItem(item)
    BY <2>3, <2>4, ShowItems
  <2>6. QED
    BY <2>5 DEF Kind, p
<1>2. CASE t = "roles"
  <2>1. p.loops = [i \in DOMAIN RoleNames |->
                      {<<T!Step(<<"count", v, RoleNames[i]>>,
                                <<<<"count", v, RoleNames[i]>>, T!CutMark>>, "item"),
                         T!Step(<<"members", v, RoleNames[i]>>, <<>>, "item")>>}]
    BY <1>2 DEF p, T!PlanOf, T!Roles, T!Plan
  <2>2. l \in DOMAIN RoleNames
    BY <1>0, <2>1
  <2>3. item = <<T!Step(<<"count", v, RoleNames[l]>>,
                        <<<<"count", v, RoleNames[l]>>, T!CutMark>>, "item"),
                 T!Step(<<"members", v, RoleNames[l]>>, <<>>, "item")>>
    BY <1>0, <2>1, <2>2
  <2>4. RoleItem(item)
    BY <2>3 DEF RoleItem
  <2>5. QED
    BY <2>4 DEF Kind, p
<1>3. CASE t = "timelock"
  <2> DEFINE A == {T!Single(<<"delay", v, n>>) : n \in Timelocks[v]}
  <2>1. p.loops = <<A>>
    BY <1>3 DEF p, T!PlanOf, T!Timelock, T!Plan
  <2>2. item \in A
    <3> HIDE DEF A
    <3>1. QED
      BY <1>0, <2>1, OnlyLoop
  <2>3. PICK n : item = T!Single(<<"delay", v, n>>)
    BY <2>2
  <2>4. QED
    BY <2>3, SingleShows DEF Kind, p, Shown
<1>4. CASE t = "market_params"
  <2> DEFINE A == {<<T!Show(<<"minCollateral", v, m>>, "next"),
                        T!Show(<<"borrowing", v, m, "long">>, "next"),
                        T!Show(<<"borrowing", v, m, "short">>, "next"),
                        T!Show(<<"liquidationFee", v, m>>, "next")>> : m \in Markets[v]}
  <2>1. p.loops = <<A>>
    BY <1>4 DEF p, T!PlanOf, T!MarketParams, T!Plan
  <2>2. item \in A
    <3> HIDE DEF A
    <3>1. QED
      BY <1>0, <2>1, OnlyLoop
  <2>3. PICK m : item = <<T!Show(<<"minCollateral", v, m>>, "next"),
                          T!Show(<<"borrowing", v, m, "long">>, "next"),
                          T!Show(<<"borrowing", v, m, "short">>, "next"),
                          T!Show(<<"liquidationFee", v, m>>, "next")>>
    BY <2>2
  <2>4. /\ IsShow(T!Show(<<"minCollateral", v, m>>, "next"))
        /\ IsShow(T!Show(<<"borrowing", v, m, "long">>, "next"))
        /\ IsShow(T!Show(<<"borrowing", v, m, "short">>, "next"))
        /\ IsShow(T!Show(<<"liquidationFee", v, m>>, "next"))
    BY ShowIsShow DEF Shown
  <2>5. ShowItem(item)
    BY <2>3, <2>4, ShowItems
  <2>6. QED
    BY <2>5 DEF Kind, p
<1>5. CASE t = "fees"
  <2>1. p = T!Fees(v)
    BY <1>5 DEF p, T!PlanOf
  <2>2. Markets[v] # {}
    <3>1. Markets[v] = {} => p.loops = <<>>
      BY <2>1 DEF T!Fees, T!Plan
    <3>2. QED
      BY <1>0, <3>1
  <2>3. \/ p.loops = <<Claims(v), {Total(v)}>>
        \/ p.loops = <<Claims(v), {Total(v)}, {Gap(v)}>>
    <3> DEFINE end == IF T!FD \in Vaults[v] THEN <<{Gap(v)}>> ELSE <<>>
    <3>1. p.loops = <<Claims(v), {Total(v)}>> \o end
      BY <2>1, <2>2 DEF T!Fees, T!Plan, Claims, Total, Gap
    <3>2. ASSUME NEW x, NEW y, NEW z
          PROVE  <<x, y>> \o <<z>> = <<x, y, z>> /\ <<x, y>> \o <<>> = <<x, y>>
      <4> DEFINE U == {x, y, z}
      <4>1. <<x, y>> \in Seq(U) /\ <<z>> \in Seq(U) /\ <<>> \in Seq(U)
        OBVIOUS
      <4>2. Len(<<x, y>>) = 2 /\ Len(<<z>>) = 1 /\ Len(<<>>) = 0
        OBVIOUS
      <4>3. <<x, y>> \o <<>> = <<x, y>>
        BY <4>1
      <4>4. /\ <<x, y>> \o <<z>> \in Seq(U) /\ Len(<<x, y>> \o <<z>>) = 3
            /\ (<<x, y>> \o <<z>>)[1] = x /\ (<<x, y>> \o <<z>>)[2] = y
            /\ (<<x, y>> \o <<z>>)[3] = z
        BY <4>1, <4>2
      <4>6. <<x, y>> \o <<z>> = <<x, y, z>>
        <5> DEFINE c == <<x, y>> \o <<z>>
                   d == <<x, y, z>>
        <5>1. d \in Seq(U) /\ Len(d) = 3 /\ d[1] = x /\ d[2] = y /\ d[3] = z
          OBVIOUS
        <5> HIDE DEF d, U
        <5>2. c \in Seq(U) /\ Len(c) = 3 /\ c[1] = d[1] /\ c[2] = d[2] /\ c[3] = d[3]
          BY <4>4, <5>1
        <5> HIDE DEF c
        <5>3. \A k \in 1..3 : c[k] = d[k]
          BY <5>2
        <5>4. c = d
          BY <5>1, <5>2, <5>3
        <5>5. QED
          BY <5>4 DEF c, d
      <4>7. QED
        BY <4>3, <4>6
    <3>3. CASE T!FD \in Vaults[v]
      BY <3>1, <3>2, <3>3
    <3>4. CASE T!FD \notin Vaults[v]
      BY <3>1, <3>2, <3>4
    <3>5. QED
      BY <3>3, <3>4
  <2>4. /\ l \in {1, 2, 3} /\ p.loops[1] = Claims(v) /\ p.loops[2] = {Total(v)}
        /\ l = 3 => Len(p.loops) = 3 /\ p.loops[3] = {Gap(v)}
    BY <1>0, <2>3
  <2>5. CASE l = 1
    <3>1. PICK m : item = T!Single(<<"claimable", v, m>>)
      BY <1>0, <2>4, <2>5 DEF Claims
    <3>2. QED
      BY <3>1, SingleShows DEF Kind, p, Shown
  <2>6. CASE l = 2
    BY <1>0, <2>4, <2>6 DEF Kind, p, TotalItem
  <2>7. CASE l = 3
    BY <1>0, <2>4, <2>7 DEF Kind, p, GapItem
  <2>8. QED
    BY <2>4, <2>5, <2>6, <2>7
<1>6. CASE t = "funding"
  <2> DEFINE A == {<<T!Step(<<"funding", v, m, "long">>, <<>>, "item"),
                        T!Step(<<"funding", v, m, "short">>,
                               <<<<"funding", v, m, "long">>, <<"funding", v, m, "short">>,
                                 T!CutMark, <<"ratio", v, m>>>>, "item")>> : m \in Markets[v]}
  <2>1. p.loops = <<A>>
    BY <1>6 DEF p, T!PlanOf, T!Funding, T!Plan
  <2>2. item \in A
    <3> HIDE DEF A
    <3>1. QED
      BY <1>0, <2>1, OnlyLoop
  <2>3. PICK m : item = <<T!Step(<<"funding", v, m, "long">>, <<>>, "item"),
                          T!Step(<<"funding", v, m, "short">>,
                                 <<<<"funding", v, m, "long">>, <<"funding", v, m, "short">>,
                                   T!CutMark, <<"ratio", v, m>>>>, "item")>>
    BY <2>2
  <2>4. FundingItem(item)
    BY <2>3 DEF FundingItem
  <2>5. QED
    BY <2>4 DEF Kind, p
<1>7. CASE t = "keeper_gas"
  <2> DEFINE a == IF v = "v1" THEN <<{T!Single(<<"keeper", k>>) : k \in Keepers}>> ELSE <<>>
             b == IF T!FD \in Vaults[v] /\ v \in UsdtSet
                  THEN <<{T!Single(<<"fdUsdt", v>>)}>> ELSE <<>>
  <2>1. p.loops = a \o b
    BY <1>7 DEF p, T!PlanOf, T!KeeperGas, T!Plan
  <2>2. p.loops[l] \in {{T!Single(<<"keeper", k>>) : k \in Keepers}, {T!Single(<<"fdUsdt", v>>)}}
    <3>1. l \in DOMAIN (a \o b)
      BY <1>0, <2>1
    <3>2. (a \o b)[l] \in {{T!Single(<<"keeper", k>>) : k \in Keepers},
                           {T!Single(<<"fdUsdt", v>>)}}
      BY <3>1
    <3>3. QED
      BY <2>1, <3>2
  <2>3. \/ \E k : item = T!Single(<<"keeper", k>>)
        \/ item = T!Single(<<"fdUsdt", v>>)
    BY <1>0, <2>2
  <2>4. ShowItem(item)
    <3>1. \A k : <<"keeper", k>>[1] \in Shown
      BY DEF Shown
    <3>2. <<"fdUsdt", v>>[1] \in Shown
      BY DEF Shown
    <3>3. QED
      BY <2>3, <3>1, <3>2, SingleShows
  <2>5. QED
    BY <2>4 DEF Kind, p
<1>8. CASE t = "features"
  <2> DEFINE root(i) == {T!Single(<<"feature", v, FeatureNames[i], "root">>)}
             each(i) == {T!Single(<<"feature", v, FeatureNames[i], h>>) : h \in Handlers[v]}
             S == {root(i) : i \in DOMAIN FeatureNames} \cup {each(i) : i \in DOMAIN FeatureNames}
             ss == [i \in DOMAIN FeatureNames |-> <<root(i), each(i)>>]
  <2>1. p.loops = T!FlattenSeq(ss)
    BY <1>8 DEF p, T!PlanOf, T!Features, T!Plan
  <2>2. ss \in Seq(Seq(S))
    <3>1. \A i \in DOMAIN FeatureNames : root(i) \in S /\ each(i) \in S
      OBVIOUS
    <3>2. DOMAIN FeatureNames = 1..Len(FeatureNames) /\ Len(FeatureNames) \in Nat
      BY DEF Configured
    <3> HIDE DEF S, root, each
    <3>3. \A i \in DOMAIN FeatureNames : <<root(i), each(i)>> \in Seq(S)
      BY <3>1
    <3>4. QED
      BY <3>2, <3>3
  <2>3. p.loops \in Seq(S)
    <3> HIDE DEF S, ss, p
    <3>1. QED
      BY <2>1, <2>2, FlattenSeqType
  <2>4. p.loops[l] \in S
    <3> HIDE DEF S
    <3>1. QED
      BY <1>0, <2>3
  <2>5. \E n, h : item = T!Single(<<"feature", v, n, h>>)
    BY <1>0, <2>4
  <2>6. QED
    BY <2>5, SingleShows DEF Kind, p, Shown
<1>9. CASE t = "queue"
  <2>1. p.loops = [i \in DOMAIN T!Lists |-> {T!Single(<<"queue", v, T!Lists[i]>>)}]
    BY <1>9 DEF p, T!PlanOf, T!Queue, T!Plan
  <2>2. item = T!Single(<<"queue", v, T!Lists[l]>>)
    BY <1>0, <2>1
  <2>3. QED
    BY <2>2, SingleShows DEF Kind, p, Shown
<1>10. CASE t = "market_oi"
  <2> DEFINE A == {<<T!Show(<<"oi", v, m, "long">>, "next"),
                        T!Show(<<"maxOI", v, m, "long">>, "next"),
                        T!Show(<<"oi", v, m, "short">>, "next"),
                        T!Show(<<"maxOI", v, m, "short">>, "next"),
                        T!Show(<<"pool", v, m>>, "next"),
                        T!Show(<<"maxPool", v, m>>, "next")>> : m \in Markets[v]}
  <2>1. p.loops = <<A>>
    BY <1>10 DEF p, T!PlanOf, T!MarketOI, T!Plan
  <2>2. item \in A
    <3> HIDE DEF A
    <3>1. QED
      BY <1>0, <2>1, OnlyLoop
  <2>3. PICK m : item = <<T!Show(<<"oi", v, m, "long">>, "next"),
                          T!Show(<<"maxOI", v, m, "long">>, "next"),
                          T!Show(<<"oi", v, m, "short">>, "next"),
                          T!Show(<<"maxOI", v, m, "short">>, "next"),
                          T!Show(<<"pool", v, m>>, "next"),
                          T!Show(<<"maxPool", v, m>>, "next")>>
    BY <2>2
  <2>4. /\ IsShow(T!Show(<<"oi", v, m, "long">>, "next"))
        /\ IsShow(T!Show(<<"maxOI", v, m, "long">>, "next"))
        /\ IsShow(T!Show(<<"oi", v, m, "short">>, "next"))
        /\ IsShow(T!Show(<<"maxOI", v, m, "short">>, "next"))
        /\ IsShow(T!Show(<<"pool", v, m>>, "next"))
        /\ IsShow(T!Show(<<"maxPool", v, m>>, "next"))
    BY ShowIsShow DEF Shown
  <2>5. ShowItem(item)
    BY <2>3, <2>4, ShowItems
  <2>6. QED
    BY <2>5 DEF Kind, p
<1>11. CASE t = "oracle_config"
  <2>1. p.loops = <<{T!Single(<<"maxPriceAge", v>>)}>>
    BY <1>11 DEF p, T!PlanOf, T!OracleConfig, T!Plan
  <2>2. item = T!Single(<<"maxPriceAge", v>>)
    BY <1>0, <2>1, OnlyLoop
  <2>3. QED
    BY <2>2, SingleShows DEF Kind, p, Shown
<1>12. CASE t = "chainlink"
  <2>1. p.loops \in {<<>>, <<{T!Single(<<"feedAge", f>>) : f \in Feeds}>>}
    BY <1>12 DEF p, T!PlanOf, T!Chainlink, T!Plan
  <2>2. PICK f : item = T!Single(<<"feedAge", f>>)
    <3>1. p.loops # <<>>
      BY <1>0
    <3>2. p.loops = <<{T!Single(<<"feedAge", f>>) : f \in Feeds}>>
      BY <2>1, <3>1
    <3>3. QED
      <4> DEFINE A == {T!Single(<<"feedAge", f>>) : f \in Feeds}
      <4>1. item \in A
        <5>1. p.loops = <<A>>
          BY <3>2
        <5> HIDE DEF A
        <5>2. QED
          BY <1>0, <5>1, OnlyLoop
      <4>2. QED
        BY <4>1
  <2>3. QED
    BY <2>2, SingleShows DEF Kind, p, Shown
<1>13. QED
  BY <1>1, <1>2, <1>3, <1>4, <1>5, <1>6, <1>7, <1>8, <1>9, <1>10, <1>11, <1>12 DEF TaskNames


LEMMA KindOf ==
    ASSUME Configured, NEW j \in Jobs, NEW l \in DOMAIN Plans[j].loops,
           NEW item \in Plans[j].loops[l]
    PROVE  Kind(Plans[j].loops, l, item)
<1> DEFINE S == {T!PlanOf(v, t) : v \in STRING, t \in TaskNames}
<1>1. Plans \in Seq(S)
  BY AllPlansType DEF Configured
<1>2. Plans[j] \in S
  <2> HIDE DEF S
  <2>1. QED
    BY <1>1 DEF Jobs
<1>3. PICK v \in STRING, t \in TaskNames : Plans[j] = T!PlanOf(v, t)
  BY <1>2
<1>4. l \in DOMAIN T!PlanOf(v, t).loops /\ item \in T!PlanOf(v, t).loops[l]
  BY <1>3
<1>5. Kind(T!PlanOf(v, t).loops, l, item)
  BY <1>4, PlanKinds
<1>6. QED
  BY <1>3, <1>5

-----------------------------------------------------------------------------
(* What the items of each kind call and publish.                            *)

LEMMA RoleFields ==
    ASSUME NEW item, RoleItem(item)
    PROVE  \E v, n : /\ DOMAIN item = {1, 2}
                     /\ item[1].call = <<"count", v, n>>
                     /\ item[1].pub = <<<<"count", v, n>>, T!CutMark>>
                     /\ item[2].call = <<"members", v, n>> /\ item[2].pub = <<>>
                     /\ item[1].onErr # "task" /\ item[2].onErr # "task"
<1>1. PICK v, n : item = <<T!Step(<<"count", v, n>>, <<<<"count", v, n>>, T!CutMark>>, "item"),
                           T!Step(<<"members", v, n>>, <<>>, "item")>>
  BY DEF RoleItem
<1>2. DOMAIN item = {1, 2}
  BY <1>1
<1>3. QED
  BY <1>1, <1>2 DEF T!Step

LEMMA FundingFields ==
    ASSUME NEW item, FundingItem(item)
    PROVE  \E v, m : /\ DOMAIN item = {1, 2}
                     /\ item[1].call = <<"funding", v, m, "long">> /\ item[1].pub = <<>>
                     /\ item[2].call = <<"funding", v, m, "short">>
                     /\ item[2].pub = <<<<"funding", v, m, "long">>,
                                        <<"funding", v, m, "short">>,
                                        T!CutMark, <<"ratio", v, m>>>>
                     /\ item[1].onErr = "item" /\ item[2].onErr # "task"
<1>1. PICK v, m : item = <<T!Step(<<"funding", v, m, "long">>, <<>>, "item"),
                           T!Step(<<"funding", v, m, "short">>,
                                  <<<<"funding", v, m, "long">>, <<"funding", v, m, "short">>,
                                    T!CutMark, <<"ratio", v, m>>>>, "item")>>
  BY DEF FundingItem
<1>2. DOMAIN item = {1, 2}
  BY <1>1
<1>3. QED
  BY <1>1, <1>2 DEF T!Step

LEMMA TotalFields ==
    ASSUME NEW v
    PROVE  /\ DOMAIN Total(v) = {1} /\ Total(v)[1].call = T!NoCall
           /\ Total(v)[1].pub = <<<<"total", v>>>> /\ Total(v)[1].onErr # "task"
  BY DEF Total, T!Step

LEMMA GapFields ==
    ASSUME NEW v
    PROVE  /\ DOMAIN Gap(v) = {1} /\ Gap(v)[1].call = <<"fdBalance", v>>
           /\ Gap(v)[1].pub = <<<<"gap", v>>>>
  BY DEF Gap, T!Step

LEMMA ClaimCalls ==
    ASSUME NEW v, NEW m \in Markets[v]
    PROVE  \E other \in Claims(v) : \E s \in StepsOf(other) : s.call = <<"claimable", v, m>>
<1>1. T!Single(<<"claimable", v, m>>) \in Claims(v)
  BY DEF Claims
<1>2. T!Show(<<"claimable", v, m>>, "next") \in StepsOf(T!Single(<<"claimable", v, m>>))
  BY DEF StepsOf, T!Single
<1>3. T!Show(<<"claimable", v, m>>, "next").call = <<"claimable", v, m>>
  BY DEF T!Show, T!Step
<1>4. QED
  BY <1>1, <1>2, <1>3

Plain == Shown \cup {"count", "funding"}

LEMMA PlainInputs ==
    ASSUME NEW g, g[1] \in Plain
    PROVE  T!GaugeInputs(g) = {g} /\ g # T!CutMark /\ g # T!NoCall /\ g[1] # "members"
  BY DEF Plain, Shown, T!GaugeInputs, T!CutMark, T!NoCall

LEMMA TotalInputs ==
    ASSUME NEW v
    PROVE  T!GaugeInputs(<<"total", v>>) = {<<"claimable", v, n>> : n \in Markets[v]}
  BY DEF T!GaugeInputs

LEMMA GapInputs ==
    ASSUME NEW v
    PROVE  T!GaugeInputs(<<"gap", v>>) =
              {<<"claimable", v, n>> : n \in Markets[v]} \cup {<<"fdBalance", v>>}
  BY DEF T!GaugeInputs

LEMMA RatioInputs ==
    ASSUME NEW v, NEW m
    PROVE  T!GaugeInputs(<<"ratio", v, m>>) =
              {<<"funding", v, m, "long">>, <<"funding", v, m, "short">>}
  BY DEF T!GaugeInputs

\* The call x is one of the first i steps of the item, or of an earlier loop.
CalledBy(x, loops, l, item, i) ==
    \/ \E h \in 1..i : item[h].call = x
    \/ \E m \in 1..(l - 1) : \E other \in loops[m] : \E s \in StepsOf(other) : s.call = x

\* What a gauge is computed from has been called by the time it is set.
LEMMA InputsCalled ==
    ASSUME NEW loops, NEW l, NEW item, Kind(loops, l, item),
           NEW i \in DOMAIN item, i \in Nat \ {0}, NEW k \in DOMAIN item[i].pub,
           item[i].pub[k] # T!CutMark, NEW x \in T!GaugeInputs(item[i].pub[k])
    PROVE  CalledBy(x, loops, l, item, i)
<1> SUFFICES \/ \E h \in 1..i : item[h].call = x
             \/ \E m \in 1..(l - 1) : \E other \in loops[m] : \E s \in StepsOf(other) : s.call = x
  BY DEF CalledBy
<1>1. CASE ShowItem(item)
  <2>1. IsShow(item[i])
    BY <1>1 DEF ShowItem
  <2>2. item[i].pub[k] = item[i].call /\ item[i].call[1] \in Plain
    BY <2>1 DEF IsShow, Plain
  <2>3. x = item[i].call
    BY <2>2, PlainInputs
  <2>4. i \in 1..i
    BY <1>1
  <2>5. QED
    BY <2>3, <2>4
<1>2. CASE RoleItem(item)
  <2>1. PICK v, n : /\ DOMAIN item = {1, 2} /\ item[1].call = <<"count", v, n>>
                    /\ item[1].pub = <<<<"count", v, n>>, T!CutMark>> /\ item[2].pub = <<>>
    BY <1>2, RoleFields
  <2>2. i = 1 /\ item[i].pub[k] = <<"count", v, n>>
    BY <2>1
  <2>3. <<"count", v, n>>[1] \in Plain
    BY DEF Plain
  <2>4. x = item[1].call
    BY <2>1, <2>2, <2>3, PlainInputs
  <2>5. QED
    BY <2>2, <2>4
<1>3. CASE FundingItem(item)
  <2>1. PICK v, m : /\ DOMAIN item = {1, 2} /\ item[1].pub = <<>>
                    /\ item[1].call = <<"funding", v, m, "long">>
                    /\ item[2].call = <<"funding", v, m, "short">>
                    /\ item[2].pub = <<<<"funding", v, m, "long">>,
                                       <<"funding", v, m, "short">>,
                                       T!CutMark, <<"ratio", v, m>>>>
    BY <1>3, FundingFields
  <2>2. i = 2 /\ item[i].pub[k] \in {<<"funding", v, m, "long">>, <<"funding", v, m, "short">>,
                                     <<"ratio", v, m>>}
    BY <2>1
  <2>3. <<"funding", v, m, "long">>[1] \in Plain /\ <<"funding", v, m, "short">>[1] \in Plain
    BY DEF Plain
  <2>4. x \in {<<"funding", v, m, "long">>, <<"funding", v, m, "short">>}
    <3>1. CASE item[i].pub[k] = <<"ratio", v, m>>
      BY <3>1, RatioInputs
    <3>2. CASE item[i].pub[k] # <<"ratio", v, m>>
      <4>1. item[i].pub[k][1] \in Plain
        BY <2>2, <2>3, <3>2
      <4>2. x = item[i].pub[k]
        BY <4>1, PlainInputs
      <4>3. QED
        BY <2>2, <3>2, <4>2
    <3>3. QED
      BY <3>1, <3>2
  <2>5. QED
    BY <2>1, <2>2, <2>4
<1>4. CASE TotalItem(loops, l, item)
  <2>1. PICK v : item = Total(v) /\ l = 2 /\ loops[1] = Claims(v)
    BY <1>4 DEF TotalItem
  <2>2. item[i].pub[k] = <<"total", v>>
    BY <2>1, TotalFields
  <2>3. PICK m \in Markets[v] : x = <<"claimable", v, m>>
    BY <2>2, TotalInputs
  <2>4. QED
    BY <2>1, <2>3, ClaimCalls
<1>5. CASE GapItem(loops, l, item)
  <2>1. PICK v : item = Gap(v) /\ l = 3 /\ loops[1] = Claims(v)
    BY <1>5 DEF GapItem
  <2>2. item[i].pub[k] = <<"gap", v>> /\ i = 1 /\ item[1].call = <<"fdBalance", v>>
    BY <2>1, GapFields
  <2>3. CASE x = <<"fdBalance", v>>
    BY <2>2, <2>3
  <2>4. CASE x # <<"fdBalance", v>>
    <3>1. PICK m \in Markets[v] : x = <<"claimable", v, m>>
      BY <2>2, <2>4, GapInputs
    <3>2. PICK other \in Claims(v) : \E s \in StepsOf(other) : s.call = x
      BY <3>1, ClaimCalls
    <3>3. 1 \in 1..(l - 1) /\ other \in loops[1]
      BY <2>1, <3>2
    <3>4. QED
      BY <3>2, <3>3
  <2>5. QED
    BY <2>3, <2>4
<1>6. QED
  BY <1>1, <1>2, <1>3, <1>4, <1>5 DEF Kind

\* An item that publishes g calls what g is computed from, or calls nothing; and no
\* gauge is computed from the members of a role.
LEMMA ItemsCall ==
    ASSUME NEW loops, NEW l, NEW item, Kind(loops, l, item),
           NEW i \in DOMAIN item, NEW k \in DOMAIN item[i].pub, item[i].pub[k] # T!CutMark
    PROVE  /\ \/ \A s \in StepsOf(item) : s.call = T!NoCall
              \/ \E s \in StepsOf(item) :
                    s.call \in T!GaugeInputs(item[i].pub[k]) /\ s.call # T!NoCall
           /\ \A x \in T!GaugeInputs(item[i].pub[k]) : x[1] # "members"
<1>1. CASE ShowItem(item)
  <2>1. IsShow(item[i])
    BY <1>1 DEF ShowItem
  <2>2. item[i].pub[k] = item[i].call /\ item[i].call[1] \in Plain
    BY <2>1 DEF IsShow, Plain
  <2>3. QED
    BY <2>2, PlainInputs DEF StepsOf
<1>2. CASE RoleItem(item)
  <2>1. PICK v, n : /\ DOMAIN item = {1, 2} /\ item[1].call = <<"count", v, n>>
                    /\ item[1].pub = <<<<"count", v, n>>, T!CutMark>> /\ item[2].pub = <<>>
    BY <1>2, RoleFields
  <2>2. item[i].pub[k] = item[1].call
    BY <2>1
  <2>3. <<"count", v, n>>[1] \in Plain
    BY DEF Plain
  <2>4. QED
    BY <2>1, <2>2, <2>3, PlainInputs DEF StepsOf
<1>3. CASE FundingItem(item)
  <2>1. PICK v, m : /\ DOMAIN item = {1, 2} /\ item[1].pub = <<>>
                    /\ item[1].call = <<"funding", v, m, "long">>
                    /\ item[2].call = <<"funding", v, m, "short">>
                    /\ item[2].pub = <<<<"funding", v, m, "long">>,
                                       <<"funding", v, m, "short">>,
                                       T!CutMark, <<"ratio", v, m>>>>
    BY <1>3, FundingFields
  <2>2. item[i].pub[k] \in {item[1].call, item[2].call, <<"ratio", v, m>>}
    BY <2>1
  <2>3. item[1].call[1] \in Plain /\ item[2].call[1] \in Plain
    BY <2>1 DEF Plain
  <2>4. item[1] \in StepsOf(item) /\ item[2] \in StepsOf(item)
    BY <2>1 DEF StepsOf
  <2>5. T!GaugeInputs(<<"ratio", v, m>>) = {item[1].call, item[2].call}
    BY <2>1, RatioInputs
  <2>6. QED
    BY <2>2, <2>3, <2>4, <2>5, PlainInputs
<1>4. CASE TotalItem(loops, l, item)
  <2>1. PICK v : item = Total(v)
    BY <1>4 DEF TotalItem
  <2>2. item[i].pub[k] = <<"total", v>>
    BY <2>1, TotalFields
  <2>3. \A s \in StepsOf(item) : s.call = T!NoCall
    BY <2>1, TotalFields DEF StepsOf
  <2>4. QED
    BY <2>2, <2>3, TotalInputs
<1>5. CASE GapItem(loops, l, item)
  <2>1. PICK v : item = Gap(v)
    BY <1>5 DEF GapItem
  <2>2. item[i].pub[k] = <<"gap", v>> /\ item[1].call = <<"fdBalance", v>>
    BY <2>1, GapFields
  <2>3. item[1] \in StepsOf(item)
    BY <2>1, GapFields DEF StepsOf
  <2>4. item[1].call # T!NoCall
    BY <2>2 DEF T!NoCall
  <2>5. \A x \in T!GaugeInputs(<<"gap", v>>) : x[1] # "members"
    BY GapInputs
  <2>6. item[1].call \in T!GaugeInputs(<<"gap", v>>)
    BY <2>2, GapInputs
  <2>7. QED
    BY <2>2, <2>3, <2>4, <2>5, <2>6
<1>6. QED
  BY <1>1, <1>2, <1>3, <1>4, <1>5 DEF Kind

\* Only the last loop of the fees returns early, and it has the one item.
LEMMA EarlyReturn ==
    ASSUME NEW loops, NEW l, NEW item, Kind(loops, l, item),
           NEW i \in DOMAIN item, item[i].onErr = "task"
    PROVE  l = 3 /\ Len(loops) = 3 /\ loops[3] = {item}
<1>1. ~ShowItem(item)
  BY DEF ShowItem, IsShow
<1>2. ~RoleItem(item)
  BY RoleFields
<1>3. ~FundingItem(item)
  BY FundingFields
<1>4. ~TotalItem(loops, l, item)
  BY TotalFields DEF TotalItem
<1>5. QED
  BY <1>1, <1>2, <1>3, <1>4 DEF Kind, GapItem

\* Only the members of a role are read because a value said so.
LEMMA AfterCut ==
    ASSUME NEW loops, NEW l, NEW item, Kind(loops, l, item),
           NEW i \in DOMAIN item, NEW h \in DOMAIN item, h \in 1..(i - 1),
           NEW c \in DOMAIN item[h].pub, item[h].pub[c] = T!CutMark
    PROVE  item[i].call[1] = "members"
<1>1. CASE ShowItem(item)
  <2>1. IsShow(item[h])
    BY <1>1 DEF ShowItem
  <2>2. item[h].call[1] = "cut"
    BY <2>1 DEF IsShow, T!CutMark
  <2>3. QED
    BY <2>1, <2>2 DEF IsShow, Shown
<1>2. CASE RoleItem(item)
  <2>1. PICK v, n : DOMAIN item = {1, 2} /\ item[2].call = <<"members", v, n>>
    BY <1>2, RoleFields
  <2>2. i = 2
    BY <2>1
  <2>3. QED
    BY <2>1, <2>2
<1>3. CASE FundingItem(item)
  <2>1. DOMAIN item = {1, 2} /\ item[1].pub = <<>>
    BY <1>3, FundingFields
  <2>2. h = 1
    BY <2>1
  <2>3. QED
    BY <2>1, <2>2
<1>4. CASE TotalItem(loops, l, item)
  BY <1>4, TotalFields DEF TotalItem
<1>5. CASE GapItem(loops, l, item)
  BY <1>5, GapFields DEF GapItem
<1>6. QED
  BY <1>1, <1>2, <1>3, <1>4, <1>5 DEF Kind


-----------------------------------------------------------------------------
(* The tables are regular.                                                  *)

LEMMA GaugesAre ==
    ASSUME Configured
    PROVE  /\ \A g : g \in Gauges <=> /\ g # Cut
                                      /\ \E j \in Jobs : \E item \in Items(Plans[j]) :
                                            Publishes(item, g)
           /\ \A g \in Gauges : Inputs[g] = T!GaugeInputs(g)
<1>1. \A p, g : g \in Published(p) <=> \E item \in Items(p) : Publishes(item, g)
  BY DEF Published, Publishes, StepsOf
<1>2. Gauges = (UNION {Published(Plans[j]) : j \in Jobs}) \ {Cut}
  BY DEF Configured, Gauges
<1>3. \A g \in Gauges : Inputs[g] = T!GaugeInputs(g)
  BY <1>2 DEF Configured, Gauges
<1>4. \A g : g \in Gauges <=> g # Cut /\ \E j \in Jobs : g \in Published(Plans[j])
  BY <1>2
<1>5. QED
  BY <1>1, <1>3, <1>4

LEMMA ItemKind ==
    ASSUME Configured, NEW item \in AllItems
    PROVE  \E loops, l : Kind(loops, l, item)
<1>1. PICK j \in Jobs : item \in Items(Plans[j])
  BY DEF AllItems, Jobs
<1>2. PICK l \in DOMAIN Plans[j].loops : item \in Plans[j].loops[l]
  BY <1>1 DEF Items
<1>3. Kind(Plans[j].loops, l, item)
  BY <1>2, KindOf
<1>4. QED
  BY <1>3

LEMMA PublisherCalls ==
    ASSUME Configured, NEW item \in AllItems, NEW g \in Firm, Publishes(item, g)
    PROVE  CallsOf(item) \subseteq Excuses(g)
<1>1. PICK loops, l : Kind(loops, l, item)
  BY ItemKind
<1>2. PICK i \in DOMAIN item : \E k \in DOMAIN item[i].pub : item[i].pub[k] = g
  BY DEF Publishes
<1>3. PICK k \in DOMAIN item[i].pub : item[i].pub[k] = g
  BY <1>2
<1>4. g \in Gauges /\ g # T!CutMark /\ None = T!NoCall
  BY GaugesAre DEF Firm, Configured
<1>5. Inputs[g] = T!GaugeInputs(g)
  BY <1>4, GaugesAre
<1>6. \/ \A s \in StepsOf(item) : s.call = T!NoCall
      \/ \E s \in StepsOf(item) : s.call \in T!GaugeInputs(g) /\ s.call # T!NoCall
  BY <1>1, <1>3, <1>4, ItemsCall
<1>7. \/ CallsOf(item) = {}
      \/ CallsOf(item) \cap Inputs[g] # {}
  BY <1>4, <1>5, <1>6 DEF CallsOf
<1>8. QED
  BY <1>7 DEF Excuses

\* No gauge is computed from the members of a role.
LEMMA NeededNoMembers ==
    ASSUME Configured, NEW x \in Needed
    PROVE  x[1] # "members"
<1>1. PICK g \in Firm : x \in Inputs[g]
  BY DEF Needed
<1>2. g \in Gauges /\ g # T!CutMark
  BY GaugesAre DEF Firm, Configured
<1>3. PICK j \in Jobs : \E item \in Items(Plans[j]) : Publishes(item, g)
  BY <1>2, GaugesAre
<1>4. PICK item \in Items(Plans[j]) : Publishes(item, g)
  BY <1>3
<1>5. item \in AllItems
  BY <1>4 DEF AllItems, Jobs
<1>6. PICK loops, l : Kind(loops, l, item)
  BY <1>5, ItemKind
<1>7. PICK i \in DOMAIN item : \E k \in DOMAIN item[i].pub : item[i].pub[k] = g
  BY <1>4 DEF Publishes
<1>8. PICK k \in DOMAIN item[i].pub : item[i].pub[k] = g
  BY <1>7
<1>9. x \in T!GaugeInputs(item[i].pub[k])
  BY <1>1, <1>2, <1>8, GaugesAre
<1>10. QED
  BY <1>2, <1>6, <1>8, <1>9, ItemsCall

\* The positions of a step in its item.
LEMMA Positions ==
    ASSUME NEW item \in AllItems
    PROVE  DOMAIN item = 1..Len(item) /\ Len(item) \in Nat
  BY SweepAssumption DEF SoundPlans

\* TaskPlans, for every configuration: the twelve tasks are regular.  Every gauge is
\* published by an item that calls what it is computed from, or after the loops that
\* do (fee.go, market_oi.go); only the last item of fee.go returns from Run on an
\* error; and only role.go decides by a value it read what else to call.
THEOREM TablesRegular ==
    Configured => RegularPlans
<1> SUFFICES ASSUME Configured PROVE RegularPlans
  OBVIOUS
<1>1. \A g \in Firm : \E j \in Jobs : \E item \in Items(Plans[j]) : Publishes(item, g)
  BY GaugesAre DEF Firm
<1>2. \A item \in AllItems : \A g \in Firm :
         Publishes(item, g) => CallsOf(item) \subseteq Excuses(g)
  BY PublisherCalls
<1>3. ASSUME NEW j \in Jobs, NEW l \in DOMAIN Plans[j].loops, NEW item \in Plans[j].loops[l]
      PROVE  /\ \A s \in StepsOf(item) : s.onErr = "task" /\ s.call # None =>
                   \A m \in l..Len(Plans[j].loops) : \A other \in Plans[j].loops[m] :
                       \A g \in Firm : Publishes(other, g) => s.call \in Excuses(g)
             /\ \A i \in DOMAIN item : \A k \in DOMAIN item[i].pub :
                   item[i].pub[k] \in Firm => \A x \in Inputs[item[i].pub[k]] :
                       \/ \E h \in 1..i : item[h].call = x
                       \/ \E m \in 1..(l - 1) : \E other \in Plans[j].loops[m] :
                             x \in CallsOf(other)
  <2> DEFINE loops == Plans[j].loops
  <2>1. Kind(loops, l, item)
    BY KindOf
  <2>2. item \in AllItems
    BY DEF AllItems, Items, Jobs
  <2>3. ASSUME NEW s \in StepsOf(item), s.onErr = "task", s.call # None,
               NEW m \in l..Len(loops), NEW other \in loops[m],
               NEW g \in Firm, Publishes(other, g)
        PROVE  s.call \in Excuses(g)
    <3>1. PICK i \in DOMAIN item : s = item[i]
      BY DEF StepsOf
    <3>2. l = 3 /\ Len(loops) = 3 /\ loops[3] = {item}
      BY <2>1, <2>3, <3>1, EarlyReturn
    <3>3. m = 3 /\ other = item
      BY <2>3, <3>2
    <3>4. CallsOf(item) \subseteq Excuses(g)
      BY <2>2, <2>3, <3>3, PublisherCalls
    <3>5. s.call \in CallsOf(item)
      BY <2>3 DEF CallsOf
    <3>6. QED
      BY <3>4, <3>5
  <2>4. ASSUME NEW i \in DOMAIN item, NEW k \in DOMAIN item[i].pub,
               item[i].pub[k] \in Firm, NEW x \in Inputs[item[i].pub[k]]
        PROVE  \/ \E h \in 1..i : item[h].call = x
               \/ \E m \in 1..(l - 1) : \E other \in loops[m] : x \in CallsOf(other)
    <3>1. item[i].pub[k] \in Gauges /\ item[i].pub[k] # T!CutMark /\ None = T!NoCall
      BY <2>4, GaugesAre DEF Firm, Configured
    <3>2. x \in T!GaugeInputs(item[i].pub[k])
      BY <2>4, <3>1, GaugesAre
    <3>3. i \in Nat \ {0}
      BY <2>2, Positions
    <3>4. x # None
      <4>1. x \in Reads
        BY <3>1, <2>4, SweepAssumption DEF SoundPlans
      <4>2. QED
        BY <4>1 DEF Reads
    <3>5. \/ \E h \in 1..i : item[h].call = x
          \/ \E m \in 1..(l - 1) : \E other \in loops[m] :
                \E s \in StepsOf(other) : s.call = x
      BY <2>1, <3>1, <3>2, <3>3, InputsCalled DEF CalledBy
    <3>6. QED
      BY <3>4, <3>5 DEF CallsOf
  <2>5. QED
    BY <2>3, <2>4
<1>4. ASSUME NEW item \in AllItems, NEW i \in DOMAIN item, NEW h \in 1..(i - 1),
             Cut \in {item[h].pub[c] : c \in DOMAIN item[h].pub}
      PROVE  item[i].call \notin Needed
  <2>1. PICK loops, l : Kind(loops, l, item)
    BY ItemKind
  <2>2. h \in DOMAIN item
    BY Positions
  <2>3. PICK c \in DOMAIN item[h].pub : item[h].pub[c] = T!CutMark
    BY <1>4 DEF Configured
  <2>4. item[i].call[1] = "members"
    BY <2>1, <2>2, <2>3, AfterCut
  <2>5. QED
    BY <2>4, NeededNoMembers
<1>5. QED
  BY <1>1, <1>2, <1>3, <1>4 DEF RegularPlans

-----------------------------------------------------------------------------
(* The tables are sound.                                                    *)

\* One case per task: its loops are a sequence.
LEMMA LoopsAreSeq ==
    ASSUME Configured, NEW v \in STRING, NEW t \in TaskNames
    PROVE  IsSeq(T!PlanOf(v, t).loops)
<1> DEFINE p == T!PlanOf(v, t)
<1>0. RoleNames \in Seq(STRING) /\ FeatureNames \in Seq(STRING)
  BY DEF Configured
<1>1. CASE t = "vault_balances"
  BY <1>1, ShortSeqs DEF T!PlanOf, T!VaultBalances, T!Plan
<1>2. CASE t = "roles"
  <2> DEFINE e(i) == {<<T!Step(<<"count", v, RoleNames[i]>>,
                                <<<<"count", v, RoleNames[i]>>, T!CutMark>>, "item"),
                         T!Step(<<"members", v, RoleNames[i]>>, <<>>, "item")>>}
  <2>1. p.loops = [i \in DOMAIN RoleNames |-> e(i)]
    BY <1>2 DEF T!PlanOf, T!Roles, T!Plan
  <2> HIDE DEF e, p
  <2>2. IsSeq([i \in DOMAIN RoleNames |-> e(i)])
    <3> DEFINE q == [i \in DOMAIN RoleNames |-> e(i)]
               R == {e(i) : i \in DOMAIN RoleNames}
    <3>1. DOMAIN RoleNames = 1..Len(RoleNames) /\ Len(RoleNames) \in Nat
      BY <1>0
    <3>2. \A i \in DOMAIN RoleNames : e(i) \in R
      OBVIOUS
    <3> HIDE DEF R
    <3>3. q \in Seq(R)
      BY <3>1, <3>2
    <3> HIDE DEF q
    <3>4. IsSeq(q)
      BY <3>3, SeqIsSeq
    <3>5. QED
      BY <3>4 DEF q
  <2>3. QED
    BY <2>1, <2>2 DEF p
<1>3. CASE t = "timelock"
  BY <1>3, ShortSeqs DEF T!PlanOf, T!Timelock, T!Plan
<1>4. CASE t = "market_params"
  BY <1>4, ShortSeqs DEF T!PlanOf, T!MarketParams, T!Plan
<1>5. CASE t = "fees"
  <2> DEFINE a == Claims(v)
             b == {Total(v)}
             end == IF T!FD \in Vaults[v] THEN <<{Gap(v)}>> ELSE <<>>
  <2>1. p.loops = <<>> \/ p.loops = <<a, b>> \o end
    BY <1>5 DEF T!PlanOf, T!Fees, T!Plan, Claims, Total, Gap
  <2>2. IsSeq(end)
    BY ShortSeqs
  <2> HIDE DEF a, b, end, p
  <2>3. IsSeq(<<a, b>>) /\ IsSeq(<<>>)
    BY ShortSeqs
  <2>4. IsSeq(<<a, b>> \o end)
    BY <2>2, <2>3, JoinedSeqs
  <2>5. QED
    BY <2>1, <2>3, <2>4 DEF p
<1>6. CASE t = "funding"
  BY <1>6, ShortSeqs DEF T!PlanOf, T!Funding, T!Plan
<1>7. CASE t = "keeper_gas"
  <2> DEFINE a == IF v = "v1" THEN <<{T!Single(<<"keeper", k>>) : k \in Keepers}>> ELSE <<>>
             b == IF T!FD \in Vaults[v] /\ v \in UsdtSet
                  THEN <<{T!Single(<<"fdUsdt", v>>)}>> ELSE <<>>
  <2>1. p.loops = a \o b
    BY <1>7 DEF T!PlanOf, T!KeeperGas, T!Plan
  <2>2. IsSeq(a) /\ IsSeq(b)
    BY ShortSeqs
  <2> HIDE DEF a, b, p
  <2>3. QED
    BY <2>1, <2>2, JoinedSeqs DEF p
<1>8. CASE t = "features"
  <2> DEFINE root(i) == {T!Single(<<"feature", v, FeatureNames[i], "root">>)}
             each(i) == {T!Single(<<"feature", v, FeatureNames[i], h>>) : h \in Handlers[v]}
             S == {root(i) : i \in DOMAIN FeatureNames} \cup {each(i) : i \in DOMAIN FeatureNames}
             ss == [i \in DOMAIN FeatureNames |-> <<root(i), each(i)>>]
  <2>1. p.loops = T!FlattenSeq(ss)
    BY <1>8 DEF T!PlanOf, T!Features, T!Plan
  <2>2. \A i \in DOMAIN FeatureNames : root(i) \in S /\ each(i) \in S
    OBVIOUS
  <2>3. DOMAIN FeatureNames = 1..Len(FeatureNames) /\ Len(FeatureNames) \in Nat
    BY <1>0
  <2> HIDE DEF S, root, each, p
  <2>4. \A i \in DOMAIN FeatureNames : <<root(i), each(i)>> \in Seq(S)
    BY <2>2
  <2>5. ss \in Seq(Seq(S))
    BY <2>3, <2>4
  <2> HIDE DEF ss
  <2>6. T!FlattenSeq(ss) \in Seq(S)
    BY <2>5, FlattenSeqType
  <2>7. QED
    BY <2>1, <2>6, SeqIsSeq DEF p
<1>9. CASE t = "queue"
  <2> DEFINE e(i) == {T!Single(<<"queue", v, T!Lists[i]>>)}
             R == {e(i) : i \in 1..5}
             q == [i \in 1..5 |-> e(i)]
  <2>1. DOMAIN T!Lists = 1..5
    BY DEF T!Lists
  <2>2. p.loops = q
    BY <1>9, <2>1 DEF T!PlanOf, T!Queue, T!Plan
  <2>3. \A i \in 1..5 : e(i) \in R
    OBVIOUS
  <2> HIDE DEF R, e, p
  <2>4. q \in Seq(R)
    BY <2>3
  <2> HIDE DEF q
  <2>5. QED
    BY <2>2, <2>4, SeqIsSeq DEF p
<1>10. CASE t = "market_oi"
  BY <1>10, ShortSeqs DEF T!PlanOf, T!MarketOI, T!Plan
<1>11. CASE t = "oracle_config"
  BY <1>11, ShortSeqs DEF T!PlanOf, T!OracleConfig, T!Plan
<1>12. CASE t = "chainlink"
  BY <1>12, ShortSeqs DEF T!PlanOf, T!Chainlink, T!Plan
<1>13. QED
  BY <1>1, <1>2, <1>3, <1>4, <1>5, <1>6, <1>7, <1>8, <1>9, <1>10, <1>11, <1>12 DEF TaskNames

\* What a step calls: a read with a gauge of its own, the members of a role, the
\* balance of the fee vault, or nothing.  What it publishes is a sequence.
LEMMA StepShape ==
    ASSUME NEW loops, NEW l, NEW item, Kind(loops, l, item), NEW i \in DOMAIN item
    PROVE  /\ \/ item[i].call = T!NoCall
              \/ item[i].call[1] \in Plain \cup {"members", "fdBalance"}
           /\ IsSeq(item[i].pub)
           /\ \A k \in DOMAIN item[i].pub :
                 item[i].pub[k][1] \in Plain \cup {"total", "gap", "ratio", "cut"}
<1>1. CASE ShowItem(item)
  <2>1. IsShow(item[i])
    BY <1>1 DEF ShowItem
  <2>2. QED
    BY <2>1, ShortSeqs DEF IsShow, Plain
<1>2. CASE RoleItem(item)
  <2>1. PICK v, n : /\ DOMAIN item = {1, 2}
                    /\ item[1].call = <<"count", v, n>>
                    /\ item[1].pub = <<<<"count", v, n>>, T!CutMark>>
                    /\ item[2].call = <<"members", v, n>> /\ item[2].pub = <<>>
    BY <1>2, RoleFields
  <2>2. IsSeq(item[1].pub) /\ IsSeq(item[2].pub)
    <3>1. IsSeq(item[2].pub)
      BY <2>1, ShortSeqs
    <3>2. IsSeq(<<<<"count", v, n>>, T!CutMark>>)
      BY ShortSeqs
    <3>3. QED
      BY <2>1, <3>1, <3>2
  <2>3. \A k \in DOMAIN item[1].pub : item[1].pub[k][1] \in {"count", "cut"}
    BY <2>1 DEF T!CutMark
  <2>4. QED
    BY <2>1, <2>2, <2>3 DEF Plain
<1>3. CASE FundingItem(item)
  <2>1. PICK v, m : /\ DOMAIN item = {1, 2}
                    /\ item[1].call = <<"funding", v, m, "long">> /\ item[1].pub = <<>>
                    /\ item[2].call = <<"funding", v, m, "short">>
                    /\ item[2].pub = <<<<"funding", v, m, "long">>,
                                       <<"funding", v, m, "short">>,
                                       T!CutMark, <<"ratio", v, m>>>>
    BY <1>3, FundingFields
  <2>2. QED
    BY <2>1, ShortSeqs DEF Plain, T!CutMark
<1>4. CASE TotalItem(loops, l, item)
  <2>1. PICK v : item = Total(v)
    BY <1>4 DEF TotalItem
  <2>2. IsSeq(<<<<"total", v>>>>)
    BY ShortSeqs
  <2>3. i = 1 /\ item[1].pub = <<<<"total", v>>>> /\ item[1].call = T!NoCall
    BY <2>1, TotalFields
  <2>4. QED
    BY <2>2, <2>3
<1>5. CASE GapItem(loops, l, item)
  <2>1. PICK v : item = Gap(v)
    BY <1>5 DEF GapItem
  <2>2. IsSeq(<<<<"gap", v>>>>)
    BY ShortSeqs
  <2>3. i = 1 /\ item[1].pub = <<<<"gap", v>>>> /\ item[1].call = <<"fdBalance", v>>
    BY <2>1, GapFields
  <2>4. QED
    BY <2>2, <2>3
<1>6. QED
  BY <1>1, <1>2, <1>3, <1>4, <1>5 DEF Kind

LEMMA ItemIsSeq ==
    ASSUME NEW loops, NEW l, NEW item, Kind(loops, l, item)
    PROVE  IsSeq(item)
<1>1. ShowItem(item) => IsSeq(item)
  BY DEF ShowItem
<1>2. RoleItem(item) => IsSeq(item)
  BY ShortSeqs DEF RoleItem
<1>3. FundingItem(item) => IsSeq(item)
  BY ShortSeqs DEF FundingItem
<1>4. TotalItem(loops, l, item) => IsSeq(item)
  BY ShortSeqs DEF TotalItem, Total
<1>5. GapItem(loops, l, item) => IsSeq(item)
  BY ShortSeqs DEF GapItem, Gap
<1>6. QED
  BY <1>1, <1>2, <1>3, <1>4, <1>5 DEF Kind

\* Whoever sets the gauge of one read makes the read first, and does not get to the
\* gauge when it fails.
LEMMA ReadBacked ==
    ASSUME NEW loops, NEW l, NEW item, Kind(loops, l, item),
           NEW i \in DOMAIN item, NEW k \in DOMAIN item[i].pub,
           item[i].pub[k][1] \in Plain
    PROVE  \/ item[i].call = item[i].pub[k]
           \/ \E h \in 1..(i - 1) : item[h].call = item[i].pub[k] /\ item[h].onErr # "next"
<1>1. CASE ShowItem(item)
  <2>1. IsShow(item[i])
    BY <1>1 DEF ShowItem
  <2>2. QED
    BY <2>1 DEF IsShow
<1>2. CASE RoleItem(item)
  <2>1. PICK v, n : /\ DOMAIN item = {1, 2}
                    /\ item[1].call = <<"count", v, n>>
                    /\ item[1].pub = <<<<"count", v, n>>, T!CutMark>> /\ item[2].pub = <<>>
    BY <1>2, RoleFields
  <2>2. i = 1 /\ (k = 1 \/ item[i].pub[k] = T!CutMark)
    BY <2>1
  <2>3. T!CutMark[1] \notin Plain
    BY DEF Plain, Shown, T!CutMark
  <2>4. QED
    BY <2>1, <2>2, <2>3
<1>3. CASE FundingItem(item)
  <2>1. PICK v, m : /\ DOMAIN item = {1, 2}
                    /\ item[1].call = <<"funding", v, m, "long">> /\ item[1].pub = <<>>
                    /\ item[2].call = <<"funding", v, m, "short">>
                    /\ item[2].pub = <<<<"funding", v, m, "long">>,
                                       <<"funding", v, m, "short">>,
                                       T!CutMark, <<"ratio", v, m>>>>
                    /\ item[1].onErr = "item"
    BY <1>3, FundingFields
  <2>2. i = 2 /\ item[i].pub[k] \in {item[1].call, item[2].call, T!CutMark, <<"ratio", v, m>>}
    BY <2>1
  <2>3. T!CutMark[1] \notin Plain /\ <<"ratio", v, m>>[1] \notin Plain
    BY DEF Plain, Shown, T!CutMark
  <2>4. item[i].pub[k] \in {item[1].call, item[2].call}
    BY <2>2, <2>3
  <2>5. 1 \in 1..(i - 1) /\ item[1].onErr # "next"
    BY <2>1, <2>2
  <2>6. QED
    BY <2>2, <2>4, <2>5
<1>4. CASE TotalItem(loops, l, item)
  <2>1. PICK v : item = Total(v)
    BY <1>4 DEF TotalItem
  <2>2. item[i].pub[k][1] = "total"
    BY <2>1, TotalFields
  <2>3. QED
    BY <2>2 DEF Plain, Shown
<1>5. CASE GapItem(loops, l, item)
  <2>1. PICK v : item = Gap(v)
    BY <1>5 DEF GapItem
  <2>2. item[i].pub[k][1] = "gap"
    BY <2>1, GapFields
  <2>3. QED
    BY <2>2 DEF Plain, Shown
<1>6. QED
  BY <1>1, <1>2, <1>3, <1>4, <1>5 DEF Kind

\* The inputs of a gauge are reads; those of a gauge that shows one read, the read.
LEMMA InputNames ==
    ASSUME NEW g
    PROVE  /\ g[1] \notin {"total", "gap", "ratio"} => T!GaugeInputs(g) = {g}
           /\ g[1] # "none" => T!NoCall \notin T!GaugeInputs(g)
<1>1. g[1] \notin {"total", "gap", "ratio"} => T!GaugeInputs(g) = {g}
  BY DEF T!GaugeInputs
<1>2. CASE g[1] = "total"
  BY <1>2 DEF T!GaugeInputs, T!NoCall
<1>3. CASE g[1] = "gap"
  BY <1>3 DEF T!GaugeInputs, T!NoCall
<1>4. CASE g[1] = "ratio"
  BY <1>4 DEF T!GaugeInputs, T!NoCall
<1>5. QED
  BY <1>1, <1>2, <1>3, <1>4 DEF T!NoCall

\* What a gauge is computed from, some step reads.
LEMMA InputsMade ==
    ASSUME NEW loops \in Seq(SUBSET AllItems), NEW l \in DOMAIN loops,
           NEW item \in AllItems, item \in Seq(AllSteps), Kind(loops, l, item),
           NEW i \in DOMAIN item, NEW k \in DOMAIN item[i].pub,
           item[i].pub[k] # T!CutMark
    PROVE  T!GaugeInputs(item[i].pub[k]) \subseteq {s.call : s \in AllSteps}
<1> SUFFICES ASSUME NEW x \in T!GaugeInputs(item[i].pub[k])
             PROVE  \E s \in AllSteps : s.call = x
  OBVIOUS
<1>1. i \in Nat \ {0} /\ \A h \in 1..i : item[h] \in AllSteps
  OBVIOUS
<1>2. \/ \E h \in 1..i : item[h].call = x
      \/ \E m \in 1..(l - 1) : \E other \in loops[m] : \E s \in StepsOf(other) : s.call = x
  <2>1. CalledBy(x, loops, l, item, i)
    BY <1>1, InputsCalled
  <2>2. QED
    BY <2>1 DEF CalledBy
<1>3. ASSUME NEW m \in 1..(l - 1), NEW other \in loops[m], NEW s \in StepsOf(other), s.call = x
      PROVE  \E q \in AllSteps : q.call = x
  <2>1. loops[m] \subseteq AllItems
    OBVIOUS
  <2>2. s \in AllSteps
    BY <2>1 DEF AllSteps
  <2>3. QED
    BY <1>3, <2>2
<1>4. QED
  BY <1>1, <1>2, <1>3

\* TaskPlans, for every configuration with a version and a task: the tables have what
\* Sweep assumes of its plans.  Loops, items and gauge lists are sequences; a gauge is
\* computed from reads that some step makes; and whoever sets a gauge that shows one
\* read makes that read before, so that a gauge never shows what was not asked.
THEOREM TablesSound ==
    ASSUME Configured, Plans # <<>>
    PROVE  SoundPlans
<1> DEFINE S == {T!PlanOf(v, t) : v \in STRING, t \in TaskNames}
<1>1. Plans \in Seq(S)
  BY AllPlansType DEF Configured
<1>2. Len(Plans) \in Nat \ {0} /\ Jobs = 1..Len(Plans)
  <2> HIDE DEF S
  <2>1. QED
    BY <1>1 DEF Jobs
<1>20. \A p \in S : \E v \in STRING, t \in TaskNames : p = T!PlanOf(v, t)
  OBVIOUS
<1> HIDE DEF S
<1>3. ASSUME NEW j \in Jobs
      PROVE  /\ IsSeq(Plans[j].loops)
             /\ \A l \in DOMAIN Plans[j].loops : Plans[j].loops[l] \in SUBSET AllItems
  <2>1. Plans[j] \in S
    BY <1>1 DEF Jobs
  <2>2. PICK v \in STRING, t \in TaskNames : Plans[j] = T!PlanOf(v, t)
    BY <1>20, <2>1
  <2>3. IsSeq(Plans[j].loops)
    BY <2>2, LoopsAreSeq
  <2>4. QED
    BY <2>3 DEF AllItems, Items, Jobs
<1>4. \A j \in Jobs : Plans[j].loops \in Seq(SUBSET AllItems)
  BY <1>3, SeqWithin
<1>5. \A item \in AllItems : item \in Seq(AllSteps)
  <2> SUFFICES ASSUME NEW item \in AllItems PROVE item \in Seq(AllSteps)
    OBVIOUS
  <2>1. IsSeq(item)
    BY ItemKind, ItemIsSeq
  <2>2. \A i \in DOMAIN item : item[i] \in AllSteps
    BY DEF AllSteps, StepsOf
  <2>3. QED
    BY <2>1, <2>2, SeqWithin
<1>6. ASSUME NEW s \in AllSteps
      PROVE  /\ s.call = None \/ s.call[1] \in Plain \cup {"members", "fdBalance"}
             /\ s.pub \in Seq(Gauges \cup {Cut})
  <2>1. PICK item \in AllItems : s \in StepsOf(item)
    BY DEF AllSteps
  <2>2. PICK i \in DOMAIN item : s = item[i]
    BY <2>1 DEF StepsOf
  <2>3. PICK loops, l : Kind(loops, l, item)
    BY ItemKind
  <2>4. PICK j \in Jobs : item \in Items(Plans[j])
    BY DEF AllItems, Jobs
  <2>5. ASSUME NEW k \in DOMAIN s.pub PROVE s.pub[k] \in Gauges \cup {Cut}
    <3>1. Publishes(item, s.pub[k])
      BY <2>2 DEF Publishes
    <3>2. QED
      BY <2>4, <3>1, GaugesAre
  <2>6. QED
    BY <2>2, <2>3, <2>5, StepShape, SeqWithin DEF Configured
<1>7. \A x \in Reads : x[1] \in Plain \cup {"members", "fdBalance"} /\ x # None
  BY <1>6 DEF Reads
<1>8. Cut \notin Gauges \cup Reads
  <2>1. Cut \notin Gauges
    BY GaugesAre
  <2>2. T!CutMark[1] \notin Plain \cup {"members", "fdBalance"}
    BY DEF T!CutMark, Plain, Shown
  <2>3. QED
    BY <1>7, <2>1, <2>2 DEF Configured
<1>9. ASSUME NEW g \in Gauges
      PROVE  Inputs[g] \subseteq Reads /\ (g \in Reads => Inputs[g] = {g})
  <2>1. PICK j \in Jobs : \E item \in Items(Plans[j]) : Publishes(item, g)
    BY GaugesAre
  <2>2. PICK item \in Items(Plans[j]) : Publishes(item, g)
    BY <2>1
  <2>3. PICK l \in DOMAIN Plans[j].loops : item \in Plans[j].loops[l]
    BY DEF Items
  <2>4. PICK loops : loops = Plans[j].loops /\ Kind(loops, l, item)
    BY <2>3, KindOf
  <2>5. PICK i \in DOMAIN item : \E k \in DOMAIN item[i].pub : item[i].pub[k] = g
    BY <2>2 DEF Publishes
  <2>6. PICK k \in DOMAIN item[i].pub : item[i].pub[k] = g
    BY <2>5
  <2>7. Inputs[g] = T!GaugeInputs(g) /\ g # T!CutMark /\ None = T!NoCall
    BY GaugesAre DEF Configured
  <2>8. item \in AllItems /\ item \in Seq(AllSteps)
    BY <1>5 DEF AllItems, Jobs
  <2>9. g[1] # "none"
    <3>1. g[1] \in Plain \cup {"total", "gap", "ratio", "cut"}
      BY <2>4, <2>6, StepShape
    <3>2. QED
      BY <3>1 DEF Plain, Shown
  <2>10. ASSUME NEW x \in Inputs[g] PROVE x \in Reads
    <3>1. x # None
      BY <2>7, <2>9, InputNames
    <3>2. loops \in Seq(SUBSET AllItems) /\ l \in DOMAIN loops
      BY <1>4, <2>3, <2>4
    <3>3. item[i].pub[k] # T!CutMark
      BY <2>6, <2>7
    <3>4. i \in DOMAIN item /\ k \in DOMAIN item[i].pub
      BY <2>5, <2>6
    <3>5. T!GaugeInputs(item[i].pub[k]) \subseteq {s.call : s \in AllSteps}
      BY <2>4, <2>8, <3>2, <3>3, <3>4, InputsMade
    <3>6. x \in {s.call : s \in AllSteps}
      BY <2>6, <2>7, <3>5
    <3>7. QED
      BY <3>1, <3>6 DEF Reads
  <2>11. ASSUME g \in Reads PROVE Inputs[g] = {g}
    <3>1. g[1] \in Plain \cup {"members", "fdBalance"}
      BY <1>7, <2>11
    <3>2. g[1] \notin {"total", "gap", "ratio"}
      BY <3>1 DEF Plain, Shown
    <3>3. QED
      BY <2>7, <3>2, InputNames
  <2>12. QED
    BY <2>10, <2>11
<1>10. ASSUME NEW item \in AllItems PROVE Backed(item, NothingRead)
  <2>1. PICK loops, l : Kind(loops, l, item)
    BY ItemKind
  <2>2. ASSUME NEW i \in DOMAIN item, NEW g \in Reads, NEW k \in DOMAIN item[i].pub,
               item[i].pub[k] = g
        PROVE  \/ item[i].call = g
               \/ \E h \in 1..(i - 1) : item[h].call = g /\ item[h].onErr # "next"
    <3>1. g[1] \in Plain \cup {"members", "fdBalance"}
      BY <1>7
    <3>2. g[1] \in Plain \cup {"total", "gap", "ratio", "cut"}
      BY <2>1, <2>2, StepShape
    <3>3. g[1] \in Plain
      BY <3>1, <3>2
    <3>4. QED
      BY <2>1, <2>2, <3>3, ReadBacked
  <2>3. QED
    BY <2>2 DEF Backed
<1>11. QED
  BY <1>2, <1>4, <1>5, <1>6, <1>8, <1>9, <1>10 DEF SoundPlans

-----------------------------------------------------------------------------

\* RunAll of reconciler.go with the tasks of the program, whatever versions, vaults,
\* markets and the rest the configuration names: when a run is over every gauge shows
\* the chain as of the start of the run (or of one it overlaps) or later, or a finding
\* names the call that failed.
THEOREM RunAllFresh ==
    ASSUME Configured
    PROVE  Spec => []FreshOrReported
  BY TablesRegular, FreshReported

=============================================================================
