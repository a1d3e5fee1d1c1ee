----------------------------- MODULE SharedGauges -----------------------------
(***************************************************************************)
(* The gauges that are computed from more than one read, and stand beside  *)
(* others: the total and the gap of the fees, the two sides and the ratio  *)
(* of a market's funding, the age of a feed.                               *)
(*                                                                         *)
(* A Run sets them one by one, and the quick and the daily loop run the    *)
(* same task over the same gauges with no lock: every read and every Set   *)
(* is a step, and those of several Runs interleave.  Meanwhile the chain   *)
(* moves and calls fail.  A behaviour is about one task of one version,    *)
(* with a FeeDistributorVault, and about one market, or one feed, of it;   *)
(* the fees task sums over several markets.  (The gauges of a single read, *)
(* and a Run as a whole: module Sweep.  The reports: module Alerts.)       *)
(***************************************************************************)
EXTENDS Values

CONSTANTS
    Runners,        \* the goroutines that call RunAll
    Tasks,          \* the tasks to look at
    Markets,        \* symbols of the markets of the fees task
    Domain,         \* Domain[x]: the values that read x may have
    MaxBlock        \* bound: the values change less often than this

Names == {"bank", "long", "short", "now", "updated"}    \* the other reads
Inputs == Markets \cup Names

\* Fees are uint256, the two times uint64, the sides int256.
ASSUME SharedGaugesAssumption ==
    /\ Tasks \subseteq {"fees", "funding", "chainlink"}
    /\ IsFiniteSet(Markets) /\ Markets # {} /\ Markets \cap Names = {}
    /\ DOMAIN Domain = Inputs
    /\ \A x \in Inputs : Domain[x] \subseteq Int
    /\ \A m \in Markets : Domain[m] \subseteq Nat
    /\ Domain["now"] \cup Domain["updated"] \subseteq 0..(Word - 1)
    /\ Word \in Nat \ {0}
    /\ MaxBlock \in Nat

VARIABLES
    task,       \* the task of this behaviour
    past,       \* past[i]: the values in block i; a read answers with those of the last
    pc,         \* pc[r]: what the Run of r does next
    todo,       \* markets that the Run of r has not read
    got,        \* got[r][x]: the answers to the Run of r
    total,      \* totalClaimable of the Run of r
    failed,     \* calls of the Run of r that failed
    shown,      \* the gauges that have been set
    start,      \* block at which the Run of r began
    floor,      \* the oldest start among the Runs active then
    lost,       \* markets not read in the Run of r, or in one that overlaps it
    alone       \* {r} if the Run that began last is r's and has overlapped none

code == <<task, pc, todo, got, total, failed, shown>>
history == <<start, floor, lost, alone>>
vars == <<code, past, history>>

newest == Len(past)
Idle == {"never", "over"}
Active(r) == pc[r] \notin Idle
Busy == {q \in Runners : Active(q)}
Reads == CASE task = "fees"      -> Markets \cup {"bank"}
           [] task = "funding"   -> {"long", "short"}
           [] task = "chainlink" -> {"now", "updated"}
Vectors(S) == {f \in [Reads -> UNION {S[x] : x \in Reads}] : \A x \in Reads : f[x] \in S[x]}

\* The order of the code.  The markets of the fees take several steps.
First == [fees |-> "market", funding |-> "long", chainlink |-> "now"]
After == [market |-> "setTotal", setTotal |-> "bank", bank |-> "setGap", setGap |-> "over",
          long |-> "short", short |-> "setLong", setLong |-> "setShort",
          setShort |-> "setRatio", setRatio |-> "over",
          now |-> "updated", updated |-> "setAge", setAge |-> "over"]

-----------------------------------------------------------------------------

Init ==
    /\ task \in Tasks
    /\ past \in {<<v>> : v \in Vectors(Domain)}
    /\ pc = [r \in Runners |-> "never"]
    /\ todo = [r \in Runners |-> {}]
    /\ got = [r \in Runners |-> [x \in Reads |-> 0]]
    /\ total = [r \in Runners |-> 0]
    /\ failed = [r \in Runners |-> {}]
    /\ shown = <<>>
    /\ start = [r \in Runners |-> 0]
    /\ floor = [r \in Runners |-> 1]
    /\ lost = [r \in Runners |-> {}]
    /\ alone = {}

\* A block, or a second, goes by.  The clock and the time of a feed only advance.
NewBlock ==
    /\ newest <= MaxBlock
    /\ \E v \in Vectors(Domain) \ {past[newest]} :
          /\ \A x \in Reads \cap {"now", "updated"} : v[x] >= past[newest][x]
          /\ past' = Append(past, v)
    /\ UNCHANGED <<code, history>>

\* What a Run that begins now, in r, may find in the gauges when it is over.
BeginHistory(r) ==
    /\ start' = [start EXCEPT ![r] = newest]
    /\ floor' = [floor EXCEPT ![r] = Min({newest} \cup {start[q] : q \in Busy})]
    /\ lost' = [lost EXCEPT ![r] = UNION {failed[q] \cap Markets : q \in Busy}]
    /\ alone' = IF Busy = {} THEN {r} ELSE {}

\* Mutated form: the sum belongs to the task and not to its Run.
BeginKeepsTotal(r) ==
    /\ ~Active(r)
    /\ pc' = [pc EXCEPT ![r] = First[task]]
    /\ todo' = [todo EXCEPT ![r] = Markets]
    /\ got' = [got EXCEPT ![r] = [x \in Reads |-> 0]]
    /\ failed' = [failed EXCEPT ![r] = {}]
    /\ BeginHistory(r)
    /\ UNCHANGED <<task, past, total, shown>>

\* RunAll calls Run.
Begin(r) ==
    /\ ~Active(r)
    /\ pc' = [pc EXCEPT ![r] = First[task]]
    /\ todo' = [todo EXCEPT ![r] = Markets]
    /\ got' = [got EXCEPT ![r] = [x \in Reads |-> 0]]
    /\ total' = [total EXCEPT ![r] = 0]
    /\ failed' = [failed EXCEPT ![r] = {}]
    /\ BeginHistory(r)
    /\ UNCHANGED <<task, past, shown>>

\* The fees of a market are added to the sum, or the sum goes on without them.
ReadMarket(r) ==
    /\ pc[r] = "market"
    /\ \E m \in todo[r] :
          /\ todo' = [todo EXCEPT ![r] = @ \ {m}]
          /\ pc' = IF todo[r] = {m} THEN [pc EXCEPT ![r] = After[@]] ELSE pc
          /\ \/ total' = [total EXCEPT ![r] = @ + past[newest][m]] /\ UNCHANGED <<failed, lost>>
             \/ /\ failed' = [failed EXCEPT ![r] = @ \cup {m}]
                /\ lost' = [q \in Runners |-> lost[q] \cup {m}]
                /\ UNCHANGED total
    /\ UNCHANGED <<task, past, got, shown, start, floor, alone>>

\* Any other call is answered.
Read(r) ==
    /\ pc[r] \in Names
    /\ got' = [got EXCEPT ![r][pc[r]] = past[newest][pc[r]]]
    /\ pc' = [pc EXCEPT ![r] = After[@]]
    /\ UNCHANGED <<task, past, todo, total, failed, shown, history>>

\* Mutated form: the error is noted, and the Run goes on without the value.
FailGoesOn(r) ==
    /\ pc[r] \in Names \ {"now"}
    /\ failed' = [failed EXCEPT ![r] = @ \cup {pc[r]}]
    /\ pc' = [pc EXCEPT ![r] = After[@]]
    /\ UNCHANGED <<task, past, todo, got, total, shown, history>>

\* It fails, and nothing more is set.
Fail(r) ==
    /\ pc[r] \in Names \ {"now"}
    /\ failed' = [failed EXCEPT ![r] = @ \cup {pc[r]}]
    /\ pc' = [pc EXCEPT ![r] = "over"]
    /\ UNCHANGED <<task, past, todo, got, total, shown, history>>

Show(g, w) == shown' = [h \in DOMAIN shown \cup {g} |-> IF h = g THEN w ELSE shown[h]]

\* One gauge is set, a ratio as <<numerator, denominator>> and only if a side is not 0.
Set(r) ==
    /\ LET v == got[r]
           max == AbsMax(v["long"], v["short"])
       IN \/ pc[r] = "setTotal" /\ Show("total", total[r])
          \/ pc[r] = "setGap"   /\ Show("gap", total[r] - v["bank"])
          \/ pc[r] = "setLong"  /\ Show("long", v["long"])
          \/ pc[r] = "setShort" /\ Show("short", v["short"])
          \/ pc[r] = "setRatio" /\ max > 0 /\ Show("ratio", <<AbsSub(v["long"], v["short"]), max>>)
          \/ pc[r] = "setRatio" /\ max = 0 /\ UNCHANGED shown
          \/ pc[r] = "setAge"   /\ Show("age", FeedAge(v["now"], v["updated"]))
    /\ pc' = [pc EXCEPT ![r] = After[@]]
    /\ UNCHANGED <<task, past, todo, got, total, failed, history>>

Next == NewBlock \/ \E r \in Runners : Begin(r) \/ ReadMarket(r) \/ Read(r) \/ Fail(r) \/ Set(r)

Spec == Init /\ [][Next]_vars

-----------------------------------------------------------------------------
(* Properties.                                                              *)

\* The values since the Run of r, or one that it overlaps, began.
Span(r) == [x \in Reads |-> {past[i][x] : i \in floor[r]..newest}]

\* Every variable has its type, and no sum is that of more than one Run.
TypeOK ==
    /\ task \in Tasks
    /\ past # <<>> /\ \A i \in DOMAIN past : past[i] \in Vectors(Domain)
    /\ pc \in [Runners -> Idle \cup {First[task]} \cup DOMAIN After]
    /\ todo \in [Runners -> SUBSET Markets]
    /\ got \in [Runners -> [Reads -> UNION {Domain[x] : x \in Reads} \cup {0}]]
    /\ \A r \in Runners : total[r] \in 0..Claimable([m \in Markets |-> Max(Domain[m])], Markets)
    /\ failed \in [Runners -> SUBSET Reads] /\ lost \in [Runners -> SUBSET Markets]
    /\ DOMAIN shown \subseteq {"total", "gap", "long", "short", "ratio", "age"}
    /\ start \in [Runners -> 0..newest] /\ floor \in [Runners -> 1..newest]
    /\ alone \subseteq Runners

Shows(g, w) == g \in DOMAIN shown /\ shown[g] = w

\* The total is a sum of values since then, without some of the markets whose call failed;
\* the gap goes with such a sum, the ratio with two sides and the age with two times.
TotalFits(r) ==
    \E v \in Vectors(Span(r)) : \E L \in SUBSET lost[r] :
        Shows("total", Claimable(v, Markets \ L))
GapFits(r) ==
    \E v \in Vectors(Span(r)) : \E L \in SUBSET lost[r] :
        Shows("gap", Claimable(v, Markets \ L) - v["bank"])
RatioFits(r) ==
    \E v \in Vectors(Span(r)) :
        Magnitude(v) = 0 \/ Shows("ratio", <<Distance(v), Magnitude(v)>>)
AgeFits(r) ==
    \E v \in Vectors(Span(r)) : Shows("age", Max({0, v["now"] - v["updated"]}))

\* fee.go, funding.go, chainlink.go: whatever Sets of other loops lie between its own, what
\* the gauges show when a Run is over comes from reads of this Run and of those that it
\* overlaps, and never from an older one: the total of the fees in any case, and each other
\* gauge if no call failed that it is computed from.
ShownOfRuns ==
    \A r \in Runners : pc[r] = "over" =>
        /\ task = "fees" => TotalFits(r)
        /\ task = "fees" /\ "bank" \notin failed[r] => GapFits(r)
        /\ task = "funding" /\ failed[r] = {} => RatioFits(r)
        /\ task = "chainlink" /\ failed[r] = {} => AgeFits(r)

\* The gap, and the ratio, as the help texts of exporter.go have them, of the gauges that
\* stand beside them.
GapOf(banks) == \E b \in banks : Shows("gap", shown["total"] - b)
RatioOfSides ==
    shown["long"] # 0 \/ shown["short"] # 0 => Shows("ratio", <<Distance(shown), Magnitude(shown)>>)

\* A Run with no failure and no other beside it leaves gauges that belong together: the
\* gap is that of the total and a balance it found, the ratio that of the sides.  So one
\* undisturbed sweep mends what failures and overlaps have left (unless both sides are
\* zero: then an older ratio stays).
AgreeAlone ==
    \A r \in alone : pc[r] = "over" /\ failed[r] = {} =>
        /\ task = "fees" => GapOf(Span(r)["bank"])
        /\ task = "funding" => RatioOfSides

\* exporter.go: the ratio is "|long - short| / max(|long|, |short|)".  When no Run is under
\* way, it is that of the sides beside it, unless both are zero.
RatioAgrees ==
    Busy = {} /\ {"long", "short", "ratio"} \subseteq DOMAIN shown => RatioOfSides

=============================================================================
