-------------------------------- MODULE Alerts --------------------------------
(***************************************************************************)
(* The alarms of a report: what the tasks make of the values they read.    *)
(*                                                                         *)
(* No two reads of a Run see the same chain: values move between them, and *)
(* a read may fail.  A report is built from its own Run's variables and    *)
(* nothing else, so a behaviour is about one task and one goroutine, its   *)
(* Runs for one version: over one OrderVault or DepositVault, privileged   *)
(* role, timelock, market, feature or feed each, and for the fees over     *)
(* several markets and a FeeDistributorVault.  (The gauges, which the      *)
(* goroutines share: modules Sweep and SharedGauges.)                      *)
(* Thresholds are those of the code, in tokens, seconds or members.        *)
(***************************************************************************)
EXTENDS Values

CONSTANTS
    Tasks,          \* the tasks to look at
    Markets,        \* symbols of the markets of the fees task
    Domain,         \* Domain[x]: the values that read x may have
    MaxMoves        \* bound: changes of the values during one Run

\* The reads that are not a market's fees.
Names == {"native", "usdt", "count", "members", "delay", "bank", "long", "short",
          "flag", "now", "updated"}

\* Fees are uint256, the two times uint64; what else is read is an integer.
ASSUME AlertsAssumption ==
    /\ Tasks \subseteq {"vault_balances", "roles", "timelock", "fees", "funding",
                        "features", "chainlink"}
    /\ IsFiniteSet(Markets) /\ Markets \cap Names = {}
    /\ DOMAIN Domain = Markets \cup Names
    /\ \A x \in DOMAIN Domain : Domain[x] \subseteq Int
    /\ \A m \in Markets : /\ Domain[m] \subseteq Nat
                          /\ Domain[m] # {} /\ IsFiniteSet(Domain[m])
    /\ Domain["now"] \cup Domain["updated"] \subseteq 0..(Word - 1)
    /\ Word \in Nat \ {0}
    /\ MaxMoves \in Nat

VARIABLES
    task,       \* the task of this behaviour
    at,         \* which of its calls is next, 0 between Runs
    value,      \* value[x]: what the chain, or the host's clock, has for x
    seen,       \* seen[x]: what it had at some moment of the latest Run
    moves,      \* changes during the current Run
    got,        \* got[x]: the answers to the current Run
    total,      \* totalClaimable
    failed,     \* calls of the latest Run that failed: findings of its report
    alarm       \* its report also names, or counts, a bad value

chain == <<value, seen, moves>>
vars == <<task, at, chain, got, total, failed, alarm>>

\* The reads of a Run in the order of the code, the clock ("now") among them.  Markets
\* are ranged over in any order; they are all alike, so one will do.
Calls(t) ==
    CASE t = "vault_balances" -> <<"native", "usdt">>
      [] t = "roles"          -> <<"count", "members">>
      [] t = "timelock"       -> <<"delay">>
      [] t = "fees"           -> Append(SetToSeq(Markets), "bank")
      [] t = "funding"        -> <<"long", "short">>
      [] t = "features"       -> <<"flag">>
      [] t = "chainlink"      -> <<"now", "updated">>

Reads == ToSet(Calls(task))
End == Len(Calls(task)) + 1
Vectors(S) == {f \in [Reads -> UNION {S[x] : x \in Reads}] : \A x \in Reads : f[x] \in S[x]}

-----------------------------------------------------------------------------
(* What the code computes, from the values v.                               *)

\* The finding of the report, or the case its digest line counts.
Raises(t, v) ==
    CASE t = "vault_balances" -> v["usdt"] > 1
      [] t = "roles"          -> v["count"] > 5
      [] t = "timelock"       -> v["delay"] < 60
      [] t = "fees"           -> total - v["bank"] > 1000
      [] t = "funding"        -> /\ AbsMax(v["long"], v["short"]) > 0
                                 /\ 10 * AbsSub(v["long"], v["short"])
                                       > 9 * AbsMax(v["long"], v["short"])
      [] t = "features"       -> v["flag"] = 1
      [] t = "chainlink"      -> FeedAge(v["now"], v["updated"]) > 600

-----------------------------------------------------------------------------

Init ==
    /\ task \in Tasks
    /\ at = 0
    /\ value \in Vectors(Domain)
    /\ seen = [x \in Reads |-> {}]
    /\ moves = 0
    /\ got = <<>>
    /\ total = 0
    /\ failed = {}
    /\ alarm = FALSE

\* Mutated form: the sum belongs to the task and not to its Run.
StartKeepsTotal ==
    /\ at = 0
    /\ at' = 1
    /\ value' \in Vectors(Domain)
    /\ seen' = [x \in Reads |-> {value'[x]}]
    /\ moves' = 0
    /\ failed' = {}
    /\ alarm' = FALSE
    /\ got' = <<>>
    /\ UNCHANGED <<task, total>>

\* RunAll calls Run.  Since the last Run anything may have happened to the values.
Start ==
    /\ at = 0
    /\ at' = 1
    /\ value' \in Vectors(Domain)
    /\ seen' = [x \in Reads |-> {value'[x]}]
    /\ moves' = 0
    /\ total' = 0
    /\ failed' = {}
    /\ alarm' = FALSE
    /\ got' = <<>>
    /\ UNCHANGED task

\* A block, or a second, goes by.  The clock and the time of a feed only advance.
Move ==
    /\ at > 0
    /\ moves < MaxMoves
    /\ moves' = moves + 1
    /\ \E x \in Reads : \E w \in Domain[x] \ {value[x]} :
          /\ x \in {"now", "updated"} => w > value[x]
          /\ value' = [value EXCEPT ![x] = w]
          /\ seen' = [seen EXCEPT ![x] = @ \cup {w}]
    /\ UNCHANGED <<task, at, got, total, failed, alarm>>

\* A call is answered; an empty role is done with then.
Answer ==
    /\ at \in 1..(End - 1)
    /\ LET x == Calls(task)[at]
       IN /\ got' = [y \in DOMAIN got \cup {x} |-> IF y = x THEN value[x] ELSE got[y]]
          /\ total' = IF x \in Markets THEN total + value[x] ELSE total
          /\ at' = IF x = "count" /\ value[x] = 0 THEN 0 ELSE at + 1
    /\ UNCHANGED <<task, chain, failed, alarm>>

\* Mutated form: the error of a market is not reported.
FailUnreported ==
    /\ at \in 1..(End - 1)
    /\ LET x == Calls(task)[at]
       IN /\ x # "now"
          /\ failed' = IF x \in Markets THEN failed ELSE failed \cup {x}
          /\ at' = IF x \in Markets THEN at + 1 ELSE 0
    /\ UNCHANGED <<task, chain, got, total, alarm>>

\* A call fails.  The sum goes on without a market; any other failure is the end.
Fail ==
    /\ at \in 1..(End - 1)
    /\ LET x == Calls(task)[at]
       IN /\ x # "now"
          /\ failed' = failed \cup {x}
          /\ at' = IF x \in Markets THEN at + 1 ELSE 0
    /\ UNCHANGED <<task, chain, got, total, alarm>>

\* All calls are answered: the values are looked at.
Conclude ==
    /\ at = End
    /\ at' = 0
    /\ alarm' = Raises(task, got)
    /\ UNCHANGED <<task, chain, got, total, failed>>

Next == Start \/ Move \/ Answer \/ Fail \/ Conclude

Spec == Init /\ [][Next]_vars

-----------------------------------------------------------------------------
(* Properties.                                                              *)

Over == at = 0 /\ \A x \in Reads : seen[x] # {}

\* What the reports and the help texts of the metrics call bad, of the values v: a
\* vault with more than 1 USDT, a privileged role with more than 5 members, a delay
\* below 60 seconds, an undistributed gap above 1000 USDT, an imbalance above 0.9, a
\* disabled feature, a feed older than 600 seconds.
Bad(v) ==
    CASE task = "vault_balances" -> v["usdt"] > 1
      [] task = "roles"          -> v["count"] > 5
      [] task = "timelock"       -> v["delay"] < 60
      [] task = "fees"           -> Claimable(v, Markets) - v["bank"] > 1000
      [] task = "funding"        -> Magnitude(v) # 0 /\ 10 * Distance(v) > 9 * Magnitude(v)
      [] task = "features"       -> v["flag"] = 1
      [] task = "chainlink"      -> v["now"] - v["updated"] > 600

\* Every variable has its type; the sum of a Run is a sum over its markets.
TypeOK ==
    /\ task \in Tasks /\ at \in 0..End /\ moves \in 0..MaxMoves
    /\ value \in Vectors(Domain)
    /\ DOMAIN got \subseteq Reads /\ \A x \in DOMAIN got : got[x] \in Domain[x]
    /\ seen \in [Reads -> SUBSET UNION {Domain[x] : x \in Reads}]
    /\ total \in 0..Claimable([m \in Markets |-> Max(Domain[m])], Markets)
    /\ failed \subseteq Reads \ {"now"}
    /\ alarm \in BOOLEAN

\* fee.go, role.go, chainlink.go and the others: what a report complains of was so, each
\* value at some moment of the Run.  Neither a market that could not be read, nor calls
\* at different blocks, nor a feed ahead of the clock makes a false alarm.
NoFalseAlarm ==
    Over /\ alarm => \E v \in Vectors(seen) : Bad(v)

\* A value that was bad throughout the Run, whatever it moved to, is complained of - or
\* the report says which call failed, as when the members of a role with too many of
\* them cannot be listed.  No failure turns an alarm off silently.
NoSilentMiss ==
    Over /\ (\A v \in Vectors(seen) : Bad(v)) => alarm \/ failed # {}

=============================================================================
