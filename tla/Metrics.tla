------------------------------- MODULE Metrics -------------------------------
(***************************************************************************)
(* exporter.go: the gauge vectors and their labels, for the gauges of      *)
(* module TaskPlans and the timestamps of its tasks.                       *)
(***************************************************************************)
EXTENDS Naturals, Sequences

\* Labels[g[1]]: the label names of the vector that the gauge g belongs to.
Labels ==
    [native         |-> <<"version", "vault">>,
     usdt           |-> <<"version", "vault">>,
     count          |-> <<"version", "role">>,
     delay          |-> <<"version", "timelock">>,
     minCollateral  |-> <<"version", "market">>,
     borrowing      |-> <<"version", "market", "side">>,
     liquidationFee |-> <<"version", "market">>,
     claimable      |-> <<"version", "market">>,
     total          |-> <<"version">>,
     gap            |-> <<"version">>,
     funding        |-> <<"version", "market", "side">>,
     ratio          |-> <<"version", "market">>,
     keeper         |-> <<"keeper">>,
     fdUsdt         |-> <<"version">>,
     feature        |-> <<"version", "feature", "handler">>,
     queue          |-> <<"version", "list">>,
     oi             |-> <<"version", "market", "side">>,
     maxOI          |-> <<"version", "market", "side">>,
     pool           |-> <<"version", "market">>,
     maxPool        |-> <<"version", "market">>,
     maxPriceAge    |-> <<"version">>,
     feedAge        |-> <<"feed">>,
     lastRun        |-> <<"task">>]

\* The timestamp that task t of version v sets.  Its one label is made of both names, but
\* for that of the feeds.
LastRun(v, t) == <<"lastRun", IF t = "chainlink" THEN <<t>> ELSE <<t, v>>>>

=============================================================================
