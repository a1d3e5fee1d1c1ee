------------------------------ MODULE TaskPlans ------------------------------
(***************************************************************************)
(* What the Run of each of the twelve tasks reads and publishes, as data   *)
(* for module Sweep.                                                       *)
(*                                                                         *)
(* A plan is a sequence of loops over sets of items: the items of one loop *)
(* are taken in any order (Go ranges over a map), the loops one after the  *)
(* other.  An item is a sequence of steps, a step one RPC call, the gauges *)
(* set once it is answered, and what an error does: go on with the "next"  *)
(* step, drop the rest of the "item", or return from the whole "task".     *)
(* Where the code looks at the value it read and may stop the item, the    *)
(* gauges hold CutMark.  The fees total is published by a step that calls  *)
(* nothing.  "stamped" says that Run ends in the last_run_timestamp.       *)
(*                                                                         *)
(* Names are tuples: the gauge that shows one read has the read's name.    *)
(* Findings that depend on the values read (thresholds) and the wording of *)
(* reports are left out.                                                   *)
(***************************************************************************)
EXTENDS Sequences, FiniteSets, SequencesExt

CONSTANTS
    Versions,       \* names of the configured versions, in order
    Vaults,         \* Vaults[v]: labels of the vaults of version v
    Markets,        \* Markets[v]: symbols
    Timelocks,      \* Timelocks[v]: which of "gov" and "config" have an address
    Handlers,       \* Handlers[v]: handlers of the per-handler feature flags
    UsdtSet,        \* versions with a usdt_token
    RoleNames,      \* role_names, in order
    Keepers,        \* labels of the keepers
    FeatureNames,   \* defaultFeatureNames, in order
    Feeds,          \* defaultBscTestnetFeeds
    Tasks           \* names of the tasks main builds, in order

CutMark == <<"cut">>        \* the item may end here, as the value read decides
NoCall == <<"none">>        \* the call of a step that calls nothing
FD == "FeeDistributorVault"

Step(call, pub, onErr) == [call |-> call, pub |-> pub, onErr |-> onErr]

\* The read r, shown by a gauge of its own.
Show(r, onErr) == Step(r, <<r>>, onErr)
Single(r) == <<Show(r, "next")>>
Plan(loops, stamped) == [loops |-> loops, stamped |-> stamped]

-----------------------------------------------------------------------------
(* One operator per task.                                                   *)

VaultBalances(v) ==
    Plan(<<{<<Show(<<"native", v, n>>, "item"), Show(<<"usdt", v, n>>, "item")>>
              : n \in Vaults[v]}>>,
         Vaults[v] # {})

\* An empty role ends its item after the count; the members are only counted.
Roles(v) ==
    Plan([i \in DOMAIN RoleNames |->
             {<<Step(<<"count", v, RoleNames[i]>>,
                     <<<<"count", v, RoleNames[i]>>, CutMark>>, "item"),
                Step(<<"members", v, RoleNames[i]>>, <<>>, "item")>>}],
         TRUE)

Timelock(v) == Plan(<<{Single(<<"delay", v, l>>) : l \in Timelocks[v]}>>, TRUE)

MarketParams(v) ==
    Plan(<<{<<Show(<<"minCollateral", v, m>>, "next"),
              Show(<<"borrowing", v, m, "long">>, "next"),
              Show(<<"borrowing", v, m, "short">>, "next"),
              Show(<<"liquidationFee", v, m>>, "next")>> : m \in Markets[v]}>>,
         Markets[v] # {})

\* Without a FeeDistributorVault, or when its balance cannot be read, Run returns
\* before the gap and before the timestamp.
Fees(v) ==
    IF Markets[v] = {} THEN Plan(<<>>, FALSE)
    ELSE Plan(<<{Single(<<"claimable", v, m>>) : m \in Markets[v]},
                {<<Step(NoCall, <<<<"total", v>>>>, "next")>>}>>
              \o (IF FD \in Vaults[v]
                  THEN <<{<<Step(<<"fdBalance", v>>, <<<<"gap", v>>>>, "task")>>}>>
                  ELSE <<>>),
              FD \in Vaults[v])

\* Both sides are published once both are read; the ratio only if one is not zero.
Funding(v) ==
    Plan(<<{<<Step(<<"funding", v, m, "long">>, <<>>, "item"),
              Step(<<"funding", v, m, "short">>,
                   <<<<"funding", v, m, "long">>, <<"funding", v, m, "short">>, CutMark,
                     <<"ratio", v, m>>>>, "item")>> : m \in Markets[v]}>>,
         Markets[v] # {})

\* Mutated form: every version snapshots the keepers.
KeeperGasEach(v) ==
    Plan(<<{Single(<<"keeper", k>>) : k \in Keepers}>>
         \o (IF FD \in Vaults[v] /\ v \in UsdtSet
             THEN <<{Single(<<"fdUsdt", v>>)}>> ELSE <<>>),
         TRUE)

\* The keepers belong to the version that is called v1.
KeeperGas(v) ==
    Plan((IF v = "v1" THEN <<{Single(<<"keeper", k>>) : k \in Keepers}>> ELSE <<>>)
         \o (IF FD \in Vaults[v] /\ v \in UsdtSet
             THEN <<{Single(<<"fdUsdt", v>>)}>> ELSE <<>>),
         TRUE)

Features(v) ==
    Plan(FlattenSeq([i \in DOMAIN FeatureNames |->
             <<{Single(<<"feature", v, FeatureNames[i], "root">>)},
               {Single(<<"feature", v, FeatureNames[i], h>>) : h \in Handlers[v]}>>]),
         TRUE)

Lists == <<"order", "deposit", "withdrawal", "position", "market">>

Queue(v) == Plan([i \in DOMAIN Lists |-> {Single(<<"queue", v, Lists[i]>>)}], TRUE)

MarketOI(v) ==
    Plan(<<{<<Show(<<"oi", v, m, "long">>, "next"),
              Show(<<"maxOI", v, m, "long">>, "next"),
              Show(<<"oi", v, m, "short">>, "next"),
              Show(<<"maxOI", v, m, "short">>, "next"),
              Show(<<"pool", v, m>>, "next"),
              Show(<<"maxPool", v, m>>, "next")>> : m \in Markets[v]}>>,
         Markets[v] # {})

OracleConfig(v) == Plan(<<{Single(<<"maxPriceAge", v>>)}>>, TRUE)

Chainlink(v) ==
    IF v # "v1" THEN Plan(<<>>, FALSE)
    ELSE Plan(<<{Single(<<"feedAge", f>>) : f \in Feeds}>>, TRUE)

-----------------------------------------------------------------------------

PlanOf(v, t) ==
    CASE t = "vault_balances" -> VaultBalances(v)
      [] t = "roles"          -> Roles(v)
      [] t = "timelock"       -> Timelock(v)
      [] t = "market_params"  -> MarketParams(v)
      [] t = "fees"           -> Fees(v)
      [] t = "funding"        -> Funding(v)
      [] t = "keeper_gas"     -> KeeperGas(v)
      [] t = "features"       -> Features(v)
      [] t = "queue"          -> Queue(v)
      [] t = "market_oi"      -> MarketOI(v)
      [] t = "oracle_config"  -> OracleConfig(v)
      [] t = "chainlink"      -> Chainlink(v)

\* The order of RunAll: every task of a version, version after version.
AllPlans ==
    FlattenSeq([i \in DOMAIN Versions |->
                   [j \in DOMAIN Tasks |-> PlanOf(Versions[i], Tasks[j])]])

\* The reads whose values the gauge g is computed from.
GaugeInputs(g) ==
    CASE g[1] = "total" -> {<<"claimable", g[2], m>> : m \in Markets[g[2]]}
      [] g[1] = "gap"   -> {<<"claimable", g[2], m>> : m \in Markets[g[2]]}
                              \cup {<<"fdBalance", g[2]>>}
      [] g[1] = "ratio" -> {<<"funding", g[2], g[3], s>> : s \in {"long", "short"}}
      [] OTHER          -> {g}

=============================================================================
