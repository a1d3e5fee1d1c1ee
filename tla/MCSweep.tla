------------------------------ MODULE MCSweep ------------------------------
(***************************************************************************)
(* Instances of module Sweep with the plans of module TaskPlans: a small   *)
(* configuration with every kind of gauge, and for the interleaved runs    *)
(* the tasks named by MCTasks only.                                        *)
(***************************************************************************)
EXTENDS Sweep

CONSTANTS MCTasks, MCMarkets, MCRoles

T == INSTANCE TaskPlans WITH
        Versions <- <<"v1">>,
        Tasks <- MCTasks,
        Vaults <- [v \in {"v1"} |-> {"FeeDistributorVault"}],
        Markets <- [v \in {"v1"} |-> MCMarkets],
        Timelocks <- [v \in {"v1"} |-> {"gov"}],
        Handlers <- [v \in {"v1"} |-> {"OrderHandler"}],
        UsdtSet <- {"v1"},
        RoleNames <- MCRoles,
        Keepers <- {"k1"},
        FeatureNames <- <<"CREATE_ORDER_FEATURE_DISABLED">>,
        Feeds <- {"BNB_USD"}

MCPlans == T!AllPlans
MCCut == T!CutMark
MCNone == T!NoCall
Published(p) ==
    UNION {UNION {{s.pub[k] : k \in DOMAIN s.pub} : s \in StepsOf(i)} : i \in Items(p)}
MCInputs ==
    [g \in (UNION {Published(MCPlans[j]) : j \in DOMAIN MCPlans}) \ {MCCut} |->
        T!GaugeInputs(g)]

AllTasks == <<"vault_balances", "roles", "timelock", "market_params", "fees", "funding",
              "keeper_gas", "features", "queue", "market_oi", "oracle_config", "chainlink">>
FeeTasks == <<"roles", "fees">>
RoleTasks == <<"roles">>
OneRole == <<"CONTROLLER">>
TwoRoles == <<"CONTROLLER", "ORDER_KEEPER">>

=============================================================================
