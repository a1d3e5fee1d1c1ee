SPECIFICATION LiveSpec
CONSTANTS
    Runners = {"daily"}
    Plans <- MCPlans
    Inputs <- MCInputs
    Cut <- MCCut
    None <- MCNone
    MaxBlock = 2
    MaxFaults = 1
    MCTasks <- AllTasks
    MCMarkets = {"ETH"}
    MCRoles <- TwoRoles
INVARIANT FreshOrReported
PROPERTY Converges
