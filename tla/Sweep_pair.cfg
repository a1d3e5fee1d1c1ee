SPECIFICATION Spec
CONSTANTS
    Runners = {"quick", "daily"}
    Plans <- MCPlans
    Inputs <- MCInputs
    Cut <- MCCut
    None <- MCNone
    MaxBlock = 2
    MaxFaults = 1
    MCTasks <- FeeTasks
    MCMarkets = {"ETH"}
    MCRoles <- OneRole
INVARIANT TypeOK
INVARIANT FreshOrReported
PROPERTY PhantomOnlyOverlapped
