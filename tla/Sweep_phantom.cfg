SPECIFICATION Spec
CONSTANTS
    Runners = {"quick", "daily"}
    Plans <- MCPlans
    Inputs <- MCInputs
    Cut <- MCCut
    None <- MCNone
    MaxBlock = 2
    MaxFaults = 0
    MCTasks <- RoleTasks
    MCMarkets = {}
    MCRoles <- OneRole
PROPERTY NoPhantomChange
