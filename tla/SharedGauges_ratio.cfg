SPECIFICATION Spec
CONSTANTS
    Runners = {quick, daily}
    Tasks = {"funding"}
    Markets = {"BTC", "ETH"}
    Domain <- MCDomain
    Word = 8
    MaxBlock = 1
SYMMETRY Symmetry
INVARIANT RatioAgrees
