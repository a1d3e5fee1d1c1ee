SPECIFICATION Spec
CONSTANTS
    Runners = {quick, daily}
    Tasks = {"fees", "funding", "chainlink"}
    Markets = {"BTC", "ETH"}
    Domain <- MCDomain
    Word = 8
    MaxBlock = 1
SYMMETRY Symmetry
INVARIANT TypeOK
INVARIANT ShownOfRuns
INVARIANT AgreeAlone
