SPECIFICATION Spec
CONSTANTS
    Tasks = {"vault_balances", "roles", "timelock", "fees", "funding", "features", "chainlink"}
    Markets = {"BTC", "ETH"}
    Domain <- MCDomain
    Word = 4096
    MaxMoves = 2
INVARIANT TypeOK
INVARIANT NoFalseAlarm
INVARIANT NoSilentMiss
