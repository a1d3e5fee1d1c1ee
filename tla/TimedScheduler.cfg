SPECIFICATION LiveSpec
CONSTANTS
    Day = 4
    DailyAt = 2
    QuickInterval = 2
    RunLimit = 2
    SendLimit = 1
    WebhookSet = TRUE
    Prompt = TRUE
    ClockSteps = {}
    Horizon = 5
    Calls = 3
    CallLimit = 1
INVARIANT TypeOK
INVARIANT LateByItsCalls
PROPERTY RunsAreBounded
PROPERTY DigestLeaves
