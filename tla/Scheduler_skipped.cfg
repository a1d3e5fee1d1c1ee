SPECIFICATION Spec
CONSTANTS
    Day = 5
    DailyAt = 2
    QuickInterval = 2
    RunLimit = 2
    MaxRun = 3
    SendLimit = 1
    WebhookSet = TRUE
    Prompt = TRUE
    ClockSteps = {}
    Horizon = 12
PROPERTY UpMeetsSlot
