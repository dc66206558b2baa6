SPECIFICATION DisplaySpec
CONSTANTS
    ReportCases <- Cases
    Shares = 1
    DeclineCases = {"holdout_abstain"}
    HoldoutCases <- Hidden
    IntentOf <- Intents
    Results <- SomeResults
    Baselines <- SomeBaselines
    DisplayOptions <- SomeOptions
INVARIANTS
    ConsoleKeepsHoldout
CHECK_DEADLOCK FALSE
