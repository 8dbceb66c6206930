SPECIFICATION ElementsSpec
CONSTANTS
    MaxElements = 4
    FillWords = {"type", "fill", "input"}
    ClickWords = {"click", "button", "menu"}
    MenuItemWords = {"logout", "theme"}
    TriggerNames = {{"account"}, {"settings"}}
    Pages <- MCPages
    Leads <- MCLeads
    StartPages = {"home", "editor"}
    Steps <- MCSteps
    Enabled = TRUE
    MaxOpenAttempts = 2
    Containers <- MCContainers
    KeywordMappings <- MCKeywordMappings
    MaxAttempts = 2
    MaxMoves = 2
 
PROPERTY StepEnds
CHECK_DEADLOCK FALSE
