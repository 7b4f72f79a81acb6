SPECIFICATION PlanSpec
CONSTANTS
    a = a
    b = b
    c = c
    d = d
    Tasks = {a, b, c, d}
    Deps <- ForkDeps
    Level <- ForkLevel
    MaxWorkers = 2
    Codes = {0, 1}
    EarlyCodes = {1}
    OutputFails = TRUE
    ParentCancels = TRUE
    Ids = {1, 2, 3}
    Strangers = {4}
    Lists <- FewLists
INVARIANTS SlotsHeld EachReportedOnce ExitTells SortAnswers
PROPERTIES RunsTheGraph Terminates
CHECK_DEADLOCK FALSE
