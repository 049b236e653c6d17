CONSTANTS
    Results <- MCResults
    MaxReReviews = 1
    FailOn = 4
SPECIFICATION TuiSpec
INVARIANTS
    TerminalIsRestored
    QuitJudgesWhatIsShown
PROPERTIES
    QuitEndsTheCommand
CHECK_DEADLOCK FALSE
