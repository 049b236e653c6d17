SPECIFICATION Spec
CONSTANTS
    Project <- MCProject
    Diffs <- MCDiffs
    ImportChoices <- MCImports
    Manifests <- MCManifests
    Mentions <- MCMentions
    Complaints <- MCComplaints
    CallerLimit = 2
    Radius = 1
    MaxTotalTokens = 26
CHECK_DEADLOCK FALSE
INVARIANTS
    BudgetIsShared
    CallersAreShown
