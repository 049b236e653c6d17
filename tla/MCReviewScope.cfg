SPECIFICATION Spec
CONSTANTS
    LcsLimit = 15
    Around = 1
    NumFiles = 2
    Contents <- MCContents
    GeneratedLine <- MCGenerated
    CriticalFiles = {2}
    RuleSets <- MCRuleSets
    MaxChanges = 1
    Reviews <- MCReviews
CHECK_DEADLOCK FALSE
INVARIANTS
    QuietReviewIsConsistent
    DiffTellsTheWholeChange
