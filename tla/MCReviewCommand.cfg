CONSTANTS
    MaxFindings = 2
    Sources <- MCSources
SPECIFICATION Spec
INVARIANTS
    ReturnAccountsForEveryReviewer
    AnswersDecideTheVerdict
    UnverifiedFindingsStayInside
    CleanExitIsEarned
    CancelledReviewHasNoVerdict
PROPERTIES
    NoWorkAfterSigint
    SettingsFollowPrecedence
CHECK_DEADLOCK FALSE
