CONSTANTS
    NoSymbol = NoSymbol
    SymbolAt <- MCSymbolAt
    BlastRadius = 55
    MaxEvidence = 2
    File = "this"
    Snapshot <- MCSnapshot
    Hunk <- MCHunk
    MinConfidence = 60
    MinSeverity = 2
    FailOn = 4
    MaxFindings = 1
    RawSeqs <- MCRawSeqs
    Answers <- MCAnswers
SPECIFICATION Spec
INVARIANTS
    PreCriticSeparates
    PreCriticForgetsNothing
    TruncationDropsTheLowest
    BlockNeedsApproval
CHECK_DEADLOCK FALSE
