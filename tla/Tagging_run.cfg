CONSTANTS
    work_ = work_
    home = home
    word = word
    None = None
    Untagged = Untagged
    AnyTitle = AnyTitle
    N = 2
    WordsOf <- Titles
    Start <- Starts
    Length <- Lengths
    Tags <- TwoTags
    Words <- OneWord
    Priorities = {0, 1}
    Threshold = 2
    MaxRuleId = 2
    MaxEdits = 2
    MaxObserved = 3
    MaxManual = 1
    MaxNotes = 2
SPECIFICATION Spec
INVARIANTS
    OneAutoTag
    PostedTime
PROPERTIES
    ManualStays
    TableDecides
    ProposedOnce
SYMMETRY TagSymmetry
CHECK_DEADLOCK FALSE
