SPECIFICATION FairSpec

CONSTANTS
    s1 = s1
    Slots = {s1}
    c1 = c1
    c2 = c2
    Columns = {c1, c2}
    FirstNamed <- Namesakes
    MaxOverlaps = 0
    MaxFaults = 2

INVARIANTS
    TypeOK OnlyAnswersDiscard NewColumnsKept WrittenAsReviewed CopiedOnce RestingAgreement

PROPERTIES
    WorkIsShown

CHECK_DEADLOCK FALSE
