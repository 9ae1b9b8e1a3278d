CONSTANTS
    s1 = s1  s2 = s2  r1 = r1  r2 = r2  i1 = i1  i2 = i2  d1 = d1  NoOne = NoOne
    Slots = {s1, s2}
    Reviewers = {r1, r2}
    Items = {i1, i2}
    Docs = {d1}
    DocOf <- SameDoc
    Page = 2
    MaxOverlaps = 1
    MaxLapses = 1
    MaxCrashes = 1
SPECIFICATION FairSpec
INVARIANTS TypeOK NothingForgotten DecidedByOne OneRowPerDocument
PROPERTY DecisionLeavesQueue
