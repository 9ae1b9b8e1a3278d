SPECIFICATION FairSpec
CONSTANTS
    Plans = {"p1", "p2"}
    Requests = {"q1"}
    MaxDay = 2
    MaxFailures = 2
PROPERTIES
    DueIsServed
