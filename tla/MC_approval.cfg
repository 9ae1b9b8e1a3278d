CONSTANTS
    a = a  b = b  c1 = c1  c2 = c2
    Steps = {1, 2}
    Chains <- MC_Chains
    Persons = {a, b}
    ApproverOf <- MC_ApproverOf
    Mails = {1, 2}
    SenderOf <- MC_SenderOf
    Callers = {c1}
    Fetch = 1
    MaxCalls = 2
    MaxFailures = 1
SPECIFICATION FairSpec
CHECK_DEADLOCK FALSE
INVARIANTS TypeOK FinalMeansAll AnnouncedOnce RejectionCloses MailSpentOnce
PROPERTIES LegalTransitions RepliesAreAnswered
