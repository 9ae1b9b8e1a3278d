---------------------------- MODULE MC_Approval ----------------------------
EXTENDS ApprovalChain
CONSTANTS a, b, c1, c2
MC_Chains == {{1, 2}, {2}}
MC_ApproverOf == [s \in Steps |-> a]
MC_SenderOf == [m \in Mails |-> a]
=============================================================================
