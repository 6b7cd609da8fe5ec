SPECIFICATION FairSpec
CONSTANTS
  Job = {j1, j2}
  NoJob = NoJob
  Worker = {w1, w2}
  Flavor = {"Desk", "Order", "SupportTicket"}
  MaxAttempts = 2
  MaxClaims = 2
  MaxFaults = 1
INVARIANTS ConfirmedIsProof DoneIsConfirmed NoBlindResubmit StatusFollowsVerdict
PROPERTY DispatchSettles
CHECK_DEADLOCK FALSE
