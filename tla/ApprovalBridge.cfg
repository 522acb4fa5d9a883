SPECIFICATION FairSpec
CONSTANTS
  Rpc = {q1, q2}
  Run = {r1}
  Approval = {a1, a2}
  Grant = {g1, g2}
  Digest = {d1}
  NoRpc = NoRpc
  Outsider = Outsider
  NoRun = NoRun
  NoApproval = NoApproval
  NoGrant = NoGrant
  NoDigest = NoDigest
  ApprovalTtl = 2
  GrantTtl = 1
  PollTtl = 1
  MaxCrash = 1
INVARIANTS
  AnswersMatchApprovals
  UnfinishedRowsHaveAHandler
PROPERTIES
  AcceptsOnlyWithLeave
  EveryRequestAnswered
