SPECIFICATION FairSpec
CONSTANTS
  Run = {r1, r2}
  Approval = {a1, a2}
  Grant = {g1}
  Digest = {plain}
  NoRun = NoRun
  NoApproval = NoApproval
  NoGrant = NoGrant
  NoDigest = NoDigest
  NoFile = NoFile
  Secret = {}
  ApprovalTtl = 1
  GrantTtl = 1
  MaxCrash = 1
PROPERTIES
  ClientReturns
  OutcomeUnlessKilled
