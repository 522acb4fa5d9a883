SPECIFICATION Spec
CONSTANTS
  Run = {r1}
  TheRun = r1
  Approval = {a1, a2}
  Grant = {g1, g2}
  Digest = {a1, a2}
  NoRun = NoRun
  NoApproval = NoApproval
  NoGrant = NoGrant
  NoDigest = NoDigest
  ApprovalTtl = 1
  GrantTtl = 1
  N = 2
  Entry = {x, y}
  NoFile = NoFile
  Base <- MCBase
  MaxEdit = 1
  MaxCrash = 0
INVARIANTS
  CompletedIsApplied
