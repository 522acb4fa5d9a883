SPECIFICATION Spec
CONSTANTS
  Run = {r1, r2}
  Approval = {a1, a2}
  Grant = {g1, g2}
  Digest = {plain, secret}
  NoRun = NoRun
  NoApproval = NoApproval
  NoGrant = NoGrant
  NoDigest = NoDigest
  NoFile = NoFile
  Secret = {secret}
  ApprovalTtl = 1
  GrantTtl = 1
  MaxCrash = 1
SYMMETRY Symmetry

  
PROPERTIES
  DeletesOnlyWithLeave
  UsesTheService
