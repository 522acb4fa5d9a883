SPECIFICATION Spec
CONSTANTS
  Run = {r1}
  Approval = {a1, a2}
  Grant = {g1, g2}
  Digest = {x}
  NoRun = NoRun
  NoApproval = NoApproval
  NoGrant = NoGrant
  NoDigest = NoDigest
  ApprovalTtl = 1
  GrantTtl = 1
  OutsideMove <- OnlyStart
SYMMETRY Symmetry
PROPERTIES
  RestartRevokesGrants
