SPECIFICATION FairSpec
CONSTANTS
  Run = {r1, r2}
  Approval = {a1, a2}
  Grant = {g1}
  Digest = {x}
  NoRun = NoRun
  NoApproval = NoApproval
  NoGrant = NoGrant
  NoDigest = NoDigest
  ApprovalTtl = 1
  GrantTtl = 1
  OutsideMove <- DaemonWaits
INVARIANTS
  WaitsExactlyWhilePending
PROPERTIES
  EveryRequestSettles
