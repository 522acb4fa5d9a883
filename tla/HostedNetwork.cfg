SPECIFICATION FairSpec
CONSTANTS
  good = good
  redirected = redirected
  unlisted = unlisted
  public = public
  other = other
  private = private
  c1 = c1
  Url = {good, redirected, unlisted}
  Allowed = {good, redirected}
  Granted = {good}
  Address = {public, other, private}
  Public = {public, other}
  MaxRedirects = 1
  MaxFault = 1
  Conn = {c1}
INVARIANTS
  OnlyVettedIsReached
  OutcomeIsTold
PROPERTIES
  EverythingEnds
CHECK_DEADLOCK FALSE
