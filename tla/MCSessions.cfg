SPECIFICATION FairSpec
CONSTANTS
  User = {u1, u2}
  TwoFactorUser = {u2}
  Browser = {b1}
  Network = {home, away}
  MaxKeys = 3
  Worker = {w1}
  Anon = Anon
  NoRow = NoRow
  NoRequest = NoRequest
  Timeout = 2
  CookieAge = 3
PROPERTIES
  TrackedSessionsExpire
  MismatchEnds
  SessionsEnd
