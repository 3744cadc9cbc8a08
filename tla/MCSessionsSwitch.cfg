SPECIFICATION FairSpec
CONSTANTS
  User = {u1, u2}
  TwoFactorUser = {}
  Browser = {b1}
  Network = {home}
  MaxKeys = 3
  Worker = {w1}
  Anon = Anon
  NoRow = NoRow
  NoRequest = NoRequest
  Timeout = 1
  CookieAge = 2
PROPERTY
  SessionsExpire
