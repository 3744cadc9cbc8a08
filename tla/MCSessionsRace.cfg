SPECIFICATION Spec
CONSTANTS
  User = {u1, u2}
  TwoFactorUser = {u1, u2}
  Browser = {b1}
  Network = {home}
  MaxKeys = 3
  Worker = {w1, w2}
  Anon = Anon
  NoRow = NoRow
  NoRequest = NoRequest
  Timeout = 1
  CookieAge = 1
SYMMETRY Symmetry
INVARIANTS
  TypeOK
  UntrackedOnlyAfterSwitch
  PasswordGiven
PROPERTIES
  LoginPromise
