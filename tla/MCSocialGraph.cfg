SPECIFICATION Spec
CONSTANTS
  User = {u1, u2, u3}
  Worker = {w1, w2}
  Nobody = Nobody
  Gone = Gone
  NoRequest = NoRequest
  MaxRequests = 2
SYMMETRY Symmetry
INVARIANTS
  TypeOK
  FriendsByConsent
  BanIsClean
