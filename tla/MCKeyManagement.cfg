SPECIFICATION Spec
CONSTANTS
  User = {u1, u2}
  Alg = {rsa}
  Worker = {w1, w2}
  NoJob = NoJob
  NoEnvelope = NoEnvelope
  CacheLimit = 1
  MaxKeys = 3
  MaxMasters = 2
SYMMETRY Symmetry
INVARIANTS
  TypeOK
  SealedStaysReadable
  KeyAlwaysUsable
  CacheBounded
PROPERTY
  StorePromise
