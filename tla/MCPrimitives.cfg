SPECIFICATION Spec
CONSTANTS
  Base = 4
  P = 67
  B = 7
  N = 79
  Gx = 2
  Gy = 22
  Koblitz = 4
  ChunkSize = 2
  Header = 1
  Exponent = 11
  Overhead = 4
  SmallPrimes = {2, 3}
  TimeStep = 30
  AllowedDrift = 1
  Keys = {1, 2, 7, 39, 78}
  MaxScalar = 165
  MaxNumber = 400
  MaxTime = 150
INVARIANTS
  RoundTrips
  ScalarIsRepeatedAddition
  BasesTellPrimes
  CodesExpire
