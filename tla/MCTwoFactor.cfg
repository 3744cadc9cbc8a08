SPECIFICATION Spec
CONSTANTS
  Worker = {w1, w2}
  Tab = {t1, t2}
  NoTab = NoTab
  Wrong = Wrong
  MaxSecrets = 3
INVARIANTS
  TypeOK
  LockoutOnlyByOverlap
