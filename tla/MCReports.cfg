SPECIFICATION Spec
CONSTANTS
  Worker = {w1, w2}
  Absent = Absent
  NoRequest = NoRequest
  NoReport = NoReport
  NoJob = NoJob
  MaxSeals = 2
  MaxReports = 2
SYMMETRY Symmetry
INVARIANTS
  TypeOK
  PostWhole
  FreshAnswers
  OnlyUntaggedFail
  OpenReportFlagged
  GroundsAreKept
PROPERTIES
  RemovedStaysRemoved
