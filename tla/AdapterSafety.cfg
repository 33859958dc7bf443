\* Three leaders; the third repeats the first (MCStorageAdapter).
CONSTANTS
  MaxIndex = 2
  MaxTerm = 3
  LeaderLog <- MCReturnLog
  NormalIds <- MCReturnNormalIds
  MembershipIds <- MCReturnMembershipIds
  Overlap = FALSE
  ReadFrom = {0}
SPECIFICATION Spec
INVARIANTS TypeOK ReachableWhole AckedSurvive PurgeCovered PositionsOrdered VoteKept ReadsFindWhole StateCoversPosition LogIsOneLeaders
