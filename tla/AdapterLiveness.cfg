\* Two leaders; a snapshot may be installed while one is being built.
CONSTANTS
  MaxIndex = 1
  MaxTerm = 2
  LeaderLog <- MCShortLog
  NormalIds <- MCShortNormalIds
  MembershipIds <- MCShortMembershipIds
  Overlap = TRUE
  ReadFrom = {0}
SPECIFICATION FairSpec
PROPERTIES CallsReturn PurgeFollowsInstall
