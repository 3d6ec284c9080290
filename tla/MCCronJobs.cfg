CONSTANTS
  Creators <- MCCreators
  Sessions <- MCSessions
  UserOf <- MCUserOf
  CreatorOf <- MCCreatorOf
  ScoreOf <- MCScoreOf
  Early <- MCEarly
  Calculations = {c1, c2}
  Requests <- MCRequests
  Revenues <- MCRevenues
  NoEarnings <- MCNoEarnings
  MaxLate = 1
  Profiles <- MCProfiles
  Hour = 24
  Start <- MCStart
  End <- MCEnd
  Handlers = {h1, h2}
  MaxDelay = 7
SPECIFICATION CronJobsSpec
SYMMETRY Symmetry
INVARIANTS TypeOK FinalPoolIsItsOwn SharesWithinPool RemindersTypeOK DueIsReminded OneReminder
