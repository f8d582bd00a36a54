SPECIFICATION Spec
CONSTANTS
  FoodEndedQuorum = 3
  FoodEndedWindow = 5
  ReportWindow = 15
  ShortWindow = 5
  MediumWindow = 10
  FreshAge = 1
  ShortMinCount = 5
  MediumMinCount = 3
  Null = Null
  MaxReports = 5
  Now = 15
  Samples <- SampleReports
  Shown <- ShownAverages
  Metres = {0, 10, 20, 50, 60}
INVARIANTS
  CoherentOutcome
  Monotone
  RecentWeighsMore
  QuorumDecides
  EveryVoiceCounts
  GenuineOutweighsMock
CHECK_DEADLOCK FALSE
