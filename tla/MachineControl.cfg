SPECIFICATION FairControlSpec
CONSTANTS
  FrontEnd = "egui"
  MaxJobs = 2
  MaxPlays = 2
  MaxFaults = 1
INVARIANTS
  FailureStays
  ListIsCurrent
PROPERTIES
  OfflineOnlyWhenStopped
  ResumesOnlyWhatRan
  JobEnds
