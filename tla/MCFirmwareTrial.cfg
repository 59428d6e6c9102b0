SPECIFICATION FairSpec
PROPERTIES
  KeptBuildsWork
  ReportIsTrue
  TrialSettles
