SPECIFICATION FairSpec
CONSTANTS
  Panels = {latestSpectrum, scalar}
  MaxSelections = 3
  MaxPolls = 2
  MaxStale = 2
  MaxFailures = 2
INVARIANTS
  OnePoll
  PollingGoesOn
  RetriedWhileInError
  SettledShowsSelection
PROPERTIES
  HistorySettles
