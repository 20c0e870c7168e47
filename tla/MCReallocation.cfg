SPECIFICATION FairSpec
CONSTANTS
  Wait = 2
  MaxPods = 2
  MaxConnections = 3
  MaxFaults = 2
INVARIANTS
  OnlyLostPodsDeleted
  RequestLasts
PROPERTIES
  ImplementsReplacement
  RequestsAnswered
