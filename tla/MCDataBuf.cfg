SPECIFICATION Spec
CONSTANTS
  MaxLength = 9
  HeaderSize = 2
  SequenceModulus = 3
  BodySize <- MCBodySize
  SampleWidth <- MCSampleWidth
  SampleHeader = 1
  MaxSamples = 1
  TickModulus = 8
  MaxAge = 2
  MaxSkew = 1
  Instants <- MCInstants
INVARIANTS
  Lossless
  ProjectedFromUnbroken
  StatusHonest
  TimesTrue
