SPECIFICATION FairSpec
CONSTANTS
  NoResponse = NoResponse
  Responses <- MCResponses
  Chunk = 3
INVARIANTS
  TypeOK
  ShortOnlyIfCut
  CodedWholeOrNothing
  LengthIsThere
  WaitsInVainOnlyForLumps
PROPERTIES
  ExchangeEnds
