SPECIFICATION IoSpec
CONSTANTS
  miss = miss
  fill = fill
  row = row
  Reqs = {miss, fill, row}
  Class <- MCClass
  Chunks <- MCChunks
  NumSources = 2
  Weight <- MCWeight
  Mirrored = {miss, fill}
  RouteClasses = {0, 3}
  ErrorBudget = 2
  P0Qd = 2
  BgQd = 1
  EngramQd = 2
  EngramWaitChunks = 1
  BgCapBusy = 1
  RingDepth = 2
  Unaligned = {fill}
  NoDst = {fill, row}
  Configs <- MCConfigs
  Word = 8
INVARIANTS
  ChargesExact
  DrainMeansSettled
PROPERTIES
  P0First
  ImplementsIoService
  Answered
