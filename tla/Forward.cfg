SPECIFICATION ForwardSpec
CONSTANTS
  Positions = 2
  Width = 2
  Vocab = 3
  Scale = 60
  Draws = 12
  Lanes = 4
  Window = 3
  Settings <- MCSpecSettings
  Models = {"cycle", "avoid"}
  Target <- MCTarget
  Lattices <- MCLattices
  Confs <- MCConfs
  Picks = {0, 11}
  Prompt <- MCPrompt
  MaxNew = 5
  MaxContext = 6
  Experts = {0, 1, 2}
  RouteSlots = 2
  Routes <- MCRoutes
  RouteSettings <- MCRouteSettings
  Modes = {"startup", "mask-spec", "mask-plain", "off-plain"}
  Heats = {0, 9}
  MaxRouteSteps = 2
  Docs <- MCDocs
  Words <- MCWords
  Chars = {"1", "a", "z", "k", "m", "!", "s", "_", "t", "n", "x"}
  MaxText = 4
  AddedTokens <- MCAdded
  AddedTexts <- MCAddedTexts
  Pushes <- MCPushes
  MaxRaw = 5
  EngramLayers <- MCEngramLayers
  MaxNgram = 3
  Heads = 2
  Texts <- MCTexts
  Spellings <- MCSpellings
  PadToken = 1
  Integers_ <- MCDraws
  EngramSettings <- MCEngramSettings
  RowCacheLimit = 3
  BatchRows = 2
  MaxLen = 2
  MaxSteps = 2
  Options <- MCOptions
  Sessions = {"default", "a"}
  MaxTurns = 3
  NucleusVocab = 4
  NucleusMass <- MCMass
  BinWidth = 2
  Bins = 2
  TopK = 2
  Threads = 2
  Cap = 1
  NucleusSteps = 12
  SamplingCases <- MCSamplingCases
INVARIANTS SpeculationSound TextExact EngramSound ControlSound SamplingExact
PROPERTY RoutingSound
CHECK_DEADLOCK FALSE
