SPECIFICATION GenerationSpec
CONSTANTS
  Bank <- Banks
  Payload <- Payloads
  PopulationSize = 3
  PerCandidate = 1
  Elitism = 1
  Tournament = 2
  Generations = 3
  Patience = 1
  Warmup = 1
  Missing = Missing
INVARIANTS
  GenerationConsistent
PROPERTIES
  BestKept
