SPECIFICATION AnySpec
CONSTANTS
  Types <- MCTypes
  TypeOf <- MCTypeOf
  Added = {"at", "seen"}
  Deleted = {"at"}
  Unknown = {"u"}
  InitialFacts <- MCGroundInitial
  UnknownFacts <- MCGroundUnknown
  Facts <- MCGroundable
  Domains <- MCDomains
  Constants <- MCConstants
  WffAdded = {"p", "not-p", "not-d"}
  Twin <- MCTwin
  WffDeleted = {"p", "d", "not-p"}
  WffUnknown = {}
  WffInitial <- MCInitial
  GroundFacts <- MCGroundFacts
  Inputs <- MCInputs
  Problems <- MCProblems
  Arguments <- MCArguments
  MaxPredicates = 8
  MaxRelevant = 8
INVARIANTS
  Normalises
  GraphFaithful
  NamedRight
  NoneLost
