SPECIFICATION Spec
CONSTANTS
  Items <- MCItems
  Names <- MCNames
  Others <- MCOthers
  MaxSize = 3
  MaxValues = 4
  Key <- MCKeys
  T <- MCMapped
  Default <- MCDefault
  MaxMembers = 4
  Fragments <- MCFragments
  MostUnits <- MCMostUnits
  FreeUnits <- MCFreeUnits
  Refusals <- MCRefusals
CHECK_DEADLOCK FALSE
INVARIANT ParsesByGrammar
INVARIANT CallbackFilters
INVARIANT TextRoundTrip
INVARIANT BinaryRoundTrip
INVARIANT FlattenRestores
INVARIANT OrderIsTotal
PROPERTY PatchOfDiff
PROPERTY OrderedTwin
