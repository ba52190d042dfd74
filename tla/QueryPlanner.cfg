SPECIFICATION Spec
CONSTANTS
  NULL = NULL
  Predicate <- MCPredicate
  Schema <- MCSchema
  NameOrder <- MCNameOrder
  Queries <- MCQueries
  Visits <- MCVisits
  MaxRewrites = 2
  Samples <- MCSamples
INVARIANTS
  ParsingOrder
  ScopeIsFrom
  OneNodePerTable
  QueryMeansItsText
  RulesKeepMeaning
  PullSettles
  CompactionKeepsTerm
  LeavesFirst
  EdgesRoundTrip
  EqualTermsHashEqually
CHECK_DEADLOCK FALSE
