CONSTANTS
  InverseOf <- MCInverse
  NoName = 0
  Meaning <- MCMeaning
  TermLess <- RecTermLess
  Parts <- RecParts
  Substitute <- RecSubstitute
  RemapTupleVars <- RecRemapTupleVars
  Collapse <- RecCollapse
  CollapseThrows <- RecCollapseThrows
  Value <- RecValue
  Terms <- MCTerms
  Subs <- MCSubs
  Remaps <- MCRemaps
  Window = {0, 1, 3}
  Arity = 2
  NumArgs <- MCNumArgs
  Indexed <- MCIndexed
  Interps <- MCInterps
  MaxLen = 4
  MaxCoef = 4
  MaxOps = 4
  MaxDepth = 3
SPECIFICATION Spec
INVARIANTS TypeOK SolveSound WrongInverseUnused SolveComplete
PROPERTIES KeepsCanonical AddsValue SubstitutesValue CollapseKeepsValue
CHECK_DEADLOCK FALSE
