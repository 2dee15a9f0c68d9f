CONSTANTS
  InverseOf <- MCInverse
  NoName = 0
  Meaning <- MCMeaning
  TermLess <- RecTermLess
  Parts <- RecParts
  Substitute <- RecSubstitute
  RemapTupleVars <- RecRemapTupleVars
  Collapse <- RecCollapse
  CollapseThrows <- RecCollapseThrows
  Value <- RecValue
  Starts <- MCStarts
  Operands <- MCOperands
  Window <- MCWindow
  Middle <- MCMiddle
  Interps <- MCInterps
  MaxOps = 2
  Domain <- MCDomain
  RangeOf <- MCRangeOf
  Symbol <- MCSymbol
  Parallel <- MCParallel
  Budgets = {0, 1}
  Ignored <- MCIgnored
  Rules <- MCRules
  TheOthers = 5
  Levels = {0}
SPECIFICATION DSpec
PROPERTY NullForEveryParam
CHECK_DEADLOCK FALSE
