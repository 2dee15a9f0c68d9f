CONSTANTS
  InverseOf <- MCInverse
  NoName = 0
  Meaning <- MCMeaning
  TermLess <- RecTermLess
  Parts <- RecParts
  Substitute <- RecSubstitute
  RemapTupleVars <- RecRemapTupleVars
  Collapse <- RecCollapse
  CollapseThrows <- RecCollapseThrows
  Value <- RecValue
  Starts <- MCStarts
  Operands <- MCOperands
  Window <- MCWindow
  Middle <- MCMiddle
  Interps <- MCInterps
  MaxOps = 2
SPECIFICATION Spec
INVARIANT TypeOK
PROPERTIES UnionRight IntersectRight InverseRight ComposeRight
CHECK_DEADLOCK FALSE
