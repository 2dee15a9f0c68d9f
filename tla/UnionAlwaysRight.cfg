CONSTANTS
  InverseOf <- MCInverse
  NoName = 0
  Meaning <- MCMeaning
  TermLess <- RecTermLess
  Parts <- RecParts
  Substitute <- RecSubstitute
  RemapTupleVars <- RecRemapTupleVars
  Collapse <- RecCollapse
  CollapseThrows <- RecCollapseThrows
  Value <- RecValue
  Starts <- MCStarts
  Operands <- MCOperands
  Window <- MCWindow
  Middle <- MCMiddle
  Interps <- MCInterps
  MaxOps = 2
SPECIFICATION Spec
PROPERTY UnionAlwaysRight
CHECK_DEADLOCK FALSE
