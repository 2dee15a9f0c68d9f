CONSTANTS
  A = A
  B = B
  code = code
  iters = iters
  sched = sched
  X = X
  Y = Y
  Comps = {A, B}
  Codes = {code}
  Sets = {iters}
  Relations = {sched}
  Spaces <- MCSpaces
  NoCode = NoCode
  Null = Null
  Made <- MCMade
  MaxStmts = 3
  MaxAccesses = 2
  MaxCalls = 6
  MayOverwrite = TRUE
  MayKeep = FALSE
  Optimized = TRUE
SPECIFICATION Spec
PROPERTY CopiesAgree
CHECK_DEADLOCK FALSE
