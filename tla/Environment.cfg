CONSTANTS
  Names <- MCNames
  Declarable <- MCDeclarable
  Decls <- MCDecls
  InvName <- MCInvName
  NoName = ""
  Sets = {"I", "J", "IJ"}
  Arity <- MCArity
  UserRules <- MCUserRules
  Points = {0, 1, 2}
  MaxRules = 5
SPECIFICATION Spec
INVARIANTS TypeOK InverseConsistent BijectiveHasInverse RulesSound
