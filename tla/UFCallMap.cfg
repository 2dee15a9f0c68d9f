CONSTANT Terms <- MCTerms
SPECIFICATION Spec
INVARIANTS MapsInverse TranslatesBack SameConstant
