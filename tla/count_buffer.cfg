SPECIFICATION Spec
CONSTANTS
  SIZE = 3
  NumSymbols = 4
  LIMIT = 12
INVARIANTS
  ListOrdered
  AmountIsSum
