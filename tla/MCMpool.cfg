SPECIFICATION Spec
CONSTANT Nums <- MCNums
INVARIANTS TypeOK WellFormed NoNullDeref
PROPERTIES NoFalseExhaustion StackSpec
CHECK_DEADLOCK FALSE
