\* Units of up to three statements over three mangled names.
CONSTANTS
  Units <- MCUnits
  Names = {f, g, h}
  MaxStatements = 3
SPECIFICATION Spec
INVARIANTS
  ParentIsCurrent
  DeclaredOnce
  BlocksInOrder
  IRIsTheUnit
PROPERTIES
  ImplementsSymbolTable
CHECK_DEADLOCK FALSE
