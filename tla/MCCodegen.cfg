\* Functions of up to three statements, with two argument registers.
CONSTANTS
  Units <- MCUnits
  Registers = 2
  MaxDepth = 12
SPECIFICATION Spec
INVARIANTS StringsDefinedOnce StackKept GeneratedIff CallsAreTheSource
CHECK_DEADLOCK FALSE
