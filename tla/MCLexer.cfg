\* Every terminated buffer of up to 5 characters from 10 character classes.
CONSTANTS
  MaxLen = 5
  Sources <- MCSources
  Char <- MCChar
  Letters <- MCLetters
  Digits <- MCDigits
  Blanks <- MCBlanks
  Puncts <- MCPuncts
  Keywords <- MCKeywords
SPECIFICATION Spec
INVARIANTS
  PositionInv
  CaretInv
  StringCaretInv
  OneEof
  MatchesReference
PROPERTIES
  OnlyTextOverruns
  Termination
CHECK_DEADLOCK FALSE
