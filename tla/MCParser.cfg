\* One-token edits of two programs, and statements with up to three free tokens.
CONSTANTS
  TokenStreams <- MCTokenStreams
  HoleKinds = {"identifier", "int_literal", "func", "i32", ";", ":", ",", "{", "}", "(", ")", "*", "&", "="}
  Indent = 3
  Unset = {0, 1}
SPECIFICATION HeapSpec
INVARIANTS
  TypeOK
  DiagnosedInv
  LossIsConfined
  AstIsTheSource
  LeaksKnown
  ListingShowsTheAst
PROPERTIES
  FreedAtMostOnce
CHECK_DEADLOCK FALSE
