\* Accepted units against the productions, on short statements.
CONSTANTS
  TokenStreams <- MCTokenStreams
  HoleKinds = {"identifier", "i32", ";", "&"}
  Indent = 3
  Unset = {0}
SPECIFICATION HeapSpec
INVARIANT NothingSwallowed
CHECK_DEADLOCK FALSE
