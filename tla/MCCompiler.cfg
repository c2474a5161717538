\* The compiler on small sources, terminated or not, with two function names.
CONSTANTS
  TokenStreams <- CompilerStreams
  Plain <- MCPlain
  Spellings = {f, g}
  Reserve = 22
  NodeSize <- MCNodeSize
  FirstBytes = {0, 8}
  Size = 64
  Mapped = 2
  MaxStars = 2
SPECIFICATION CompilerSpec
INVARIANTS ReadsWhatIsLive LeftAtExit StatusIsTrue  UnsetReads OutIsTheListing
PROPERTIES CompilerTermination
CHECK_DEADLOCK FALSE
