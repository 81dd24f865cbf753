SPECIFICATION FullSpec
CONSTANTS
  MaxVersion = 2
  MaxToken = 2
  SizeMax = 7
INVARIANT
  CalledWhenQuiet
