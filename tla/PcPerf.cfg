SPECIFICATION FairSpec
CONSTANTS
  FrameSize = 2
  MaxConns = 2
  MaxBytes = 3
  MaxVisits = 2
  MaxFaults = 1
 
INVARIANT FlagsAreTrue
PROPERTY RadioGoesQuiet
PROPERTY Findable
