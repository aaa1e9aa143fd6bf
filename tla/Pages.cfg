SPECIFICATION FairSpec
CONSTANTS
  accel = accel
  files = files
  gallery = gallery
  NPages = 3
  SubPages = {accel, files, gallery}
  Parent <- MCParent
  CloseKeepsCur = {accel}
  NoBack = {gallery}
  Scans = 2
  Window = 1
 
INVARIANT CycleInSync
INVARIANT SleepIsMeant
PROPERTY KeysServed
