SPECIFICATION FairSpec
CONSTANTS
  Names <- MCNames
  MaxRequests = 3
  Sizes <- MCSizes
  Stalls = TRUE
INVARIANT MailboxSerializes
 
PROPERTY SavedFilesStay
PROPERTY CallsReturn
