SPECIFICATION FairSpec
CONSTANTS
  Message <- Messages
  MaxCut = 20
  Packet <- Packets
  Geo <- OneAddress
INVARIANTS WalkSound AnswersTranslated
PROPERTIES RoundsAdvance Returns
