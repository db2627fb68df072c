SPECIFICATION DataSpec
CONSTANTS
    Width = 3
    Height = 4
    MaxPacket = 20
INVARIANTS
  DrawnAsMeant CodecsReadBack PdusAreRead AnswersAreTrue
CHECK_DEADLOCK FALSE
