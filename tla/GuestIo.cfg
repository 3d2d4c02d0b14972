CONSTANTS
    DataSize = 7
    ChunkSize = 3
    Word = 8
    Sizes = {0, 1, 5, 8, 11}
    Lengths = {0, 1, 2, 4}
    MaxWrites = 4
    TimeWord = 64
    Kilo = 10
    MaxMillis = 20
SPECIFICATION Spec
INVARIANTS  RoomIsAccounted StoredInOrder
PROPERTIES Terminates ExactWithinOneWrap
