SPECIFICATION ElfSpec
CONSTANTS
    HeaderSize = 2
    ProgramSize = 2
    SectionSize = 2
    Special = 65535
    MaxSize = 8
    MaxCount = 3
CHECK_DEADLOCK FALSE
INVARIANTS AcceptedIsSound RowsInside
