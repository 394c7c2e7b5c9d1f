SPECIFICATION SumSpec
CONSTANTS
    Files <- MCFiles
    Has <- MCHas
    Preference <- MCPreference
    Derived = "d"
    Operand = "b"
    Labellings <- MCLabellings
    MaxLaunches = 2
    MaxCommands <- MCMaxCommands
    Views <- MCViews
    VariableOf <- MCVariableOf
    FileOf <- MCFileOf
    Defaults <- MCDefaults
    Named <- MCNamed
    Frames <- MCFrames
    Transposed <- MCTransposed
    Rows <- MCRows
    Cols <- MCCols
    Flipped <- MCFlipped
    Width = 2
    Height = 3
    Pointers <- MCPointers
    Absent = Absent
    Nothing = Nothing
    Torn = Torn
    r1 = r1
    r2 = r2
    r3 = r3
    m1 = m1
    m2 = m2
    Readers <- ThreeReaders
    Messages <- TwoMessages
    First = m1
    QueueSize = 1
    MaxAttempts = 2
    MaxReads = 3
    MaxRewrites = 2
    Undetected = {1}
    Blocks <- MCBlocks
    Identities <- MCIdentities
    IdentityOf <- MCIdentityOf
    Bytes <- MCBytes
    Limit = 4
    RecencyModulus = 64
    MaxRecency = 7
    NoKey = NoKey
    PageReaders <- TwoReaders
    Opener = r1
    ObjectSize = 5
    PageSize = 2
    MaxRequest = 4
    InitialWindow = 1
    MaxWindow = 3
    MaxWord = 6
    PageQueueSize = 1
    KeyOf <- MCKeyOf
    MaxAsks = 2
    Nobody = Nobody
INVARIANTS WindowFits StartsWithAnImage
    WaitingIsBacked OpenedVersionOnly
    AnswerIsAsked
PROPERTIES ForeignOnlyByName LoadingEnds ReadsEnd ImplementsLru OpeningEnds
CHECK_DEADLOCK FALSE
