CONSTANTS
    NoPort = "no port"
    BASE = 10
    LEN_BYTES = 2
    MAX_RECORD_BYTES = 1
    LOW = 128
    WORD = 2097152
    KEY_LEN = 32
    StreamBytes = {0, 1, 2, 8}
    MaxStream = 10
    RecordTypes = {1, 2, 4, 5, 8, 9}
    MaxRecords = 6
    FieldNumbers = {1, 2, 3, 4}
    MaxBlob = 4
    TextBytes = {0, 7, 9, 10, 34, 48, 55, 56, 65, 92, 97, 110, 120, 127, 128, 255}
    MaxText = 3
    EdgeNumbers = {0, 1, 127, 128, 300, 16383, 16384, 2097151}
    EdgeLengths = {0, 1, 127, 128, 130}
SPECIFICATION Inputs
INVARIANTS
    OneWriting
    NoStreamBeginsAnother
    WalksAgree
    PhasesMakeAFile
    
    RecordsFollowSchema
    CardIsReadBack
    InviteVerifies
    SignedBytesTellApart
    StickerTextIsReadBack
    Conforms
CHECK_DEADLOCK FALSE
