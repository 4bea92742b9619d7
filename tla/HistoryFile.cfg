CONSTANTS
    BASE = 10
    LEN_BYTES = 1
    MAX_RECORD_BYTES = 3
    CHUNK_PLAINTEXT = 4
    OVERHEAD = 1
    Histories <- MCHistories
    MaxDamage <- MCMaxDamage
SPECIFICATION Spec
INVARIANTS
    OpenedIsPrefix
    AcceptedIsWritten
    IntactIsAccepted
