SPECIFICATION FairSpec
CONSTANTS
    Seqs = {s1}
    MaxFds = 3
    MaxChunks = 3
    ChunkLen = 2
    MaxRead = 2
    MaxInbox = 3
INVARIANTS
    NoDataLeftWaiting
    WriteNeverRestarted
PROPERTIES
    DataDelivered
    RepliesDelivered
    CloseIsAnswered
