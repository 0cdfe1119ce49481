SPECIFICATION MCSpec
INVARIANTS ArraysRight CopiesSound LinksRight LookupsRight SendingView FlushSynchrony SettledWhenQuiet
CONSTANTS
    Val = {a, b}
    Junk = Junk
    STDARR_MIN_AUTO_ALLOC = 2
    ArrMaxSize = 4
    STDCARR_MIN_AUTO_ALLOC = 2
    CarrMaxSize = 4
    End = End
    Null = Null
    DllVal = {a, b}
    StdsizeBits = 3
    DllMaxSize = 3
    HashKey = {1, 2, 3}
    HashVal = {a, b}
    HashCode <- CollidingCodes
    HcodeBits = 4
    STDHASH_MIN_AUTO_ALLOC = 1
    HashMaxSize = 3
    Empty = Empty
    Inactive = Inactive
    SklKey = {1, 2}
    SklVal = {a, b}
    InitialHeight = 1
    STDSKL_MAX_HEIGHT = 3
    SklSizeBits = 1
    SklMaxSize = 3
    a = a
    b = b
    c = c
    Client = {a, b, c}
    Founders = {a, b}
    Leavers = {b}
    Senders = {a}
    FLOK_AGE_LIMIT = 1
    MaxChanges = 2
    MaxMessages = 1
    Services = {"reliable"}
CHECK_DEADLOCK FALSE
