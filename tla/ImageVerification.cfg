\* Signed images of each kind, and images with one part of the chain wrong.
SPECIFICATION Spec
CONSTANTS
    Digests <- AllDigests
    Target = "idx"
    Worlds <- AllWorlds
    RefLists <- Lists
    None = None
    NoAnswer = NoAnswer
    Unparsable = Unparsable
    Absent = Absent
    Empty = Empty
    NaN = NaN
    MaxExact = 5
    MaxAllowedTlogEntries = 2
    MaxAllowedTimestamps = 2
    MaxInt64 = 12
    RekorLogs <- Logs
    TimestampingAuthorities <- TSAs
    DHIEpoch = 2
INVARIANTS
    TypeOK
    ChainHolds
    SignerTrusted
    KindEarned
    UnsignedWasAnswered
    SignedImageAccepted
