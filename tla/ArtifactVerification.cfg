\* Bundles with entries in up to two logs, one entry or timestamp more than allowed,
\* and every threshold.
SPECIFICATION Spec
CONSTANTS
    Calls <- AllCalls
    NoAnswer = NoAnswer
    NoColon = NoColon
    MaxAllowedTlogEntries = 2
    MaxAllowedTimestamps = 2
    MaxExact = 5
    None = None
    Unparsable = Unparsable
    RekorLogs <- Logs
    TimestampingAuthorities <- TSAs
    DHIEpoch = 2
INVARIANTS
    TypeOK
    AcceptedIsSigned
    LogsAsAsked
    PanicHasKnownCause
    ReportFits
    SignedArtifactAccepted
