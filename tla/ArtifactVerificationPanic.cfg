\* A bundle without provenance, where provenance is required.
SPECIFICATION Spec
CONSTANTS
    Calls <- AllCalls
    NoAnswer = NoAnswer
    NoColon = NoColon
    MaxAllowedTlogEntries = 2
    MaxAllowedTimestamps = 2
    MaxExact = 5
    None = None
    Unparsable = Unparsable
    RekorLogs <- Logs
    TimestampingAuthorities <- TSAs
    DHIEpoch = 2
INVARIANTS
    NoProvenanceIsAnError
