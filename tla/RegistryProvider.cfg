\* Requests for images of Docker Hub and of another registry.
SPECIFICATION Spec
CONSTANTS
    Domains = {"hub", "private"}
    BlobLen = 2
    MaxUses = 3
    None = None
INVARIANTS
    TypeOK
    HonestRequestServed
    ReadsWhatWasAsked
PROPERTIES
    RequestReturns
