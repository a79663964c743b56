\* Two handshake writes, a request in up to three pieces, up to two redirects.
SPECIFICATION FairSpec
CONSTANTS
    MaxSetup = 2
    RequestBytes = 3
    MaxRedirects = 2
INVARIANTS
    TypeOK
    NotSentIsProof
    SetupIsNotSent
PROPERTIES
    KeepsCallContract
    BookEnds
