SPECIFICATION FairTlsSpec
CONSTANTS
    KeyOf <- Certificates
    MaxRestarts = 1
    MaxCuts = 2
INVARIANTS
    NothingMissed
PROPERTIES
    EventuallyCurrent
