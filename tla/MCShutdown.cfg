CONSTANTS
    Listener = {"http", "https", "ldap", "ldaps"}
    Configs <- MCConfigs
    HTTP = {"http", "https"}
    ErrCapacity = 4
    MaxBusy = 1
SPECIFICATION FairSpec
INVARIANT StoreClosedLast
INVARIANT StatusTells
PROPERTY ShutsDown
CHECK_DEADLOCK FALSE
