SPECIFICATION Spec
CONSTANTS
    Requests = {r1, r2}
    MaxPairs = 3
    Solitude = {TRUE, FALSE}
CONSTRAINT FewerInCompany
INVARIANTS
    BrowserInv
    KeptSignedIn
    
    Listens
PROPERTIES
    StreamComesBack
CHECK_DEADLOCK FALSE
