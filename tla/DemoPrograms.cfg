SPECIFICATION Spec
CONSTANTS
    Name <- MCName
    Word = 64
    Responses <- MCResponses
    Requests <- MCRequests
    ClientRounds = 2
    ServerRounds = 2
INVARIANTS
    TypeOK
    NoMisuse
    
    ScannersAgree
    TakenWhole
PROPERTY
    StopsOnSignal
