SPECIFICATION Spec
CONSTANTS
    MaxFragment = 1
    Roles <- AllRoles
    Scripts <- RoleScripts
    MaxWrites = 3
    MaxChunk = 2
    MaxRead = 2
    Limits <- SmallLimits
    MaxClose = 1
INVARIANTS
    TypeOK
    WrittenIsSent
    ReadInOrder
    
PROPERTY
    LimitKept
