\* One table with two indexed fields, of which one takes the ids; both clients
\* use it, create it and drop it.
SPECIFICATION Spec
CONSTANTS
    Clients = {b, c}
    Fields = {f, g}
    IndexField = {f, g}
    AutoField = f
    Values <- MCValues
    NoField = NoField
    NoTable = NoTable
    NoIndex = NoIndex
    NoRow = NoRow
    Nobody = Nobody
    Error = Error
    MaxId = 2
    MaxCalls = 4
    MaxFails = 1
INVARIANTS
    TypeOK
    IndexMatchesRows
    
    FindsWhatMatches
PROPERTIES
    IdsNotUsedAgain
\* The clients may have made all their calls.
CHECK_DEADLOCK FALSE
