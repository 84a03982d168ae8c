\* One role, two areas, one name for roles and contexts, one field; the client makes
\* up to six calls and one fault happens.
SPECIFICATION Spec
CONSTANTS
    Names = {n}
    Values <- TwoValues
    Fields = {field}
    NoName = NoName
    Areas = {a, b}
    NoRole = NoRole
    NoArea = NoArea
    Missing = Missing
    Torn = Torn
    MaxCalls = 6
    MaxFaults = 1
INVARIANTS
    TypeOK
    StoredOrMarked
    
    ObjectAgrees
    ExistsReadable
\* The client may have made all its calls.
CHECK_DEADLOCK FALSE
