SPECIFICATION FairSpec
CONSTANTS
    Layout <- MCLayout
    Client = {c1, c2}
    c1 = c1
    c2 = c2
    Nobody = Nobody
    Plans <- MCPlans
    Reply <- MCReply
    Capacity = 4
INVARIANTS TypeOK InStep WaitsForDebtor
PROPERTIES AllHandled
CHECK_DEADLOCK FALSE
