SPECIFICATION FairSpec
CONSTANTS
    i1 = i1
    b1 = b1
    b2 = b2
    Boards = {b1, b2}
    Items = {i1}
    Columns = {"Ready", "Done"}
    Home <- HomeOfItems
    NoBoard = NoBoard
    Callers = {m1, m2}
    MaxMoves = 1
    MaxFaults = 1
INVARIANTS
    BaselineIsTold
    ReportsPeoplesMoves
PROPERTY CardsSeen
CHECK_DEADLOCK FALSE
