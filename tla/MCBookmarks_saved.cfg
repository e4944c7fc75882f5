SPECIFICATION Spec
CONSTANTS
    Labels = {home, work}
    Places = {p}
    Folder = Folder
    Missing = Missing
    MaxDepth = 1
    MaxOps = 4
    MaxFaults = 1
INVARIANTS SavedIsOnDisk OthersStay OperationHasEffect ListIsSaved
CHECK_DEADLOCK FALSE
