CONSTANTS
    Vars = {x}
    Names = {save}
    Values = {0, 1}
    Default = 0
    LastFrame = 3
    MaxChanges = 2
    MaxRollback = 1
    PerfOptimizations = TRUE
SPECIFICATION Spec
INVARIANTS
    WindowTellsTheTruth
    RewindsAreSafe
    SnapshotsTellTheTruth
PROPERTY PreviousAutoIsKept
CONSTRAINT FewSnapshots
