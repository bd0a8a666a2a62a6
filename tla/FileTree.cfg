SPECIFICATION Spec
CONSTANTS
    Order <- NavOrder
    ParentOf <- NavParentOf
    Dirs <- NavDirs
    Layouts <- NavLayouts
    MaxObjects = 4
    MaxChanges = 1
    MaxInputs = 2
INVARIANTS MapHasTree QuietTreeIsCurrent ArrowsFollowRows
CHECK_DEADLOCK FALSE
