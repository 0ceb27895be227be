SPECIFICATION MCSpec
CONSTANTS
    None = None
    NotANumber = NotANumber
    InterfaceIds = {"n1", "n2", "n3"}
    DeviceIds = {"d1", "d2"}
    ExecutorIds = {"e1"}
    Texts <- MCTexts
    Bitrates = {20000}
    SamplePoints <- MCSamplePoints
    U32 = 16777216
    Descriptors <- MCDescriptors
    MaxEdits = 5
    MaxOtherEdits = 2
    MaxEntries = 2
INVARIANTS
    
    ReloadShowsSaved
    UntouchedSaveKeeps
    DistinctInterfaceNames
PROPERTY
    PanicsExplained
