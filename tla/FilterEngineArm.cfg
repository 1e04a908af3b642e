CONSTANTS
    TreeDirs <- MCTreeDirs
    TreeFiles <- MCTreeFiles
    RunTimeFiles <- MCRunTimeFiles
    Profiles <- MCProfiles
    Cids <- MCCids
    Me = "c1"
    WalkerMaxCount = 2
SPECIFICATION Spec
INVARIANT WalkReachesCovered
 
PROPERTY StartWatchArms
CHECK_DEADLOCK FALSE
