CONSTANTS
    d = d
    a = a
    b = b
    s = s
    bin = bin
    p1 = p1
    Dir = d
    Names = {a, s}
    Initial = {a}
    Inner = {bin}
    Procs = {p1}
    Mode = "Discover"
    Recursive = TRUE
    MaxVer = 2
    MaxPending = 2
    MaxOps = 4
SPECIFICATION Spec
INVARIANT TypeOK
PROPERTY CreatedDirWatched WatchReleased
\* the container's processes may stop touching the directory
CHECK_DEADLOCK FALSE
