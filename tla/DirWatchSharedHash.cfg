CONSTANTS
    d = d
    a = a
    b = b
    s = s
    bin = bin
    p1 = p1
    Dir = d
    Names = {a, b}
    Initial = {}
    Inner = {}
    Procs = {p1}
    Mode = "Discover"
    Recursive = TRUE
    MaxVer = 2
    MaxPending = 1
    MaxOps = 4
SPECIFICATION Spec
PROPERTY ModifiedOnlyIfChanged
\* the container's processes may stop touching the directory
CHECK_DEADLOCK FALSE
