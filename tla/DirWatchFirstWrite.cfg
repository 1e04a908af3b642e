CONSTANTS
    d = d
    a = a
    b = b
    s = s
    bin = bin
    p1 = p1
    Dir = d
    Names = {a}
    Initial = {a}
    Inner = {}
    Procs = {p1}
    Mode = "Monitor"
    Recursive = TRUE
    MaxVer = 2
    MaxPending = 1
    MaxOps = 3
SPECIFICATION Spec
PROPERTY DirModifyReported
\* the container's processes may stop touching the directory
CHECK_DEADLOCK FALSE
