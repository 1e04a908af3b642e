CONSTANTS
    c1 = c1
    c2 = c2
    hosts = hosts
    passwd = passwd
    p1 = p1
    p2 = p2
    kc = kc
    kd = kd
    Pids = {c1}
    NVPids = {}
    Files = {hosts, passwd}
    RuntimeFiles = {}
    Procs = {p1}
    FKeys = {kc, kd}
    CustomerKeys = {kc}
    Match <- MCMatch
    Confs <- MCConfs1
    NoRule = NoRule
    StartModes = {"Discover"}
    KernelOps = {"read"}
    CleanupModes = {TRUE, FALSE}
    CapBlock = TRUE
    Aufs = FALSE
    Grace = 1
    MaxClock = 0
    MaxVer = 2
    MaxPending = 1
SPECIFICATION Spec
 
PROPERTY LearnedRulesRefined
