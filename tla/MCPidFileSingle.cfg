CONSTANTS
    Procs = {p1, p2, p3}
    Stale = Stale
    NoFile = NoFile
    NoPid = NoPid
SYMMETRY Perms
SPECIFICATION Spec
INVARIANTS
    SingleDaemon
CHECK_DEADLOCK FALSE
