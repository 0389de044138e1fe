CONSTANTS
    Procs = {p1, p2, p3}
    Stale = Stale
    NoFile = NoFile
    NoPid = NoPid
SYMMETRY Perms
SPECIFICATION Spec
INVARIANTS
    SequentialStartsExclusive
CHECK_DEADLOCK FALSE
