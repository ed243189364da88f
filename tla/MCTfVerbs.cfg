CONSTANTS
    None = None
    terminal1 = terminal1
    terminal2 = terminal2
    old = old
    new = new
    container = container
    disk = disk
    dns = dns
    Terms = {terminal1, terminal2}
    Names = {old, new}
    Exact = {container, disk}
    Derived = {}
    MaxId = 2
    MaxJobs = 2
    MaxEdits = 1
SPECIFICATION Spec
INVARIANTS TypeOK InPlace
PROPERTY KeptObjects
SYMMETRY TerminalSymmetry
CHECK_DEADLOCK FALSE
