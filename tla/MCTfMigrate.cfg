CONSTANTS
    Terminals = {t1, t2}
    Backends = {s3, pg}
    Restamps = {pg}
    Items = {i1, i2}
    None = None
SYMMETRY Symmetry
SPECIFICATION Spec
INVARIANTS
    TypeOK
    NoRebuild
    RestoreComplete
