SPECIFICATION Spec
SYMMETRY Symmetry
CONSTANTS
    Users = {u1, u2}
    Tokens = {t1, t2, t3}
    Requests = {q1, q2}
    MaxPassword = 2
    None = None
INVARIANTS
    TypeOK
    OwnerExists
    SessionsUnderPassword
PROPERTIES
    ImplementsDirectory
