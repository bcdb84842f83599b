SPECIFICATION Spec
CONSTANTS
    Users = {u1, u2}
    Names = {n1, n2}
    Mailboxes = {m1, m2}
    Keys = {k1}
    Requests = {r1, r2}
    None = None
SYMMETRY Interchangeable
INVARIANTS
    TypeOK
    OnlyNamedMailbox
    BoundKeyConfined
PROPERTIES
    OnlyOwnerEnables
