SPECIFICATION Spec
CONSTANTS
    Mailboxes = {m1, m2, m3}
    Names = {n1, n2}
    Emails = {e1, e2}
    SignupEmail = e1
    Verifications = {v1, v2}
    Requests = {q1, q2}
    MaxWrongCodes = 1
    None = None
    Gone = Gone
SYMMETRY Symmetry
INVARIANTS
    TypeOK
    NamesAndAddressesUnique
    HostedMailboxVerified
    VerificationNamesItsMailbox
PROPERTIES
    ImplementsRegistry
