SPECIFICATION Spec
CONSTANTS
    Accounts = {a1}
    Emails = {e1, e2}
    Callers = {c1}
    MaxConsents = 2
    MaxVersion = 2
    None = None
    Deleted = Deleted
INVARIANT
    StoredTokensReadable
