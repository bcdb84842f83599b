SPECIFICATION Spec
CONSTANTS
    Accounts = {a1}
    Emails = {e1, e2}
    Callers = {c1, c2}
    MaxConsents = 2
    MaxVersion = 1
    None = None
    Deleted = Deleted
INVARIANT
    TokensMatchMailbox
