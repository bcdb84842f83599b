SPECIFICATION Spec
CONSTANTS
    Mailboxes = {m1}
    Names = {n1}
    Emails = {e1}
    SignupEmail = e1
    Verifications = {v1}
    Requests = {q1}
    MaxWrongCodes = 1
    None = None
    Gone = Gone
INVARIANT
    AttemptsTracked
