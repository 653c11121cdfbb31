\* One account that changes its address.
CONSTANTS
    Emails = {e1, e2}
    Clients = {c1}
    MaxAccounts = 1
    None = None
SPECIFICATION Spec
INVARIANT ResetsGoToConfirmed
CHECK_DEADLOCK FALSE
