\* Two addresses and two accounts; two codes that may coincide, two mails, time
\* in units of five minutes; three requests that set two passwords; three
\* pictures in files of one name.  Two devices send the requests for accounts
\* and codes.
CONSTANTS
    Emails = {e1, e2}
    Clients = {d1, d2}
    MaxAccounts = 2
    None = None
    Users = {ann, bob}
    Codes = {k1, k2}
    Lifetime = 1
    MaxCodes = 2
    MaxTime = 2
    Passwords = {"p1", "p2"}
    Names = {"n1"}
    MaxUploads = 3
SPECIFICATION MCSpec
SYMMETRY Symmetry
INVARIANTS CodeUsedOnce SettledHolds TokensAreOwn ImageIsOwn
PROPERTY ImplementsAddressBook
CHECK_DEADLOCK FALSE
