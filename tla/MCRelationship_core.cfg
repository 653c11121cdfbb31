\* One request per user at a time; account bob is private.
SPECIFICATION Spec
CONSTANTS
    ann = ann
    bob = bob
    eve = eve
    a1 = a1
    a2 = a2
    b1 = b1
    r1 = r1
    r2 = r2
    r3 = r3
    r4 = r4
    r5 = r5
    Users = {ann, bob}
    Registered = {ann, bob}
    PrivateUsers = {bob}
    Sessions = {a1, b1}
    Owner <- OneClientEach
    Targets <- Others
    RowIds = {r1, r2, r3}
    NoRow = NoRow
    NoUser = NoUser
SYMMETRY RowSymmetry
INVARIANTS
    PairInv
    OneRowPerPair
    AnnouncedOnce
PROPERTIES
    ImplementsGraph
