\* Every await resolves; ann also names herself and an unknown id.
SPECIFICATION FairSpec
CONSTANTS
    ann = ann
    bob = bob
    eve = eve
    a1 = a1
    a2 = a2
    b1 = b1
    r1 = r1
    r2 = r2
    r3 = r3
    r4 = r4
    r5 = r5
    Users = {ann, bob, eve}
    Registered = {ann, bob}
    PrivateUsers = {bob}
    Sessions = {a1, b1}
    Owner <- OneClientEach
    Targets <- AnnAnyone
    RowIds = {r1, r2}
    NoRow = NoRow
    NoUser = NoUser
PROPERTIES
    RequestEnds
