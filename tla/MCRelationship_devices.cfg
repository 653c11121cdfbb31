\* ann sends from two devices at once; both accounts are private.
SPECIFICATION Spec
CONSTANTS
    ann = ann
    bob = bob
    eve = eve
    a1 = a1
    a2 = a2
    b1 = b1
    r1 = r1
    r2 = r2
    r3 = r3
    r4 = r4
    r5 = r5
    Users = {ann, bob}
    Registered = {ann, bob}
    PrivateUsers = {ann, bob}
    Sessions = {a1, a2, b1}
    Owner <- TwoDevices
    Targets <- Others
    RowIds = {r1, r2}
    NoRow = NoRow
    NoUser = NoUser
SYMMETRY DeviceSymmetry
INVARIANTS
    SafeInv
    PrivateConsent
    RemovalAnnouncedOnce
PROPERTIES
    BlockStaysBlock
