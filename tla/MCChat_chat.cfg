\* Two threads, two chats, ids 2..4, stamps that may be equal; pages of two.
\* Two threads that add two members each to one chat.
CONSTANTS
    Requests = {r1, r2}
    Chats = {c1, c2}
    Steps = {0, 1}
    MaxId = 4
    Warm = TRUE
    None = None
    Size = 2
    Groups = {group}
    People = {ann, bob, cas}
    Lists <- TwoLists
    MaxRows = 2
    ann = ann
    bob = bob
    cas = cas
SPECIFICATION MCSpec
SYMMETRY Symmetry
INVARIANTS DistinctIds ShownIsStored WalkIsExact LatestWhenCalm IdsHaveRows AddedIsListed
PROPERTY NothingOverwritten
CHECK_DEADLOCK FALSE
