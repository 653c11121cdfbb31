\* Three overlapping posts and two comments with failures and crashes; two
\* mails and a new member, two tries, one restart; two clients with three edits
\* of one post; two threads that post the first messages; two sessions.
CONSTANTS
    Posts = {1, 2, 3}
    Files <- FileNames
    Types <- OneTypeShort
    Announced = announced
    otp = otp
    member = member
    Topics = {otp, member, announced}
    Kind <- AllKinds
    MaxEvents <- AllEvents
    MaxTries = 2
    MaxCrash = 1
    Clients = {c1, c2}
    Contents = {"a", "b"}
    MaxEdits = 3
    Comments = {1, 2}
    WithFile = {1}
    Requests = {r1, r2}
    Chats = {chat}
    Steps = {0}
    MaxId = 2
    Warm = FALSE
    None = None
    ann = ann
    bob = bob
    s1 = s1
    s2 = s2
SPECIFICATION MCSpec
INVARIANTS PostIsWhole NothingSkipped SavedByTries LastAnswerHolds AnnouncedIsStored NobodyStaysOnline
PROPERTIES StoredIsHandled EventDealtWith DeleteLands CreatedIsAnnounced RequestAnswered NewcomerIsShown
CHECK_DEADLOCK FALSE
