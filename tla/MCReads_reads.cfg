\* Three users who react to one target with one client each; four accounts,
\* changes of the graph between the queries, pages that cut the list of
\* recommendations and pages with room for all of it; stories of two accounts,
\* one of them private, a page of two of them and five changes; lists of four
\* rows, pages of two and four changes.
CONSTANTS
    Users = {1, 2, 3}
    Targets = {t1}
    Clients <- OnePerUser
    Owner <- OwnerOf
    MaxRows = 3
    None = None
    Registered = {"ann", "bob", "cas", "dee"}
    PrivateUsers = {"bob"}
    Caller = "ann"
    Take = 2
    Pages = 2
    MaxMoves = 4
    Followable = {"bob", "cas"}
    Limit = 2
    MaxEdits = 5
    Entries = {r1, r2, r3, r4}
    Size = 2
    MaxChanges = 4
SPECIFICATION MCSpec
INVARIANTS OneReactionPerUser LikedIsCounted OnlyStrangersOnce AnswerIsExact StoriesWereOpen WalkShowsAll
PROPERTY DeleteIsComplete
CHECK_DEADLOCK FALSE
