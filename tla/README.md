# Verification of the social media microservices

TLA+ models of the services under `src/`, the TLC runs that check them on small
instances, and TLAPS proofs of what holds for every instance.

## The system

| Part | Where | State it keeps | Operations |
|---|---|---|---|
| API gateway | `api-gateway` | none: routes by path prefix | forwards a request |
| user service | `user-service` | `User`, `UserOTP`, `Role` in PostgreSQL (Prisma) | sign-up, sign-in, tokens, e-mail verification, one-time passwords, profile |
| relationship service | `relationship-service` | `Relationship` in the same PostgreSQL | follow, unfollow, accept, reject, block, unblock, lists, recommendation |
| post service | `post-service` | posts, media and viewers in MongoDB, files in MinIO | publish in a transaction, update, delete, react, lists |
| comment service | `comment-service` | comments and reactions in MongoDB, files in MinIO | publish, update, react |
| chat service | `chat-service` | chats, messages, members and a counter in MongoDB, files in MinIO, online users in memory | create chat, add members, post, scroll back, presence |
| notification service | `notification-service` | notifications in MongoDB | consumes Kafka topics, records and mails |

The services call each other over HTTP: every service asks the user service
`GET /auth/me` who the caller is, and the relationship, chat and post services ask
it for other users. They send events over Kafka to the notification service.
Nobody holds a lock, only the post service uses a database transaction, and
almost every rule ("one row per pair", "one reaction per user") is a query
followed by a write. So what is hard here is

* **interleaving between awaits**: NestJS and FastAPI handlers may be overtaken
  at each `await`, the Spring services run handlers on several threads;
* **partial failure**: a request makes three to seven calls to databases, object
  stores and brokers, and nothing undoes the first ones when a later one fails;
* **order of effects**: mail before row, event before commit, update not awaited;
* **redelivery**: Kafka listeners retry, give up and restart at committed offsets;
* **lists that move while they are read**, by cursor or by page number.

What makes each part correct, in the words of the properties below:

* relationships: one row per ordered pair, a private account is followed only by
  consent, a block ends only by unblock, a blocked user does not become a
  follower, every change is announced once;
* chat: distinct message numbers, nothing stored is overwritten, what was shown is
  stored, a walk through the history misses nothing; members are in both places;
* presence: nobody stays online after the last of their sessions;
* notifications: no mail is skipped, no record blocks the ones behind it;
* passwords and accounts: a code opens one reset, a password said to be set is set, one
  account per address, a token is for the account whose password was given, codes go to
  confirmed addresses, a profile shows a picture that is there and is its own;
* posts and comments: stored whole or not at all, what is stored is announced and handed to
  the listener, the last answer holds, stories shown were open to friends at the time; reactions: one per user, counted right.

## Modules

Each module is one state machine with one action per stretch of code between two
calls that others can overtake. `PROJECT.json` maps every definition to the lines it
models. A definition `X_Slip` is a plausible bug in `X`: no specification uses it,
each is put in the place of `X` to see that a property notices.

| Module | Models | State, and where it is in the code |
|---|---|---|
| `Relationship` | the six handlers of `relationship.service.ts`, query by query | `rel` the table, `req` a request at each await, `sent` the events emitted about a row; `mutual`, `consented` are history |
| `RelationshipGraph` | the promise: one edge per ordered pair, moved in one step | `edge` |
| `RelationshipRefinement` | the edge of a pair computed from the table (`EdgeOf`); `ImplementsGraph` | |
| `RelationshipInvariant` | the inductive invariants `SafeInv`, `PairInv` and `AnnounceInv` | |
| `RelationshipReads` | `GetRecommendation`, three queries over a graph that moves | `req` what it has read, `answer` the last page |
| `Stories` | the stories of followed accounts: follows from the relationship service, then posts from the own database | `pc` where the request is, `asked` the accounts it was told of, `public` whose stories friends may see; `moments`, what was followed, blocked and public at each moment of the request, is history |
| `PagedLists` | following and follower lists, the lists of posts, comments, users and chats, by page number | `place` the rows with the value each is sorted by, `hidden` those left out, `client` the page under way; `kept`, `due` are history |
| `ChatMessages` | `createMessage` and `CounterGenerator` | the collections `messages`, `files`, the `counter`, the `topic` and `latest` of each chat, `req` the thread |
| `MessageHistory` | `getMessagesByChatId` by cursor, over `ChatMessages` | what a reader has been shown and its cursor |
| `ChatMembers` | `createChat`, `addChatMemberList` write by write | `rows` of members, `ids` in the chats, `events`, `told` |
| `Presence` | announcements, disconnections and the lists on `/topic/online-users` | `online` the set, `client` and `announce` the handlers of a session, `flight` lists being delivered |
| `Notifications` | the listeners of `EmailController`, `sendEmail`, the container's retries and offsets | `produced`, `committed`, `done`, `fetched`, `tries` of each topic; what was recorded, mailed, dropped |
| `PasswordReset` | `forgotPassword`, `verifyOTP` | `rows` of `UserOTP` and those `alive`, `req`; `granted`, `mailed` are history |
| `Passwords` | `resetPassword`, `updatePassword`, several of them for one account | `password`, `req`; `sole`, `settled` are history |
| `Accounts` | sign-up by form and by OAuth, sign-in, refresh, change of address, verification link, the mail of a code | `account`, the `tokens` signed, also those in mailed links, `req`; history of who confirmed what |
| `AddressBook` | the promise: an address is taken in one step, when nobody has it | `address`, `verified` |
| `Avatars` | `updateAvatar`, not awaited by the controller, and the MinIO calls under it | `bucket`, `objects`, `profileImg`, `upload` |
| `PostPublish` | `create` of a post: moderation, objects, rows in a transaction, event, commit | rows inside and outside the transaction, `bucket`, the producer's buffer and the topic |
| `EventPath` | `PostPublish` and `Notifications` as one system: what the producer delivers is the next record of the listener's topic | both states; `place`, `handled` are history |
| `PostEdits` | PUT and PATCH of a post whose `update_one` is not awaited | `post`, `pending` writes on the driver's threads |
| `CommentPublish` | `create` of a comment: moderation, file, insert, event; the PATCH, its `find_one` and `update_one` | `unread` and `object` the file, rows, producer's buffer, topic |
| `Reactions` | reactions to comments and viewers of posts, and how lists count them | `rows`, `req` |
| `RelationshipProofs` | theorems about the handlers of the relationship service and its graph | |
| `ChatProofs` | about numbering, history, members and the latest message (`MCChat`) | |
| `ContentProofs`, `PresenceProofs` | about publishing, edits, comments, listeners, the path of an event and presence (`MCContent`, `Presence`) | |
| `ReadsProofs`, `ReactionsProofs` | about stories, recommendations, lists by page and reactions (`MCReads`) | |
| `UsersProofs`, `PasswordsProofs` | about accounts, tokens, reset codes, pictures and passwords (`MCUsers`, `Passwords`) | |

External, modelled from how the code uses it: Prisma's `cuid()`, Kafka's delivery and
Spring's `DefaultErrorHandler` (ten attempts, then pass over), Spring's simple broker,
Motor's thread pool, MinIO's buckets, the death of a process.

## Runs

| Run | Instance | Shows |
|---|---|---|
| `core` | 2 users with a client each, 3 row ids | `PairInv`, one row per pair, each change announced at most once, and the handlers implement the graph |
| `devices` | a user with two devices, both accounts private, 2 row ids | what survives when a pair may get two rows: consent, one announcement per removal, a block stays a block |
| `fair` | as `core`, with the own id and an unknown id as targets | every request is answered |
| `reads` | 3 users who react; 4 accounts, 4 moves of the graph, pages of 2; stories of 2 accounts, 5 changes; lists of 4 rows, pages of 2, 4 changes | one reaction per user, counted right; recommendations name strangers once, and are exact at rest; stories shown are of accounts followed or blocked and open to friends since; a walk by page number misses no row that neither moved nor tied |
| `chat` | 2 threads, 2 chats, numbers up to 4, pages of 2; 2 requests that add 2 members | numbers, upserts, history and latest message; members in both places |
| `content` | 3 posts, the listener of `create-post` and two other topics, 2 tries, 1 restart; 2 comments; 3 edits by 2 clients; 2 first messages; 2 sessions | from publishing to the listener: stored whole, nothing skipped, nothing stuck; edits, presence |
| `users` | 2 codes and 2 rows; 3 changes of 2 passwords; 2 addresses, 2 accounts, 2 clients; 3 pictures | reset codes, passwords, accounts and tokens, pictures |
| `late_reject` | as `core`, 4 row ids | **violated**: a block ends by a reject that read the row before |
| `blocker` | as `core`, no overlap | **violated**: a user follows somebody who blocks them |
| `accounts_moved` | 1 client, 1 account | **violated**: a code goes to an address nobody confirmed |
| `edit_swap` | 1 client, 2 edits | **violated** (`SaidIsDone`): a post said to be deleted is not |
| `comment_file` | 1 comment with a file | **violated**: the file of a comment is stored empty |

**Properties.** Each is stated in words where it is defined; what they are about:

* relationships: `PairInv` and `SafeInv` (the inductive invariants the proofs use),
  `OneRowPerPair`, `PrivateConsent`, `BlockStaysBlock`, `RemovalAnnouncedOnce`,
  `AnnouncedOnce`, `ImplementsGraph`, `RequestEnds`;
* reads while things change: `OnlyStrangersOnce`, `AnswerIsExact`, `StoriesWereOpen`, `WalkShowsAll`;
* messages and members: `DistinctIds`, `NothingOverwritten`, `ShownIsStored`, `WalkIsExact`,
  `LatestWhenCalm`, `RequestAnswered`; `IdsHaveRows`, `AddedIsListed`;
* events and listeners: `StoredIsHandled` over two services, `NothingSkipped`, `SavedByTries`, `EventDealtWith`;
* posts and comments: `PostIsWhole`, `LastAnswerHolds`, `DeleteLands`, `AnnouncedIsStored`, `CreatedIsAnnounced`;
* presence: `NobodyStaysOnline`, `NewcomerIsShown`;
* reactions: `OneReactionPerUser`, `LikedIsCounted`, `DeleteIsComplete`;
* the user service: `CodeUsedOnce`, `SettledHolds`, `TokensAreOwn`, `ImplementsAddressBook`, `ImageIsOwn`.

A module's type invariant is a conjunct of one of its properties where the module has no run of its own.

**Several machines in one run.** `MCReads`, `MCChat`, `MCContent` and `MCUsers` put
machines side by side that share no variable. A variable `part`, chosen in the first
state and never changed, says which one moves; the others stay in their first
state. Since no property speaks about two machines, a behaviour of all of them
together violates a property exactly if the behaviour of its own machine does, so
running them one at a time loses nothing and keeps the product of their states out.
Where one machine is asked about several situations (a chat with a counter, a chat
from nothing, requests that do not overlap) `part` names the situation, and the
property of that situation says so (`LatestWhenCalm`, `LastAnswerHolds`). Machines that do interact
(`PostPublish` and `Notifications`) are composed step by step in a module of their own, `EventPath`.

**Bounds, and why they are enough.** Two requests overlap in every machine, which is what
check-then-write needs; a third adds a bystander (`devices`, three posts, three
changes of a password, three pictures, three users who react). Two users are enough for a pair and its reverse;
the reads need four (the caller, two friends, one stranger). Row identifiers are
recycled once neither table nor request knows them, so `RowIds` bounds the rows alive
at once and not the length of a behaviour: with three, a request may hold a row that
is gone while the pair has got another. Pages of two with four rows have a
border that rows cross. A change of a list gives one row a value to be sorted by, so as many values as changes
(`Values`) are enough for every order and every tie. One restart is enough to hand a record over again in the
middle of its attempts; a second one repeats the first with a smaller remainder.
Bounds on what only grows (`MaxId`, `MaxRows`, `MaxEvents`, `MaxEdits`, `MaxTime`,
`MaxMoves`, `MaxChanges`, `MaxAccounts`, `MaxUploads`) are guards of the action that would pass them.

**Symmetry** is used in runs without liveness properties, for sets whose members the
modules never tell apart.

**Deadlock** is checked in the runs of `Relationship`. Elsewhere a machine stops when a
bound is reached and nothing is under way, so those configurations say
`CHECK_DEADLOCK FALSE`.

**Fairness** is weak and on the steps of the program alone: an await resolves or
rejects (`RequestEnds`), a server thread runs its handler (`RequestAnswered`,
`CreatedIsAnnounced`), the driver's pool runs what was submitted
(`DeleteLands`), the listener threads poll and call (`EventDealtWith`), the
producer's thread sends its batch (`StoredIsHandled`), the broker delivers
(`NewcomerIsShown`). Nothing obliges a client to act, and no fairness is put on failures,
crashes or the choice among a call's outcomes: a request may fail for ever.

### What the passing properties assume

* `OneRowPerPair`, `PairInv`, `AnnouncedOnce`, `ImplementsGraph` and `OneReactionPerUser`: a user
  sends one request at a time (`OneClientPerUser`). With two devices they fail, see below.
* `DistinctIds`, `NothingOverwritten`, `ShownIsStored`: the counter document exists (`Warm`).
  `LatestWhenCalm` is checked from an empty database, one request at a time.
* `WalkIsExact`: no two messages of a chat have one stamp.
* `LatestWhenCalm` and `LastAnswerHolds`: requests do not overlap and, for the second, writes
  land in order. With overlap the code orders nothing.
* `SettledHolds`: about a change of a password that overlapped no other; of two that overlap it promises neither.
* `StoredIsHandled`, `CreatedIsAnnounced`: but for an announcement that dies in the producer's buffer with its process, and if
  the broker in the end takes the batches of a producer that lives. The code does not look at the outcome of a send
  (`Post.py:207`, `kafka_producer.py:32`), so a batch given up is lost and nobody notices.
* `ImageIsOwn`: but for two files that get one key, a hash of file name and millisecond.
* `WalkShowsAll`: no row leaves the list or falls back in it during the walk, and a client that
  goes by the total reads its last page and the count from the same list. It is about rows that were alone with their value of the
  column sorted by, at every moment of the walk. Ids are; a `Status`, the stamp a comment gets by default (`Comment.py:84`, one per start of
  the service) and the order of replies and of a user's posts, which are not sorted, are not, and of rows that tie nothing is promised.
* `StoriesWereOpen`: being in the list is what makes a story be shown, and accounts the caller blocks are in the list too.
  That an account followed and open throughout is shown is said where the list has room.
* `NobodyStaysOnline`: not for a user who closed a session before its announcement was handled, who does stay in the set
  (`WebSocketSessionTracker.java:18`).

## Findings

`late_reject`, `blocker`, `accounts_moved`, `edit_swap` and `comment_file` end in a violation of something the
repository says; `PROJECT.json` quotes the lines. The models show more that a text of the repository contradicts
or that a reader would not expect; these are included in the actions and have no run of their own:

* two devices of one user both find no row and both follow: two rows for a pair, against "Already
  following" (`relationship.service.ts:190-198`); two likes in the same way (`CommentReaction.py:18`, `PostViewer.py:30`);
* `CheckUserExist` means to refuse an unknown id, but the user service answers `{}`, which is truthy
  (`relationship.service.ts:658`; `CheckUserExist` in the model always goes on);
* two very first messages both create the counter and get one number (`CounterGenerator.java:30`);
* messages with the stamp of a page's border are in no page (`MessageService.java:136`, `$lt`);
* an `add-member` notification is saved, then refused for its empty content, ten times over
  (`EmailService.java:36-53`);
* the find_one that asks whether a comment exists is not awaited (`CommentReaction.py:13`);
* a media object is named after the client's file, so another post may replace it (`Post.py:191`);
* the answer that an avatar is updated is given before anything is done, and a put that fails is a rejection
  nobody handles (`user.controller.ts:71`);
* once the newest code of a user is used, an older one that has not expired is good again (`auth.service.ts:160`);
* a list of members sent again after a failure gives the first of them second rows (`ChatMemberService.java:53`);
* the code mail says 10 minutes and the configuration 5 (`otp-template.ts:11`, `.env.example:24`); the token of the
  link mail has `iat` in milliseconds, so its 15 minutes never end (`auth.service.ts:232`);
* `mutualFriends` of a recommendation from the second group is the number of all followers
  (`relationship.service.ts:632`); blocked accounts are in the following list, which asks for `Status` alone (57), and
  its total counts pending requests (85);
* so a user who blocks a private account is shown its stories for friends, although it never accepted that user
  (`relationship.service.ts:461-468`, `Post.py:132-135`);
* lists are sorted by columns that need not be unique (`orderBy` of `relationship.service.ts:71-77`, `Comment.py:67` with the default of 84, evaluated once
  at import): two pages may order rows that tie differently, and a walk by page number of a list at rest may miss one and show another twice;
* any access token confirms the address in it, not only that of the mailed link (`auth.service.ts:101`);
* the count and the rows of a page are two queries: with a row added between them, a client that trusts the total stops a page early.

## Proofs

`tlapm` checks every step; the backends are Z3, Zenon and LS4. Recursion is not used in any module that a
proof reaches. Every safety property of the passing runs, invariant, action property or refinement, has a theorem
for all values of the constants; each rests on an inductive invariant, because what the
code promises is seldom inductive: it says nothing of what a handler that is half way has read and may still do.

**Relationships** (`RelationshipProofs`; the invariants are in `RelationshipInvariant`).

* Types (`TypeCorrect`): `TypeOK` with `RequestsWellFormed`, what a request holds at each point of its handler.
* Any number of requests per user (`HandlersAreSafe`, and from it `BlockIsFinal`, `PrivateAccountsConsent`,
  `RemovalsAnnouncedOnce`), by `SafeInv`. `BlockStaysBlock` needs `BlocksAccepted`: a late accept writes `Status` alone, which
  changes nothing of a block only because blocks are accepted from the start. `PrivateConsent` needs
  `MutualRemembered`: an approval given on the reverse row is still in the history when the
  row is created, although the reverse row may be gone. `RemovalAnnouncedOnce` needs
  `OneRemover`: of the requests past a removal's write at most one names a given row, and that row is gone.
* One request per user (`PairsHaveOneRow`, `PairsInvariant`, `HandlersImplementGraph`, under `OneClientPerUser`), by `PairInv`.
  `OneRowPerPair` is not inductive: `NothingToDuplicate` says that between the query that found
  nothing and the create nobody made a row for the pair, since only its own user makes rows for it.
  The refinement adds `SeenMatches` (a held row is still of the pair it was read for, or gone) and
  `AskedWell`; each write then moves one edge as the graph allows, and each other step none.
* Each change announced once (`AnnouncementsAreSingle`, under `OneClientPerUser`), by `AnnounceInv`: of the requests under way at most one
  is about a given change of a given row, and nobody has announced that change yet; a row whose acceptance or block was announced is still
  accepted or blocked, so no later request finds it to be accepted or blocked again.

**Chat** (`ChatProofs`).

* Numbers (`NumbersHold`, `NumbersAreDistinct`, `ShownMessagesAreStored`, `NothingIsOverwritten`,
  under `Warm`), by `ChatInv`: a number given is above every number in use, so nothing is stored
  under it before its own request stores it (`NotYetStored`), and what is stored on the way
  to the topic stays what the request built (`StoredOnTheWay`).
* History (`WalksAreExact`, under `WalkBounds`: a counter, and stamps that differ), by `StampInv`, no two messages stored or about to be
  have one stamp and none is of the future, and `WalkInv`: what was shown is what is at the cursor or newer, of what was held, and no
  page overlaps another. A page is the newest messages below the cursor; that there are such pages is the well-foundedness of the
  stamps.
* Latest message (`LatestIsTheNewest`), by `CalmInv`: with requests one at a time nothing stored is newer than the one at work, and every
  stored message is covered by its chat's latest or by the request that has written it and is about to set the latest.
* Members (`ArraysHaveRows`, `AddedStayListed`), by `MembersInv`: a member is stored before it is put in the array and announced after that, and a request
  at the `n`-th member has announced all before it; rows, arrays and events only grow.

**Posts, comments, events, presence** (`ContentProofs`, `PresenceProofs`).

* `PostsAreWhole`, by `PostInv`: a request that has written the rows of `k` files has put those files, in their order, comes to the
  commit with all of them, and has nothing outside its transaction before; what is stored is whole and what is announced has its files.
* `AnnouncedCommentsAreStored`, by `CommentInv`; `LastAnswerIsThePost`, by `CalmInv`: with one change at a time, the one waiting to be answered is
  the only one, and no update is left in the driver's pool.
* `NoMailIsSkipped`, `SavesAreBounded`, by `ListenerInv`: the cursors of a topic stand in the order committed, done, fetched, produced, and
  a record behind the cursor `done` was mailed or dropped after the last try; a restart takes `fetched` and `done` back to `committed`.
* `PathRunsBoth`: `EventPath` implements the specifications of both its services, each seen through the variables it
  owns, so the theorems about each hold on the path; `HandledPostsHaveFiles` joins them: a post the listener has handled was announced by
  the producer, after the last of its files.
* `NobodyIsLeftOnline` for any sessions with users, `UsersAreOnlineWithSessions` for the instance of the run.

**Reads** (`ReadsProofs`, `ReactionsProofs`).

* `OneReaction` (under `OneClientPerUser`), by `ReactInv`: while a request is between its find and its insert no row of its user and target
  appears. `DeletesAreComplete` follows from it too; `LikesAreCounted` needs `LikedHolds`, that what a list has read of the
  user's own reaction still holds when it counts.
* `ShownStoriesWereOpen`, by `StoryInv`: while a request is under way the last of its moments is the present one; between its two
  reads it names only accounts in the list at a moment since it began, and all followed at every one as long as they fit its limit.
* `OnlyStrangersAreShown`, by `StrangerInv`; `RecommendationIsExact`, by `ExactInv`: while the graph is at rest the first page of
  the mutual friends is all of them if they fit (an order without repetition of `n` groups has them all), and the merge with the second query is
  what the service means to recommend.
* `WalksMissNothing`, by `PagesInv`: a row that neither moved nor tied and has not been given is behind all the pages read so
  far (`Coming`). Changes that keep the list whole never make its rank smaller, for no row falls back (`NobodyFallsBack`); a page with such a row
  behind it is full (`PageIsFull`: in any order of the rows that tie, those skipped and those on the page are all ahead of it, and
  there are as many as the query asked for), so neither the total nor a short page ends the walk too early.

**The user service** (`UsersProofs`, `PasswordsProofs`).

* `TokensStayOwn`, by `AccountsInv`: what a request or a token names is an account that is
  there and stays there (`RequestsHold`, `SubjectsHold`), and a sign-in under way carries the number of
  the account whose password it was given, not its address.
* `AccountsImplementBook`, `AddressesDiffer`, from the same invariant: the insert and the
  update go through only if the index finds nobody else with the address, so each is `Take` of a
  free address or no change of the book; `ConfirmWrite` is `Confirm`; every other step stutters. From the book
  follows that no two accounts have one address.
* `CodesAreUsedOnce`, by `ResetInv`: grants and the living row together are one at most, an identifier without a row has granted
  nothing, and a request about to store a code names one that is mailed.
* `SettledPasswordsHold` and, for the instance of the run, `PasswordsAreSettled`, by `PasswordInv`: `SettledHolds` is not inductive, since a
  settled password comes from a request that has yet to answer. `AloneHolds` says that the
  request recorded as alone is the only one of its user and, once it has written, finds what it
  wrote; `AtRest` that nobody is changing a settled password.
* `PicturesAreOwn`, by `PictureInv`: what an upload under way, an object and a profile say of one key agree.

**Assumptions.** The constants are assumed to be what `RelationshipAssumption`, `ChatAssumption`,
`ReactionsAssumption` and `PublishAssumption` say: sets of any size, owners in the right sets, files that have names, null values outside
them. TLC evaluates these on the runs. The other theorems carry theirs as hypotheses: that the null value is no member of a set it
must differ from (`NoneIsNobody`, `NoneIsNoEmail`, `ResetBounds`, `PictureBounds`), that bounds are numbers (`ListenerBounds`, `MemberBounds`,
`StoryBounds`, `StrangerBounds`, `ListBounds`), that what is counted is finite (users, accounts, rows), and what the section on the properties says
they assume: `OneClientPerUser`, `Warm`, stamps that differ. The instances of the runs satisfy all of them.

**Only model-checked**: liveness (`RequestEnds`, `StoredIsHandled`, `EventDealtWith`, `RequestAnswered`, `DeleteLands`,
`CreatedIsAnnounced`, `NewcomerIsShown`), because fairness and `ENABLED` are beyond the prover.

## Not modelled

* The API gateway, guards, validation pipes, exception filters, mappers, templates and configuration: no state, or the
  shape of a request. A request in a model has passed its guard.
* Roles, which no request changes; the expiry of tokens, which nothing revokes: a token is good at any time, as if
  it were used within its lifetime. `introspect` reads a token and keeps nothing.
* The name, birthday and gender of a profile: single updates nothing reads back. User searches by name and block
  lists: single queries. `findMany` of users refuses a valid `orderBy` (`user.service.ts:31-39`, the check
  is inverted), so its pages are modelled in the default order.
* The `isDeleted` filter of the lists of posts of a user and of stories is missing in the code, and in `Stories`.
* Content of messages to mail.
* How the language model's verdict is parsed: a moderation ends in yes, no or an error, freely.
* `/send-message`: passes a payload on and keeps nothing.
* Crashes of databases and brokers: a call fails or succeeds; a process that dies loses its requests and buffers.

## Plan

Done: relationship handlers, graph and refinement; recommendations, stories, lists by page; chat, history, members,
presence; notifications and the path of a post's event through both services; publishing and edits of posts
and comments; reactions; reset codes, passwords, accounts, tokens, the address book, pictures; a theorem for every safety property
of the runs.

Left, in this order:

1. Prove what liveness rests on as far as it is safety: that no step is lost on the way (each event between producer and
   listener is in one place), and measures that steps of the program lower.
2. Extend the models: the other producers (comments, members, follows, codes) composed with `Notifications` as `EventPath` does for
   posts; several consumers of one group and a rebalance between them; the expiry of tokens.
