# Threadly backend: a TLA+ verification project

Threadly is a small social network backend: an HTTP gateway, five gRPC services
in Go, one Postgres database, Redis and RabbitMQ. Little of it is hard line by
line. What is hard is what happens between the lines: statements of two requests
that interleave, a lock waited for in the wrong order, an event handled twice or
never, a cache filled after it was cleared. This project models those parts,
checks them with TLC on small instances, and proves some of the results with
TLAPS for every size.

All paths below are relative to the repository root. `Module!Name` is the
definition `Name` of `Module.tla`.

## 1. Inventory

### Components

| Component | State it keeps | Operations | Module |
|---|---|---|---|
| api-gateway: routing, binding, JWT check, gRPC clients (`services/api-gateway`) | none | every route: what is refused, who may call it, the service behind it, its deadline, the status of each outcome | `Routes`, `Gateway` |
| rate limiter (`pkg/middleware/rate-limiting.go`) | one Redis counter per route and address | INCR, EXPIRE, verdict | `RateLimiter` |
| user-service: sessions (`services/user-service`) | `users`, `sessions` | Register, Login, RefreshToken, Logout, DeleteUser | `Sessions` |
| user-service: profiles | `users` | GetMe, UpdateProfile | `AccountService` |
| content-service: interactions (`services/content-service`) | `likes`, `bookmarks`, `reposts`, counters of `posts` | like, unlike, bookmark, unbookmark, repost, undo | `Interactions`, `InteractionStore` |
| content-service: follows | `follows`, counters of `users` | FollowUser, UnfollowUser | `Follows`, `FollowGraph` |
| content-service: posts | `posts`, `media` | CreatePost, CreateReply, UpdatePost, DeletePost | `Posts` |
| content-service: reads | none | GetPost, GetReplies, GetFollowers, GetFollowing, GetUserTimeline | `Reads`, `ContentService` |
| event bus (`pkg/messaging/rabbitmq.go`) | queues, dead-letter queues, `x-retry-count` | Publish, Consume, retry, dead-letter | `EventBus` |
| notification-service | `notifications` | CreateFromEvent, GetNotifications, GetUnreadNotificationCount, MarkNotificationRead, MarkAllNotificationsRead | `Notifications`, `NotificationDelivery` |
| feed-service: cache | Redis pages `feed:home:...` | GetHomeFeed, clearing on events | `FeedCache` |
| feed-service: query, pagination | none | FindHomeFeed with its cursor | `Reads`, `ContentService` |
| storage-service | Supabase objects, `media` rows | UploadMedia | `StorageService` |
| startup and deployment (the six `main.go`, `db/postgres.go`, `docker-compose.yml`) | the processes, their connections | what each `main` insists on, restarts, outages | `Deployment` |
| migrations, seed, logging, generated code, CI | | | not modelled (section 5) |

### Interactions

- The gateway calls a service over gRPC with a deadline of 3 s (10 s for an
  upload). When it passes, the client gets its answer, and the handler in the
  service goes on until it notices that its context is cancelled and its next
  statement fails. `Gateway` has both halves (`TimeOut`, `Stop`); in the modules of
  one component it is a failing statement (`Fail`, `GiveUp`, `Rollback`,
  `IncrFails`).
- The services share one Postgres database. user-service soft-deletes rows of
  `users` that content-service counts on (`Follows!Erase`); storage-service
  inserts the `media` rows that content-service attaches (`Posts`).
- content-service publishes an event after its commit; feed-service and
  notification-service consume it, each from a queue of its own. There is no
  outbox: an event whose publication fails is logged and gone.
- feed-service reads the tables that content-service writes, and keeps pages in
  Redis for 60 s.

### What is hard, and what correctness means

| Where | Hard behaviour | Properties |
|---|---|---|
| Interactions | double clicks; deletion of the post between check, row and counter; rollback | counters equal rows; answers alternate; one event per change; calls are atomic |
| Follows | opposite lock orders; account deleted between two updates | counters equal rows; calls are atomic; deadlocks are rings of mutual calls; every call ends |
| Posts | statements without a transaction; concurrent replacement of media | media stay with their uploader and their post; what a deletion leaves; what two updates leave |
| EventBus | republish and acknowledge are two steps; retries go to every service | nothing routed is lost; retries are bounded; events settle |
| Notifications | the same event again; concurrent marks | exactly one notification; read stays read; each read marked once |
| FeedCache | fill against invalidation; lost events | staleness only by one race, and bounded by the TTL |
| Sessions | the same refresh token twice; logout against refresh; deletion against login | one session per login; logout is final |
| RateLimiter | INCR and EXPIRE apart; two limiters on one key; end of the window | the limit is kept; a lock-out is always a lost EXPIRE |
| Gateway | the deadline passes while the service works on; a token outlives its account | the answer says what happened; a deleted account stays gone |
| StorageService | the file is written before its row; an upload is repeated | no row without its file, no post shows a file without a row |
| ContentService, Reads | pages, merges and joins read while others write; a cursor of time stamps | nothing is shown twice, nothing that stood is missed |
| Deployment | dependencies that come and go in any order; no reconnection to RabbitMQ | nothing published is lost, and little is duplicated; whatever can start serves again; events settle while a consumer lives |

`PROJECT.json` lists each of these hazards at its line, with the properties that
cover it, and those that none covers with the reason.

## 2. The modules

Common conventions. A *call* is one request; the set `Requests` bounds how many
there are. `pc[r]` (or `at[r]`) is the statement the handler of `r` will execute
next, one action is one SQL or Redis command together with the local code up to
the next one, and a mutant, the plausible bug used to show that a property can
fail, stands right before the definition it mutates. Variables that exist only
to state a property are marked below as *history*.

**Interactions** (`content_service.go`, `interaction_repository.go`). `Find` is
`ensurePostExists`/`FindByID`; `InsertRow` and `DeleteRow` the first statement of
the transaction; `UpdateCounter` the second; `Commit` the end of `db.Transaction`;
`Publish` or `SkipPublish` the event; `Erase` the deletion of the post. Postgres
runs at READ COMMITTED: what a transaction wrote becomes visible in `Commit`, and
until then its locks (`EntryLocked`, `PostLocked`) make others wait. The locks are
derived from `pc` and `hit`, so there is no lock variable to forget to release.
*History*: `outcome`.

**InteractionStore** is the abstract specification: a set of entries and
counters, each call one atomic step. Its variables have the names of
`Interactions`' own, so the refinement mapping is the identity, and
`Interactions!Atomic` is the abstract specification.

**Follows** (`FollowUser`, `UnfollowUser`; `userRepository.DeleteByID`). The
transaction of three statements, with `UpdateFirst` and `UpdateSecond` for the two
rows of `users`. `WaitsFor` is the wait-for relation that follows from the locks,
`Ring` a deadlock, `BreakDeadlock` what `deadlock_timeout` does about it.
*History*: `outcome`, `published`.

**FollowGraph** is what follows promise: a call is one step that moves the follow and
the counters of both users. Its variables have the names of `Follows`' own, and
`Follows!OneStepEach` is the abstract specification. Two weaknesses of the code are
part of the promise: a user who is being deleted can still be followed, because the calls
look at the users before the transaction, and his counters stay as they were.

**Posts** (`post_repository.go`). CreatePost and CreateReply are separate
statements; UpdatePost ends in the transaction `ReplacePostMedia`. An `UPDATE
media` is two steps (`StartMedia` takes the snapshot, `Detach`, `Attach` or `Sweep`
waits for locked rows and re-examines them), for that is where concurrent updates
differ from sequential ones. A post is named after the call that makes it.
*History*: `joined`, `racing`.

**EventBus** (`rabbitmq.go`). `ready[q]` is a bag of copies, `job[q]` the delivery
in the consumer goroutine's hands. `Retry` publishes through the exchange again,
so `Route` gives a copy to every bound queue, not only the one that failed. The
stage `settled` separates the publication from the `Ack`, and `Disconnect` between
them duplicates. A consumer whose channel closes returns for good (`"deaf"`).
*History*: `owed`, `done`, `failures`.

**Notifications** (`notification_repository.go`, `notification_service.go`).
`rows` is the table in order of `created_at`; `Create` is the `INSERT ... ON CONFLICT (event_id) DO NOTHING`; `Accept` and
`Reject` are `CreateFromEvent` returning nil or an error, including an INSERT that
went through though its answer was lost. Marking is one UPDATE, row by row (`Start`, `Visit`),
that commits (`Finish`), fails (`Rollback`), or commits while its call fails
because the answer is lost or comes after the deadline (`FinishUnheard`). The list,
which is cut to a page, and the unread count are one SELECT
(`Look`). *History*: `earlier`.

**NotificationDelivery** composes the two: the handler of the notification queue
is `CreateFromEvent`, and its result decides between `Ack` and retry.

**FeedCache** (`feed-service`, `content-service`'s events). A page's content is
abstracted to the version of the database it was computed from (`asOf`) and the
time since (`age`). `Get`, `Query`, `Set` are GetHomeFeed; `StartInvalidation`,
`ScanKey`, `EndInvalidation` the consumer's SCAN and DEL. *History*: `known`,
`excused`, `handled`.

**Sessions** (`user_service.go`, `session_repository.go`). One action per
statement, shared by the calls that use it; a session is named after the call
that creates it. *History*: `root`, `pending`.

**RateLimiter** (`rate-limiting.go`, the routes in `app.go`). One key: a route and
an address. The two limiters of `/api/users/login` use the same key, because both
run before authentication and the key does not name the limiter; `Limits` is the
sequence of limits a request passes. *History*: `local`, `counted`, `whole`,
`leaked`.

**Deployment** (the six `main.go`, `db/postgres.go`, `docker-compose.yml`) puts the
processes around `EventBus`. `stage[s]` is how far `main` has come: `Connect` is
`ConnectPostgres`, which is fatal, `JoinAsPublisher` and `JoinAsConsumer` are
`NewRabbitMQ` and `Consume`, whose failure is a warning, and the gateway insists on
nothing (`Independent`). `Exit` is the end of the process, after which docker starts
`main` again. `BrokerFails` and `BrokerReturns` are an outage of RabbitMQ,
`LoseLink` and `GoDeaf` how its clients notice; no action connects them again
because no code does. `Announce` is `publishEvent`, which drops the event when
there is no connection. An outage puts deliveries back as a crash does, so the bound of
`RetriesBounded` is exceeded here; `DuplicatesBounded` adds a copy per outage and queue.

The gateway is composed of five modules:

- **Routes** is what does not change: for each route the refusals of its handler
  (`Handlers`), who may call it (`Open`), how the errors of its RPC become gRPC codes
  (`Errors`) and these HTTP statuses (`HttpCode`), and the deadlines.
- **Reads** has the queries as operators on sets of entries `<<item, created_at>>`:
  `Newest` and `Oldest` are ORDER BY with LIMIT (any choice among equal stamps),
  `Pages` a page and its cursor, `Merged` the timeline's merge of two queries.
- **Backends** declares the tables and what each list is about.
- **AccountService**, **StorageService**, **ContentService** are the handlers of the
  services, a statement per action, as far as a client can tell them apart: a
  toggle is the one step that `InteractionStore` promises, a login ends in an access
  token. *History*: `did`, `stood`.
- **Gateway** takes a request through all that: `TurnAway` (429, 401, 400), `Call`,
  the steps of the service, `TimeOut`, `Respond`. A client may wait for an answer
  before its next request (`after`), as when it scrolls or uses what it uploaded.

The `MC...` modules give the constants their values and symmetry sets.

## 3. Runs

| Run | Instance | Shows |
|---|---|---|
| `interactions` | 3 calls of any kind, 2 users, 1 post, likes and bookmarks | counters, answers, events, frozen deleted posts, refinement of `InteractionStore`, every call ends |
| `follows` | 3 calls of seven kinds (rings of 2 and 3, an unfollow, a deletion), 3 users, one follow made before | both counters, deadlocks only in rings, refinement of `FollowGraph`, every call ends |
| `posts` | 3 calls (reply, update, delete), 2 users, 1 old post, 2 media of its author | media never change hands or leave a post otherwise than by an update; what update, deletion and reply leave, with the races named |
| `notifications` | 4 events (two due, one one's own, one invalid), 3 calls that mark, list or count, pages of 1 | what is read was marked by one call only, so stays read, and that call was told unless it failed after its COMMIT; no list, count or mark after a mark-all finds unread what it marked |
| `notification_delivery` | 2 queues, 1 event on both, 1 malformed message, 1 retry, 1 crash, 1 inbox call | the bus: at-least-once, bounded fan-out, dead letters are earned; with the store: exactly-once effect |
| `deployment` | content-service, one consumer, user-service, the gateway and a storage-service that cannot start; 1 event, 1 retry, 1 crash of the consumer, 1 outage of RabbitMQ, Postgres at will | what was published survives an outage, which copies it once per queue at most; whatever can start serves again; every event is handled or dead-lettered by a consumer that stays up, and with `ExactlyOnce` whoever is due a notification gets it unless there is a dead letter |
| `feed_cache` | 2 users, 2 pages, 2 requests, 1 change, TTL 2, fills up to 1 tick | answers are at most TTL + fill old; outdated pages come from one race only |
| `feed_cache_rebuild` | violation | README.md:491 "Next request rebuilds cache" |
| `feed_cache_followers` | violation | README.md:490 "Invalidate affected user feed cache" |
| `sessions` | 4 calls of any kind, 2 users | tokens redeemed once, one session per login, logout and deletion |
| `rate_limiter` | 3 requests at a time, limits 6 and 4, window of 2 ticks | limit kept and shared, lock-outs explained, the window reopens |
| `gateway` | up to 4 requests in nine kinds of encounter (see below), 3 users, 4 old posts, 3 stamps, pages of 1 | answers tell effects; uploads leave nothing half; lists and scrolls miss nothing; a deleted account stays gone |

Why these bounds are enough to be interesting. An interaction needs two calls to
race and a third to undo, repeat or delete in between. A deadlock of follows needs
two calls, a ring that is not a pair three. Two updates and a deletion are what
can meet at one post's media in a way that pairs do not show; CreatePost is left
out of the run because CreateReply takes the same steps and one more. For the bus
one retry gives counts 0 and 1, so a copy is retried, fanned out to the other
service and exhausted, and one crash can fall before, between and after
publication and acknowledgement (`MaxRetries` is 3 in the code, which treats all counts below it
alike). In the cache one change
suffices for a stale page, and two pages for an invalidation that is half done. In
the limiter both limits and the saturation point are within reach and 3 requests
overlap with the end of a window. In the deployment the services that are left out
start like user-service or like the consumer; one outage can fall before, during
and after the start of each process.

The gateway's encounters are `MCOffered` of `MCGateway`: scrolling a home feed, three
pages of it alone and two against writers (`Scrolls`); `GetMe`, replies and follower lists against writers
(`Timelines`, `Threads`, `Followings`); an upload, its repetition, the post that uses
both and its deletion (`Uploads`); logins against the deletion of the account
(`Goodbyes`); profile updates (`Profiles`); toggles (`Doubles`); and every route by
itself with every flaw a request can have (`Alone`): over the limit, unreadable
body, empty path parameter, bad `limit`, missing file, invalid contents, wrong secret, a
blank field. `created_at` is any of three stamps, so that ties and clocks that
disagree are among the cases. A page of one row stands for pages of any size: the
code compares a count with the limit and nothing else. One user's tokens expire.

`mutants` of `PROJECT.json` shows for every
property a bug that these bounds find.

`CHECK_DEADLOCK FALSE` stands where calls or events are used up and the system
rests. Where all calls are there from the start (`Interactions`, `Follows`) and
where slots are used again (`RateLimiter`) deadlock is checked; in the former a
`Terminated` step marks the proper end.

### Disagreements with the documentation

Two are violation runs.

1. `NextRequestRebuilds`. `GetHomeFeed` misses, queries Postgres and writes the
   page with an unconditional SET. A change committed after the query can be
   published, handled and cleared before the SET; the outdated page is then back
   in the cache and the next request hits it, for up to 60 s. `StaleOnlyByRace`
   shows that this is the only way, `AnswersRecent` that the TTL bounds it.
2. `AffectedFeedsInvalidated`. `post.created` and `post.deleted` clear the
   author's own cache. The feeds the post appears in (or vanishes from) are
   those of the followers, which stay as they were until they expire.

Others showed up in the translation and are only recorded here; the model has what
the code does.

- `UpdatePost` of content-service returns its errors as they are
  (`grpc_server.go:275`), so that the gateway answers 500 where its own
  documentation (`content_handler.go:132-137`) has 400, 403 and 404: `RawRPCs` of
  `Routes`.
- `GetReplies`, `GetFollowers`, `GetFollowing` and the timeline take a cursor and
  ignore it: there is a first page only.
- An upload has 10 s, as long as the gateway's `WriteTimeout`: when the deadline
  passes the connection is cut without an answer (`Cut` of `Routes`).
- A `CreatePost` or `CreateReply` whose media are refused is answered 403 though
  the post is there: the exception in `AnswersTellEffects`.

### Fairness

- `Interactions`, `Follows`: strong fairness of each handler (`SF_vars(Handle(r))`).
  A goroutine is scheduled, and Postgres grants a lock to the waiters in order,
  so a statement that is enabled again and again is executed. No fairness of
  `Fail`: nothing promises an error. `Follows` has weak fairness of
  `BreakDeadlock`, which is Postgres' deadlock detector.
- `Deployment` (the only fairness about the bus): the goroutine of a service goes on; each
  copy reaches the head of its queue (strong fairness of `Deliver` per copy: the
  broker's queue is ordered); a publish that is retried for ever succeeds some
  time (strong fairness of `Settle`, while RabbitMQ is there); `main` goes on, a dead
  process is started again (`restart: unless-stopped` in `docker-compose.yml`), and a
  dead connection is noticed. There is none for `Die`, `PostgresChanges` or
  `BrokerReturns`: nothing makes a dependency come back, and a process that lives on
  without a consumer is revived by nobody. So `EveryEventSettles` assumes that the
  consumer stays up in the end, and `ComesBack` that Postgres does.
- `Gateway`, `FeedCache`, `Posts`, `Sessions`, `Notifications`: none; their
  properties are about what must not happen.
- `RateLimiter`: time passes, and a request's goroutine goes on.

## 4. Proofs

Eight modules hold the theorems: `InteractionsProofs`, `FollowsProofs`, `PostsProofs`,
`NotificationsProofs`, `DeliveryProofs` (the event bus, and the notifications on it),
`SessionsProofs`, `RedisProofs` and `GatewayProofs`. Each EXTENDS its module;
`RedisProofs` is about the two whose state is in Redis, `RateLimiter` and `FeedCache`, which
is why the names of the latter's specification have a prefix (`FeedSpec`).
Where the runs have three or four calls and a handful of rows, the theorems are
about any numbers, from these named assumptions:

- calls, and where rows are counted users, are finitely many (`FiniteAssumption`);
- data have the shape the code gives them: a post has an author and media an
  uploader (`AuthorAssumption`, `PostAssumption`), nobody follows himself in a row made
  before (`FollowAssumption`), events have an actor and a recipient
  (`InboxAssumption`), queues, finitely many, are bound to events (`BusAssumption`) and one of them is
  notification-service's (`DeliveryAssumption`), the services that consume and publish
  are among those deployed and the gateway lacks nothing of its environment
  (`DeploymentAssumption`), limits and window are above zero
  (`LimitsAssumption`, `WindowAssumption`), and so is the TTL of a page (`FeedAssumption`);
- of the gateway's requests, that one is on one post or one user
  (`OfferedAssumption`), and that a client asks for a page of its feed after the
  answers to what it asked before (`ScrollAssumption`); of its tables, that stamps are
  above zero (0 stands for "no cursor") and that the rows made before are finitely
  many (`BackendAssumption`). Which requests meet is otherwise open.

Every proof has the same plan. The property is not inductive, for it does not say
what a handler between two statements relies on. An invariant adds that, mostly
one conjunct per lock or per SELECT whose result is used later; it was checked by
TLC on the run of its module before it was proved. One lemma per action shows that
the action keeps it. Where a property speaks of sets of calls, lemmas about
their cardinality come first.

**Interactions.** When `Commit` adds to a counter, nothing in `CountersMatchRows` says
that the row is still absent, or that the post was not deleted since the UPDATE
matched. `IInv` adds what the locks guarantee:

- `Stages`: which kind of call is at which statement, and with which outcome;
- `EntryLocks`: no two open transactions have the same entry;
- `SeenEntry`: what `InsertRow` or `DeleteRow` saw of the entry is still so;
- `PostLocks`: no two transactions that matched a post are at `Commit` for it;
- `SeenPost`: `hit` still says whether the post is live.

From `InductiveInvariant` follow `TypeCorrect` (counters never fall below zero, so
the `counter > 0` guard is never needed by a transaction that commits),
`CountersCorrect`, `DeletedPostsFrozen` (an action property), and
`TransactionsAreAtomic`: `Commit` is `Add` or `Remove` of the store, `Erase` is
`Delete`, an early return is `Nothing` or `Refuse`, a failure `Abort`, and all
other steps stutter (`StoreStep`). `AnswersAlternate` and `EventsEarned` need `IInv`
and `Heard`, that only a call which changed something for somebody else has
published or is about to: `Account`.

**Follows.** `IInv` has the locks of `Interactions` on entries (`EntryLocks`) and on the
rows of both users (`RowLocks`), what was seen under them (`Seen`: the entry, and
which of the two are alive), the counters as cardinalities of rows (`Counted`), and
the difference of reported follows and unfollows as the row itself (`Explained`).
`CountersCorrect` and `ReportsCorrect` follow (the latter states `ChangesExplainFollows`,
which no run checks, since `OneStepEach` implies it). `OnlyRingsDeadlock` follows from `Stages`:
whoever others wait for while it waits itself has matched its first row and stands
at its second UPDATE, so each call of a deadlock wants the row that the next one
holds as its first. `FollowsAreAtomic` is the refinement of `FollowGraph`: `Commit` is
`Follow` or `Unfollow`, because under its locks the entry, and who is alive, are still
as the statements saw them; `Erase` is `Leave`, a failure or a cancelled deadlock
`Abort`, and locking an `UPDATE` stutters (`GraphStep`).

**Posts.** There is hardly a transaction here, so the invariant says of each call how
much of what it has read may be outdated. `AtStage`: from its check on, an UpdatePost
is its author's. `Holds` and `Locks`: what a transaction has detached or attached is
its user's, on its post or on none, and no one else holds it. `Raced`: who still
writes to a deleted post was past its check when the post was deleted. `Swept`
and `Replaces`: what a deletion or an update has not found was attached by a call
that the history variables name. `Counting`: `reply_count` lies between the replies
that are surely counted (`Sure`) and those that may be (`Maybe`); it is an interval
because the handler counts in a statement of its own. These give `MediaAreTheAuthors`,
`DeletedPostsAreSwept`, `ReplyCountsCorrect`, and the action properties
`MediaLeaveOnlyByUpdate` and `UpdatedMediaAsAsked`.

**Notifications.** An UPDATE that marks is many steps, and until it commits what it
has marked is unread for others. `Visits` says that a row found unread is still to
be visited, marked by it or read; `Locks` that two UPDATEs never mark the same row;
`Marked` that a read row has exactly one marker among the calls that have ended,
those that failed after their COMMIT included;
`Order` that what a call found is not found by those that began after it returned.
`OneMarkerEach`, `MarksAreComplete` and `ReadStaysRead` follow (`ReadForGood` needs no run:
`MarkedOnce` fails as soon as a marked row is unread again).

**Delivery.** `NoEventLost` does not survive the step from publication to `Ack`. `BusInv`
says that every copy was routed and that failures have earned its count (`Copies`,
`Failures`), and that what a queue is owed is settled, waiting or in hand, where
a delivery counts as in hand only as long as nothing has been published for it
(`Kept`). `NothingLost` and `DeadLettersAreEarned` follow. `DeliveryIsTheBus` is the
refinement of `EventBus` by the composition, so that both hold of it too. `NotifiedExactlyOnce`
adds `Stored`: the rows are injective, due and owed, and whatever the handler
answered with nil is among them.

`RetriesAreBounded` needs to count what copies may still become. A copy of count n
has `Futures`: for each retry left, the queue it may come back in, a function
from n + 1 .. MaxRetries to the queues of the event. `Fates` are all copies, those waiting, in
hand and dead, each with each of its futures. Publishing a retry removes one copy
and adds one to every queue of the event; the lemma `Exchange` maps the fates of the
new copies one to one to futures of the old, by putting the queue they came
to in front, so that their number does not grow (`FewerFutures`, `CountFatesNext`). What
does grow it is the first publication and a crash, which puts back a copy whose
retry is out: `Fit` says that the fates fit in the room of the first copies
(`Credit`, none before the publication) and of the crashes. So the sum over
queues of a power of their number, which would take an induction, becomes the
cardinality of a set.

`Deployment` has more steps, and its events are on the same bus. `DeployedStep` shows
that each leaves the bus alone, is a step of it, drops an event that was never published, or is
a consumer going deaf; all of these keep `BusInv`, so `DeploymentLosesNothing`. For
`DeployedDuplicatesBounded` an outage makes room for one more copy per queue, and the
invariant `PFit` saves that room for the consumers that still listen to the broker that
is gone (`Listening`), each of which goes deaf once.

**Sessions.** That tokens are redeemed once is an invariant of pairs of calls:
`Redemption` says of every refresh that has revoked its token, whether or not it has
issued the next one yet, that it is the only such call for that token. `OneHead` carries
`OneSessionPerLogin` across that gap: of a login there is one session that is not
revoked *or* one call on its way from the old to the new one. `LoggedOut` is that a
login whose logout was answered has no head, and `Outliving` that a call past its look
at the account outlives the account only if it was under way at the deletion.
`TokensRedeemedOnce`, `RotationKeepsOneSession`, `LogoutEndsTheLogin` and the action property
`DeletedUsersStayOut` follow.

**RateLimiter.** `IInv` adds that an EXPIRE that is owed is owed to a key that
exists and has no TTL (`OwedKeys`), that its debtor stands at a limiter
(`OwedAtALimiter`), and that the requests counted in are at most the count
(`CountedOnce`). `TypeCorrect`, `LimitIsKept` and `LockoutsAreLeaks` follow. `LimitIsDivided`
needs more, for a request on its way has used up a part of its share: `Used`
counts the limiters that each request has passed (`Passed`) together with those of
the requests that are through, and finds them within the counter.

**FeedCache.** `StaleOnlyByRace` is about answers, which come from pages, which come from
fills. `CacheInv` follows them back: a fill in flight that lacks a change which
is handled or being handled is excused by it (`Filling`), because the handler, when it
starts, excuses exactly those; a page in the cache lacks no other change that was
handled, nor, where the SCAN has been, the one under way (`Cleared`). A handling that fails
promises nothing, one that is repeated excuses nobody new. For `AnswersRecent`, the
age of a page and what is left of its TTL add up to at most TTL + MaxFill (`Fresh`).
`StaleByRaceOnly`, `AnswersAreRecent` and `CacheTypeCorrect` follow.

**Gateway.** There are several invariants; the later ones have the earlier as conjuncts.
For each there is a lemma per kind of statement; those about uploads, where most
statements change nothing, use two about any: a call that goes on (`GoesOn`) and
one that returns (`ComesBackWith`).

- *Uploads* (`MInv`). `ObjectsAccounted` does not say where an upload stands, so a row
  could appear without its file. `MInv` adds that only an upload is at the statements
  of one (`Placed`), that at the INSERT its file is in the bucket (`FileFirst`), that
  files come from uploads (`OfUploads`), that success, of the service or to the
  client, has its row (`Recorded`), and that a post shows what has a row (`Shown`).
  `UploadsAccounted` follows.
- *Who is where* (`PInv`): every call is at a statement of its own route (`OnPath`), so
  that what needs no token is never at a statement that writes. `DeletedStayGone` follows.
- *Answers* (`EInv`). `Effects` is what a statement may rely on: that an earlier one of
  the same call had its effect, and that the effect stands or another request has
  taken it back. `Outcome` says the same of what the service returns, `Answered` of
  the status, over `Routes`' tables of codes; `Lasting`, a lemma about every statement,
  that it does not take away what another call achieved except as `Undoes` allows.
  `AnswersAreTrue` follows.
- *Lists.* `BInv` says that rows keep their stamps and that what "stood all the
  while" is still visible. For `TimelinesNewest`, `Timely` says of each query what it leads
  (`Leads`): what stood is in the list, or the list is full of entries that do not
  give way to it. `NewestLead` shows it for a query, `MergedLead` that merging two such lists
  in memory keeps it. For `ScrollsExact`, `PageHolds` says that a page has what stood between
  its cursor and the next, but for ties with its last stamp; `Fetched`, that a page
  from the cache is that of the request which filled it; `Turns` and `Held`, that one page
  is under way at a time and is asked for with the screen's cursor; and
  `Scrolled`, that the pages on the screen are disjoint and cover what stood down to
  the cursor.
- *Types* (`KInv`). `TypeCorrect` says most about outcomes: `RoutesOwned` finds the service of
  each route in the tables of `Routes`, `ErrorsMapped` the errors its RPC maps, and
  `StepEnds` that no statement ends in another, so that no error of a service
  reaches the gateway without a code.

Only model-checked, everything else that the runs check being proved:

- the liveness properties, which rest on fairness and ENABLED: `EveryCallEnds` of
  `Interactions` and `Follows`, `WindowReopens`, and the two of `Deployment`,
  `EveryEventSettles` and `ComesBack`;
- the two disagreements with the documentation, which are violations.

## 5. Limits of the models

- The contents of posts, passwords, tokens and pages are not modelled; a
  refresh token is the session it belongs to.
- Postgres is modelled at READ COMMITTED as the code uses it: row locks, unique
  entries, re-evaluation after a wait. Serialization failures do not occur there.
- `media_ids` is a set; a request that names an id twice is not modelled
  (`AttachMediaToPost` answers it with `ErrForbidden`).
- In `Interactions` and `Follows` the answer to a COMMIT that is lost on the way
  back is treated as a lost event (`SkipPublish`, `Publish`), since the database has changed
  and the handler has not gone on; `outcome` there is what became of the call in the
  database. In `Posts` it is a failure to read back what was committed (`Fail`).
  `Notifications` has the two cases apart (`Reject`, `FinishUnheard`), and `Gateway` has the
  answer the client gets.
- The type invariants of `Interactions`, `Follows`, `Posts`, `Notifications`, `EventBus`,
  `Sessions`, `RateLimiter`, `FeedCache` and `Gateway` are proved (`TypeCorrect`,
  `CacheTypeCorrect`), so the runs spend their time on the other properties and do not
  list them.
- In `Gateway` every post is public, the counters, locks and events of a toggle, the
  sessions of a login, the counting of a reply and `media.status` are left to the
  modules about them, and the routes of notifications and `UpdatePost` have only
  their outcomes (`Elsewhere`). The health routes answer "ok" whenever the service
  can be reached, which is all they have in the model.
- The database's constraints are in the modules of the services that rely on them;
  the migration tool is run by hand. The seed program (`db/seed`) is a development
  tool, run by hand: one transaction of generated rows, whose numbers of likes and
  reposts are made up.
  It is not part of the running system and no service's promise is about it.
- Generated code (`proto`, swagger), logging and response envelopes are not modelled:
  they keep no state and decide nothing beyond the statuses of `Routes`.
- Redis is one server that does not lose keys; in `RateLimiter` and `FeedCache`
  every command may fail.
- RabbitMQ keeps what it has (durable queues, persistent messages); the order
  within a queue is left open, which only adds behaviours.

## 6. Plan

The models are done, in this order: the interactions with their abstract store and
proof; the event bus and the notifications on it; the feed cache; sessions;
follows; posts; the rate limiter; the gateway with the services behind it, uploads,
queries and pages; the inbox's lists; startup and deployment; the abstract follow
graph. Likes end to end over `Interactions`, `EventBus` and `Notifications` would add
a run and little that `NotificationDelivery` does not say.

The proofs followed in the order of what they say: the transactions and their
refinement; sessions; the bus and the notifications on it; follows;
posts; the answers and events of interactions; the shared limit; the gateway's
properties, uploads first and scrolling last; the feed cache; the bounds on copies,
for the bus and its deployment; the refinement of the follow graph; and the types of the gateway.

With that, every invariant, every action property and every refinement that the
passing runs check has its theorem. What is left to TLC is liveness.
