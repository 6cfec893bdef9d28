# Verification of the rental backend

TLA+ models, model-checking runs and machine-checked proofs for the backend in
`src/`: a NestJS service with Prisma/Postgres and Mongoose/MongoDB tables, Redis for
caches, presence, one-time codes and the token blacklist, BullMQ for jobs, Socket.IO
for delivery, Stripe and RevenueCat for payments. Several Node processes run the same
code against one Redis and one database. Every handler is a chain of awaits; between
two of them anything else may run, and the process may die.

## The system

| Part | State | Operations | What is hard |
|---|---|---|---|
| Socket presence (`socket.gateway.ts`, `socket-auth.service.ts`) | Redis: online set, user-to-socket and socket-to-user maps, status; in the process: sockets and personal rooms | connect, disconnect, cleanup interval | reconnects, disconnects during a handshake, a cleanup run that acts on old reads, crashes |
| Socket rooms and delivery (`socket-room.service.ts`) | Redis member sets, Socket.IO rooms | join, leave, emit | membership left behind by a disconnect |
| One-time codes (`otp.service.ts`) | one Redis key per address and purpose | create, verify, delete, expiry | read-modify-write over two calls |
| Refresh tokens (`auth.service.ts`) | signed tokens, blacklist keys | login, refresh, logout | lookup first, blacklist last; equal tokens within one second |
| Registration and password reset | user rows, codes, mail | register, forgot, verify, reset | a code consumed before what it pays for is written |
| Stripe webhook (`stripeWebhook.service.ts`) | event log rows | deliver, process, retry | at-least-once delivery, 200 before processing, crashes |
| Payment transactions | rows, read caches | create, find, update, delete, reports | stale caches |
| RevenueCat webhooks, subscriptions, plans | subscription rows, user type, Stripe products | trial, purchase, activate, cancel, events | order and repetition of events; two systems to keep in step |
| Connected accounts, customers | rows and Stripe objects | create, refresh, success | check-then-create |
| Notifications (`notification.service.ts`, worker) | rows, a cached unread counter | send, read, delete, count | the counter is changed next to the table, not with it |
| Chat | conversations, participants, messages, read cursors | create, send, edit, delete, mark read | duplicate conversations, cursors that go back |
| Queues | BullMQ jobs, three attempts | notification, participants, last message | a job that fails half way runs again |
| Rate limiting | a Redis sorted set per client and route | admit or refuse | refused requests count too |
| Users, devices, settings, attachments, generic CRUD | rows and caches | CRUD, listings page by page | cache-aside races, tables that change between two pages |
| Legacy Express example (`src/express-mongo-...`), imported by nothing of the service | presence keys, rooms of three kinds, an activity feed, a limiter and cached statistics in Redis; task rows | connect, join, leave, disconnect; create a task, ask for statistics | room removal in many calls while the user comes back; a limit that is counted before the create |

The parts meet in Redis and in the tables. The gateway's `emitToUser` and `isUserOnline`
are called by notifications and chat and go by the personal rooms, not by the presence
keys. The OTP service is called by registration and by the password reset. The webhook
service writes through the payment transaction service. Queue workers call the gateway.
What makes each correct is listed with the hazards in `PROJECT.json`.

## Modules

| Module | Models | Run | Proofs |
|---|---|---|---|
| `SocketPresence` | connection, disconnection, cleanup, crashes | `presence`, `replaced_socket` | `SocketPresenceProofs` |
| `RoomService` | the pairs of Redis sets behind rooms of three kinds | `presence` | `SocketPresenceProofs` |
| `PresenceQueries` | who of the related users is online; the system's numbers | `otp` | `SocketPresenceProofs` |
| `Rooms` | conversation and task rooms, in Socket.IO and in Redis | `messaging` | `MessagingProofs` |
| `Workers` | the job that tells the participants of a message; extends `Rooms` | `messaging` | `MessagingProofs` |
| `Conversations` | conversations and the rows of their participants | `messaging` | `MessagingProofs` |
| `Messages` | one conversation: messages, pages, the read position | `messaging`, `unread_page` | `MessagingProofs` |
| `NotificationUnread` | one user's notifications, the cached counter, `getOrSet` | `notification_unread` | `NotificationUnreadProofs` |
| `NotificationJobs` | the notification queue and worker, broadcasts | `notification_unread` | `NotificationUnreadProofs` |
| `AtLeastOnceJob` | what a queue promises (abstract) | `notification_unread` | `NotificationUnreadProofs` |
| `StripeWebhook` | deliveries, processing runs, retries, transactions | `stripe_webhook`, `double_transaction` | `StripeWebhookProofs` |
| `RevenueCatLog` | the RevenueCat webhook of the payment module and its log | `stripe_webhook` | `BillingProofs` |
| `Subscriptions` | one user's trials, purchases, status changes, RevenueCat events | `stripe_webhook` | `BillingProofs` |
| `Plans` | the plans of one type | `stripe_webhook` | `BillingProofs` |
| `StripeAccounts` | one user's connected accounts | `stripe_webhook` | `BillingProofs` |
| `EarningsWindows` | the earnings overview: its windows and sums | `stripe_webhook` | `BillingProofs` |
| `Otp` | one code key, overlapping verifications, expiry | `otp_renewed` and under `PasswordReset` | `OtpProofs` |
| `PasswordReset` | the endpoints that create and spend codes; extends `Otp` | `otp` | `OtpProofs` |
| `Registration` | register and login by a provider, for one address | `otp` | `OtpProofs` |
| `Devices` | the rows of one push token | `otp` | `OtpProofs` |
| `SettingsPages` | listings page by page, by cursor and by number | `otp` | `OtpProofs` |
| `ActivityFeed` | a group's activity feed (legacy example) | `otp` | `OtpProofs` |
| `RefreshTokens` | one user's refresh tokens and the blacklist | `refresh_tokens`, `same_second_refresh` | `RefreshTokensProofs` |
| `LegacySockets` | the socket server of the legacy example | `refresh_tokens` | `RefreshTokensProofs` |
| `LegacyTasks` | the task routes of the legacy example, with their limiter | `refresh_tokens` | `RefreshTokensProofs` |
| `RateLimit` | the sliding window of one client and route | `rate_limit` | `RateLimitProofs` |
| `CacheAside` | cached rows of users, profiles, settings, transactions | `rate_limit` | `RateLimitProofs` |
| `ServiceCaches` | which keys each write changes and deletes: the constants of `CacheAside` | `rate_limit` | |

The `MC...` modules extend the components and give their constants values. Several of
them check more than one component in a run. Such components share no variable, and each
moves only while the others are where they began: the run goes through every behaviour of
each and through no product of them. Components that do interact are composed for good:
`Workers` on `Rooms`, `PasswordReset` on `Otp`, `NotificationJobs` under
`AtLeastOnceJob`, the cached counter inside `NotificationUnread`.

Definitions named `Mut...` are variants of the one they stand before, each with a
plausible bug; `PROJECT.json` says which property refutes which.

In every module one action is the code between two awaits: one call of the database, of
Redis (a MULTI is one) or of Stripe. A call that rejects may have been applied; the
actions whose name ends in `Fails`, `Error` or `Rejects` offer what that comes to.

### SocketPresence

`handleConnection` is a program counter per socket (`connPc`), `handleDisconnect` another
(`discPc`), because the second runs while the first is still awaiting. `userSocket[u]` is
the `socketId` field of `chat:user_socket_map:u`, `online` the set `chat:online_users`,
`statusOnline` the `isOnline` field of the status hash, `socketUser` the reverse map,
`old` the users whose `connectedAt` lies before the threshold of the cleanup job. Each
process runs the cleanup loop: `todo` is the list it read, `seen` the socket it has judged
stale and not yet removed. `Crash` takes a process down with its sockets, handlers and
loop. `told[u]` is the last status sent to the relatives of `u`. The reconnection branch
of `handleUserConnection` removes the old reverse mapping and returns; as in the code, the
new socket is not registered.

What holds: a personal room holds exactly the joined sockets with a live transport, so
delivery survives wrong presence; a cleanup run never takes down a fresh registration of
the socket it judged; entries without a connected socket are reaped; and presence and
announcements are exact for a user whose sessions come one at a time, complete and
unharmed (`orderly`). The last is the strongest statement about the keys that the code
supports: overlapping sessions of one user, a handshake cut short, a rejected call, a
crash or a removal by the cleanup job each break it, and `orderly` is lowered exactly at
those steps.

### RoomService and PresenceQueries

`RoomService` is `SocketRoomService` by itself. `roomsOf` holds the pairs of the sets of
the users, `usersOf` those of the sets of the rooms; a join or a leave writes both in one
MULTI. `removeUserFromAllRooms` and its twins read the set of the user and, a call later,
take the user out of what they read and delete the whole set: `removals` are those
between the two. `missed` are the pairs that joined behind the back of one. What holds:
the two sides agree but for `missed`. Whether a user is in a conversation is asked of the
room, whether he is in a task or a group is asked of the user, so what is missed shows in
one place only. Joins and leaves come from the gateway; the three removals have no caller
in the service, nor has `addActivityToFeed`: they are modelled as operations these
services offer.

`PresenceQueries` has the two queries that read more than once. `getRelatedOnlineUsers`
reads the online users, the family, the asker's conversations and the people in them;
`getSystemStats` a number and a list. Meanwhile users come, go, join and leave
(`WorldMoves`). The history says who was online when the query began, who has shared a
conversation with the asker ever since (`kept`), who may have (`met`), and who came or
went (`churn`). What holds: the answer is between the two, and the number differs from
the list by the churn at most. The event of the gateway takes the user it asks about from
the payload.

### Rooms and Workers

A room is two things: `joined[s]`, the Socket.IO rooms of a socket, changed at once, and
`members`, the pair of Redis sets the MULTI of `joinRoom` and `leaveRoom` (and their task
twins) writes together, changed when the MULTI arrives. `pending[s]` is what the gateway
has sent for a socket; the order is kept for one socket and not between two.
`phase[s]` is how far `handleConnection` has come. It sets `client.data.userId` only after
`authenticateSocket` has answered, while the message handlers are subscribed before it
awaits anything: a join that comes earlier puts the socket into the Socket.IO room and the
user `undefined` into Redis (`UserId`, `NoUser`). Nothing takes him out but a leave
that comes as early. So `joined` keeps, with each room, the user it was joined for.
`Disconnect`, which also stands for a rejected authentication, leaves `members` alone, as
`handleDisconnect` never calls `removeUserFromAllRooms`. What holds: a socket in a room
finds among the members the user it joined for, once its calls have answered, unless the
last of them failed or another socket of that user left the room. That user is its own if
it was authenticated by then. The names of rooms come from the client: a `join` or `leave`
whose conversation is a user's id changes that user's personal room
(`socket.gateway.ts:184`, `:232`). That is not modelled, neither here nor in
`SocketPresence`, where a personal room is joined by its own sockets only.

`Workers` is the notify-participants job: `todo` are the participants left, `step` the
next call for the one in hand, `told` what reached whom. `IsUserOnline` and `EmitToUser`
go by connected sockets, `CheckRoom` by `members`. A stalled run starts over; the second
stall fails the job, as `maxStalledCount` is left at one. A finished job reached every
participant who stayed connected and whose calls did not fail. The processors are
registered by no module of the repository; the model is of what they do when run.

### Conversations and Messages

`live[c][p]` and `dead[c][p]` count the rows of a participant, `at` is the next call of a
request: looking for a direct conversation, creating one, looking for each participant and
adding him are calls of their own. The lookup counts rows whether they are deleted or
not, so a removed participant keeps the pair's conversation. While creations and additions
run alone and none fails, two people share at most one direct conversation; overlapping
ones create two (`neat` is lowered where they overlap).

In `Messages` a message is its number, `createdAt` a millisecond that several may share.
A page is read in one call and moves `readAt` in another (`marking`). The client's `walk`
uses the answers as the code gives them: after `reverse()` the `nextCursor` of a backward
page is its newest message, so that a client takes the oldest it was shown for the first
step only. What holds: a message of the other newer than everything shown is unread,
in any order of the overlapping updates; and a finished walk has shown every message,
except one that shares its millisecond with one shown, at a border between pages.
Not in the model because no state depends on it: `updateMessage` changes a text, and
`MessageService.sendMessage` never writes the conversation's last message (only
`ConversationService.sendMessage` does).

### NotificationUnread, NotificationJobs, AtLeastOnceJob

`sent`, `read` and `gone` are the rows of one receiver with `isRead` and `isDeleted`;
`cached` is `notification:unread:<user>`, `expiring` whether it has a time to live. Each
request changes the row in one call and the counter in the next two (INCR or DECR, then
EXPIRE), or deletes the key, or reads it through `getOrSet`: GET, count the rows, SET.
INCR on a missing key starts from zero. `exact` says that since the key was last gone in
a quiet state, requests ran alone, met a counter (or nothing else unread) and changed a
counted notification, and no call failed. While `exact`, the counter is the number of
unread rows whenever no request is under way; in every interleaving a counter without a
time to live is about to get one unless a call failed; so a wrong counter is gone or right
again in the end.

`NotificationJobs`: the id of a job is the receiver and the millisecond, so two notices of
one millisecond are one job (`merged`). A run creates the row, then emits; one that throws
is tried again up to `JobAttempts` times and may create a second row; a stalled run does
not count as an attempt, but the second one fails the job (`JobStalls`). The rows made by
the worker do not touch the unread counter. A broadcast sends to one receiver after the
other inside the request. `AtLeastOnceJob` is the promise: accepted jobs have their effect
any number of times, finished ones once at least, and a job is dropped only for another.
`JobsAtLeastOnce` says that the queue implements it, with `Promised` and `rowsOf` as the
refinement mapping.

### StripeWebhook, RevenueCatLog

A run is one call of `processEvent`, started by a delivery (the controller answers 200 in
the same step and does not wait) or by `retryFailedEvent` on a row that `getFailedEvents`
returned. Nothing in the source calls the retry; the model lets it happen whenever the
query would return the row. The row is a `status` and an `attempts` counter;
`updateProcessingStatus` swallows errors and counts each call. Transactions are indexed
by who created them, a run or an administrator (`Clerks`). The five handlers that only
write the status share the path `begin`, `complete`. What holds
(`RowTellsOutcome`): a row that says `completed` has its transaction; a row is left in
`pending` or `processing` only by a crash or a swallowed update (`hurt`); an event is
offered for a retry after its first run only, as two updates to a run exhaust three
attempts. And an acknowledged checkout is recorded
or marked failed in the end, unless hurt.

`RevenueCatLog`: `logRevenueCatEvent` stores the type of the event as its `event_id`, so
all events of one type share a row: `rowStatus` and `rowAttempts` are by type. Runs of one
type overwrite each other's status; still, the row does not stay in `pending` or
`processing` once the last of them has ended, unless a crash or a lost update struck it.

### Subscriptions, Plans, StripeAccounts, EarningsWindows

`Subscriptions`: `subs` are the rows of one user, `doing[q]` where a checkout, an
administrator's call or a webhook run stands. A trial checks `hasUsedFreeTrial` first and
sets it last, after the Stripe session; RevenueCat handlers and administrators load a row
in one call and save it in another. `save()` of Mongoose writes the fields that differ
from what was loaded (`loaded`, `Saved`): a second EXPIRATION whose document was already
expired writes nothing, and does not undo an administrator who came between its load and
its save; and an administrator whose status is the one he loaded writes nothing either.
What holds: trials one at a time give one trial session; a subscription reported expired
is never `isActive` again, and has a usable status only where an administrator wrote one
(`given`), because no handler writes a field back as it loaded it, and RENEWAL renews
dates and never resets a status. Read with it: the schema file of a user's subscription is
not in the repository, so its defaults are not known here; the handlers find the first row
of a `revenueCatUserId`; `startFreeTrial` takes the individual plan's `stripe_price_id`,
which plans of the RevenueCat channel do not have; `activateSubscription` has no caller;
and the webhook's import of `../../user.module/user/user.schema` names a file that does
not exist, so that this part is modelled as written and cannot be built as it stands.

`Plans`: `offered` are the active plans of a type, `found[q]` those a creation read and
deactivates one by one (`DeactivatePlan`) before it stores its own. Creations that overlap
deactivate each other's plans, never all of them. An update or a deletion loads a plan and
saves it in a later call, by the fields that changed (`held`): a plan that was active when
it was loaded is not made active again by an update that says so. `StripeAccounts`: an
account is created at Stripe, stored, completed and linked to the user in four calls; the
linked account has a completed row wherever a request stops. Two requests may create two
accounts.

`EarningsWindows` is `getEarningsOverview` on a calendar of days with a midnight and one
later moment; `MonthStart` gives the days the months begin with. `getStartOfWeek` moves
the Date it is given, so that what follows it in the function (`MovedNow`) computes from
the Sunday of the week; the quarter is passed as a year; the end of last month is the
midnight that begins its last day. `MonthOfTheSunday` says what the windows therefore
are, and `EachPaymentOnce` what that does to a payment: it is counted once in the two
weeks and once in the two months, except on the last day of the earlier month, where it is
in neither.

### Otp and PasswordReset

One key. A request reads it (`Get`), decides, and in a second call deletes the key or
writes back what it read with one more attempt and a full time to live. `serial` says that
since `createOtp` no request overlapped with another, with a creation or with the expiry
of the key. While `serial`: a code is accepted once and is gone; at most `MaxAttempts`
guesses are answered; and a code is gone after `(MaxAttempts + 1)` times the time to live.
Overlapping requests break all three: two can both be accepted, and a wrong guess can
bring a used code back.

`PasswordReset` puts the endpoints on top: `verify-otp` spends a code for nothing
(`isEmailVerified` is never set, and login never asks for it), `reset-password` spends it,
hashes, and writes the password in a later call that may fail (`WriteFails`). A code pays
for at most one change of the password. `ResetKeepsOtp` proves that every behaviour of it
is one of `Otp`, so that what is proved of codes holds under it.

### Registration and Devices

`stage[c]` is where a call of `register` or `oauthLogin` stands; the unique index on the
address decides who inserts. A soft-deleted row still holds its address. A call that fails
after the insert leaves an account without a mailed code, and no endpoint sends another.
What holds: who is told he is registered has the account under his own password and his
code is mailed; the stored code is never that of a call that lost.

`Devices` has the rows of one token: a registration looks for a live row and then updates
it or creates one, a removal by id looks and then marks, a removal by token is one
statement. What the last call said holds if no other overlapped it; two registrations that
overlap leave two rows.

### SettingsPages

A client walks a table that changes meanwhile. `askWith` is the cursor or page number it
sends next, `given` what it has been given, `seated` the rows that were there all along.
By number, the rows and the total are two reads in parallel (`halves`); by cursor, one row
more than the limit is read and named as `nextCursor`, and the next page begins after it.
So a client that follows `nextCursor` misses one row at every border; one that uses the
last id of the page misses none. The upsert's `create` leaves `introductionVideo` out,
which no property is about.

### RefreshTokens

A refresh token is a JWT over the user and the second of signing, so the second stands
for the token. `until[t]` is when its blacklist entry runs out. A refresh looks the
blacklist up, verifies, loads the user, signs, and blacklists last. `DeleteUser` sets
`isDeleted`, which login and refresh read; no endpoint of the repository sets it. What
holds: a revoked token is refused until it has expired, also when it was revoked late in
its life; a refresh that begins after the revocation of its token or the deletion of its
user gets no tokens. Two refreshes that overlap can both succeed with one token; no
property claims otherwise.

### RateLimit and CacheAside

A request reads the clock in its process (`ReadClock`), which becomes its score, and in
one MULTI removes what left the window, adds itself, renews the key and counts (`Exec`).
`log` is the sorted set, `expires` the expiry of the key. Transactions of different
processes reach Redis up to `Delay` later, in any order; a failing one lets its request
through, counted or not. Options and identity are fixed: one key. No window, wherever it
is laid, has more than `Max` admitted requests, if it is taken shorter by the delay of the
transactions; and a request is refused only because of `Max` others within a window of it,
though refused requests count as well: a client that pauses for a window is admitted.

In `CacheAside` `row[k]` is the version of the row (or query) behind a key and
`cache[k]` what the key holds. A write changes the rows of `Changes[w]`, then sends the
deletions of `Deletes[w]`; a read that misses fetches, then stores. The eleven queries of
the earnings overview are answered at different moments: `Fetch` stands for the first to
be answered; what the others find is no older. `ServiceCaches` names
the cached reads of users, profiles, settings and transactions, and for each of their
eight writes the keys it changes and the DELs it sends, one after the other or at once:
`updateProfile` changes the profile and deletes `user:{id}` and `user:stats:{id}`, but
not `user:profile:{id}`. What holds: the cache has the row unless a write is about to
delete the key, or the key was left behind (`disturbed`), by a write that does not delete
it, a failed deletion, or a read overtaken between fetch and store.

### LegacySockets, LegacyTasks and ActivityFeed

The socket server of the Express example. `hand[s]` and `bye[s]` are its connection and
disconnection handlers; the second is attached when the first is through. It reads the
rooms of the user and removes them one kind after the other (`listed`), then the presence
keys. The reconnection branch registers nothing for the new socket, as in the service. A
process may die with its sockets. What holds: a user who is gone left nothing behind
unless a session was cut short or joined a room while another was removing them; and while
sessions come one at a time, Redis knows exactly the connected socket and its rooms. Read
with it, without a property: `startCleanupJob` is never called; `send-new-message` tells a
non-participant off and creates the message all the same; `emitToUser` calls a function
the file does not import; `checkSecondaryUserPermission` lets every child pass;
`TaskService.invalidateCache` has no caller; and routes documented with 20 requests an
hour and with 100 a minute have one limiter of 30 a minute.

`LegacyTasks`: the task routes share one key of the limiter, whose MULTI removes, adds,
counts and sets the expiry with EXPIREAT, in whole seconds (`Ceil`); a limiter that
rejects lets the request through. A creation then looks the user up, counts his tasks of
the day and creates, in three calls; the statistics are read through a cache that no write
invalidates. What holds: the routes together keep to the limiter's window as long as its
calls are answered in the order of their clocks; a personal task is beyond the daily limit
only if another was created after it was counted for (two that overlap are both created);
and statistics, which count the tasks a user owns or is assigned to (`TasksWith`), miss
none older than their time to live.

`ActivityFeed`: push, trim and expiry are three calls; adders mix. The list is always the
newest activities, newest first, and no fewer than it is to keep.

## Runs and bounds

| Run | Instance | Why it is enough |
|---|---|---|
| `presence` | one user, two sockets on two processes, one fault; two users in rooms of three kinds, two removals from all rooms | keys, rooms and announcements of different users share nothing but the online set; a second socket is the reconnect, a second process the concurrent cleanup and the survivor of a crash; a removal is overtaken by a join of a user the room is told about |
| `messaging` | two sockets of one user, two and one MULTIs on their way, a conversation and a task room, one job for two participants, one fault; three people, two requests, two conversations, two calls; three messages in three milliseconds, pages of one, two reads and one send at once | a join and a leave of one socket can overtake those of the other; a join before the authentication and a leave after it; a stalled job repeats, and fails the second time; two creations for one pair, and a group beside it; a message between two reads, a shared millisecond, three pages |
| `notification_unread` | two notifications, two requests, one repeat, one fault; two notices of one receiver in two milliseconds, three attempts; a broadcast to three, sent twice | a counter off by one in both directions, a fill that overtakes a change, a counter made by INCR; a merged job, all attempts used, a job stalled once and one stalled twice |
| `stripe_webhook` | a checkout, a status-only and an unhandled event, three runs, one clerk, two faults; three RevenueCat deliveries over three types; two requests to two subscriptions, three plans and two accounts; the moments of three months after two, and a payment at each moment before | two runs overlap and a third retries; a fault may hit the create and another the status; three deliveries of one type share its row; the months begin on different weekdays |
| `otp` | two codes, two requests, three attempts, lives of two ticks; three registrations and two logins; three adders to a feed of two, five pushes; three rows and two calls of one token; five places, pages of two; a query for three users, one of them family, in two conversations, with two moves | a request with a stale read beside one that changes the key; the key can run out between them; every race for an insert has a third that sees its result; a page border with rows deleted on both sides; a user who changes from one conversation to the other along with the asker |
| `refresh_tokens` | two requests, a life of two ticks, three ticks, one fault; two sockets of one user, two processes, a room of each kind, two losses; three task requests, one in two ticks, two ticks, one rejection | a token can be revoked at birth, revoked late, expire, and be equal to its successor; a session on another process, or on the same, follows or overlaps one that is ending; a full window, two creations counted before either is done, statistics that outlive a creation |
| `rate_limit` | five requests, two admitted in three ticks, one tick of delay, seven ticks, one fault; the cached rows of one service at a time, its writes, two requests, two versions | a full window, a refusal in it, the key running out and a second window; late transactions change places; a read overtaken by a write |

Every `Max...` constant marked "bound" in its module, and the sets of requests, calls,
rows and deliveries, bound the instance and not the code, which repeats without end.
`MaxAttempts` is five in the code and three in the run: the properties speak of it as a
parameter and the theorems hold for any. `GivenStatuses` is one of the nine statuses an
administrator can give, the one that matters to the property; `CancelSubscription` is
another writer. The history counters of `Otp` and `PasswordReset` are capped where no
property tells further values apart. In `stripe_webhook` subscriptions are loaded for a
save while the trials are orderly and there is a customer (`RowsLoadedInTurn`), for a save
depends on neither; in `messaging` sockets enter one room at a time (`OneRoom`), for rooms
do not touch each other. `CHECK_DEADLOCK FALSE` is set where runs, requests or rows are
used up and the instance really stops; in `presence` it is not, and nothing there can
block.

Five runs expect a violation and record where the code and its documentation part:

- `replaced_socket`: the comment "Return old socket ID so caller can disconnect it"
  (`socket-auth.service.ts:108`); the gateway drops the value (`socket.gateway.ts:95`).
- `double_transaction`: "Idempotent webhook handlers" (`README.md:26`); the lookup is by
  `revenueCatOrderId`, the record carries `transactionId`.
- `otp_renewed`: "valid for 10 minutes" (`email.service.ts:188`); a wrong guess renews it.
- `same_second_refresh`: "New access token and refresh token" (`auth.controller.ts:131`);
  within one second the new token is the old one, and is blacklisted.
- `unread_page`: "Mark messages as read" (`message.service.ts:125`); of a page in
  descending order the oldest message becomes the read position.

Passing runs show, by what their properties have to except or say:

- `RowTellsOutcome`: "Retry up to 3 times" (`stripeWebhook.service.ts:344`) comes to one
  retry.
- `MonthOfTheSunday`: "this month" begins a month early in the first week of most months,
  and "this quarter" counts from the years 1900 to 1909
  (`paymentTransaction.service.ts:480`, `:315`).
- `CacheIsCurrent`: `updateProfile` leaves the cached profile (`user.service.ts:103`).
- `StatisticsRecent`: a creation does not clear the cached statistics; the call that would
  (`invalidateCache`, legacy `task.service.ts:98`; "Automatic cache invalidation on
  writes", `:32`) has no caller.
- `TasksInBounds`: the "20 requests per hour" of the route that creates (legacy
  `task.route.ts:47`), and the "100 requests per minute" of those that list tasks and
  count them (`:66`, `:86`), are the thirty a minute that all routes of its preset share
  (`:23`).
- `PagesComplete`: the cursor a page names is not the one its documentation describes
  (`settings.service.ts:143`, `paginate.ts:82`).

## Fairness

`SocketPresence`: weak fairness of the handlers of each socket (a promise chain whose call
has answered is resumed), of each cleanup loop (`setInterval` runs for the life of the
process, which is restarted after a crash), and of ageing (time passes). Clients promise
nothing. `StripeWebhook`: weak fairness of the runs; none of deliveries or retries.
`NotificationUnread`: weak fairness of the calls that follow in a request, and of the
expiry of a key that has a time to live (`RunOut`); requests need not come.
`NotificationJobs` (`JobsFairness`): weak fairness of the steps of the worker, which polls
as long as the process lives and is restarted by a stalled-job check; calls may reject
every time, and what ends the job then is the number of attempts. The other modules state
safety only.

## Proofs

Every invariant and action property that a passing run checks is also a theorem, which
holds for all values of the constants allowed by the named `ASSUME` of its component
(finite or distinct constants, positive lives); TLC evaluates the assumptions in the
passing runs. The type invariants, and the agreement of the presence keys, are theorems
only; the runs check the properties that say more.

Presence and rooms (`SocketPresenceProofs`, `MessagingProofs`):

- `TypeCorrect` in six modules: the type invariant is inductive. In `Otp` it carries the
  bound on attempts (only a value read below the limit is counted up), so its invariant
  adds what a request at each point has read. The other modules carry their types inside
  the invariants below.
- `KeysAlwaysAgree`: any step changes the presence keys by nothing, one add or one remove
  (lemma `RegistrationStep`), and each of these keeps them in agreement.
- `RoomAlwaysReaches`: inductive next to the type invariant. `CleanupAlwaysStands` needs
  `RegisteredOnce`, that a registered or judged socket is past its registration.
- `OrderlyAlwaysExact`: needs `OrderlyInv`, the shape of an orderly user's sessions: at
  most one socket engaged, each at a point of one session, registration and announcement
  exactly in their stretches of it. A step of a socket is framed first (it touches only
  its own user), then shown to keep the shape.
- `SetsAlwaysAgree`: `RoomServiceInv` adds to the property that a room which a removal
  under way has not read, and which its user has joined, is already counted as missed.
- `RelatedAlwaysListed`: `RelatedInv` says that from its first read on the history of a
  query covers the rows as they are, and that the conversations read lie between those
  kept and those crossed. `StatsInv` keeps a set with the number that was read, which
  differs from the users online by the churn; `DifferByFew` turns that into numbers.
- `JoinedAreMembers`: strengthened by what the last pending MULTI of a socket about a user
  and a room says, for each user the socket joined the room for. `ParticipantsAreTold`:
  `WorkersInv` keeps whoever is offline in `away` while the job runs, and has everyone
  outside it still to come, in hand or told.
- `DirectIsUnique`: `NeatInv` ties each direct conversation to the two people entered in
  it or to the one request that is still entering them (`Entering`, `Entered`, `Between`).
- `NewIsUnread`, `WalksAreComplete`: `MessagesInv` is the conjunction of `TextInv` (no
  message is from the future), `ReadInv` (the read position is no later than what was
  shown, and one about to be written is a moment of its page) and `WalkInv` (what lies on
  the walked side of the cursor was shown).

Jobs and notifications (`NotificationUnreadProofs`):

- `JobAlwaysSaved`, `QueueIsAtLeastOnce`: each step of the queue and its worker is a step
  of `AtLeastOnceJob` or a stutter under the mapping. `BroadcastInOrder`: while a
  broadcast is at receiver `k`, those before it are one ahead of those after it.
- `NeverLasting` is inductive next to the type invariant. `AlwaysExactInOrder` needs
  `ExactInv`: while `exact` at most one request is under way, and where it stands says by
  how much the counter is behind the table.

Payments (`StripeWebhookProofs`, `BillingProofs`):

- `RowAlwaysTells` (from `CompletedAlwaysRecorded`, `SettledAlways` and
  `RetryAlwaysAfterFirst`): invariants that tie the program counter of each run to the
  row; the last counts the updates of finished runs (two each) against `attempts` and uses
  finite-set cardinality.
- `SharedRowsSettle`, `PlansStayOffered`, `AccountLinkedIsCompleted`, `TrialOnce`,
  `ExpiredIsFinal`: `LinkedIsCompleted` and `SerialTrialOnce` need to be
  told what is true at each call of a request (`InHand`, `CallsFit`, `TrialsInTurn`).
  `ExpiredIsFinal` needs what is known of a document that was loaded and not yet saved
  (`LoadedFit`): where it has lost access the row has, and where it is expired and the row
  usable again, an administrator came in between. The other
  two are inductive next to the type invariant.
- `MonthAlwaysOfTheSunday`, `EachPaymentAlwaysOnce`: about the function of the calendar,
  so no induction over steps. `MonthsInOrder` and `EveryDayHasMonth` say that each day is
  in one month, by the least number that would contradict it; `WeekMoves` and `MovedMonth`
  compute the moved date and the month it is in; `Windows` puts every window in terms of
  the Sunday, and `CountsOne` is what one payment adds to a sum.

Accounts (`OtpProofs`, `RefreshTokensProofs`):

- `SerialSafe` (from `SerialUsedOnce`, `SerialLimited`, `SerialBounded`): while `serial`
  holds, what the one active request has read is what the key holds. `ResetKeepsOtp`
  carries it to `PasswordReset`; `OneChangePerCode` counts the resets under way against
  the codes accepted.
- `RegisteredAlwaysOwns`: `RegistrationInv` says of each stage of a call whether it has
  the account, and that one who has it is past the point where he could be refused.
- `LastWordAlwaysHolds`: a call that no other overlapped is alone, and what it found still
  holds when it writes (`DeviceCallsInv`); while calls are neat none was overlapped.
- `PagesAlwaysComplete`: `WalkShape`, and for each way to walk what has been given.
  By cursor, every row that is not ahead of the cursor was given, or named as a cursor
  (`ByCursorInv`). By number, the rows with fewer rows before them than have been read
  were given (`ByNumberInv`): rows that are added before them push them on, to pages that
  are still to come. That a page is full or the last is counted with `Cardinality`
  (`PageHasRow`, `FirstsAreEnough`).
- `RevokedNeverRevives` (from `RevokedForever` and `LateAlwaysRefused`): an entry set at
  `now` outlives a token signed no later, from `BlacklistTtl >= Life`.

Caches and limits (`RateLimitProofs`):

- `NeverBurst`, `RefusalsJustified`: both rest on `Retained`: a counted request stays in the
  set until its window is over, and a request is under way for `Delay` at most. So the
  last admitted request of a window has counted all the others; the rest is cardinality.
- `CacheStaysCurrent`: of a key that is not left behind no read is about to store an old
  version. It holds for any writes; `ServiceCaches` are those of the services.

Legacy example (`RefreshTokensProofs`, `OtpProofs`):

- `QuietAlwaysGone`: the property speaks of users without a connection; the invariant
  `Cleared` speaks of all: whatever Redis has of a user, a handler of one of his sessions
  is still going to remove (`KeysDue`, `RoomDue`), and what a handler is about to remove is
  all there is of its kind. It fails for the users in `cut` and `slipped`, and for no
  other. `ClearedFrame` and `OthersUntouched` leave only the user of the session that
  moves.
- `OrderlyAlwaysExact`: `Orderly` adds that at most one session is not over, that Redis
  names it from its registration on, and that a session begins with an empty Redis. The
  last is `Cleared` once more, with no session left that has anything to do
  (`NothingDueNothingKept`).
- `StatisticsAlwaysRecent`: `StatisticsInv` follows a count from the aggregation through
  the cache to the answers: it misses nothing older than its own time, and a copy is never
  younger than its end less the time to live.
- `TasksAlwaysInBounds`: `DailyInv` is about creations that have been let through and are
  not done. `LimiterInv` is what makes the shared key safe although a refused request may
  run ahead of others and purge the set: while the window of an admitted request that was
  purged is not over, the set holds `Max` others, which have newcomers refused.
- `FeedAlwaysNewest`: the list is a stretch of the numbers of the pushes, at least as long
  as the feed is to be (`FeedInv`).

Least and greatest elements, and what would be an induction over numbers, come from the
well-foundedness of the order of the naturals (`LeastOf`, `LeastNumber`), since the
library's induction theorems cannot be instantiated.

Model-checked only: the liveness properties `GhostsReaped`, `AckedIsSettled`,
`DriftHeals` and `JobsFinish` (liveness under fairness is outside what the prover
handles), and the five refuted properties of the violation runs.

## Not modelled

- `AttachmentService` hands a Mongoose model to `GenericService`, which calls the methods
  of a Prisma delegate: every call throws before it changes anything.
- Payment strategies: the module registers none, so `processPayment` always answers
  "Unknown purchase type". The gateway's calls to Stripe keep no state of their own.
- `OAuthAccountService` and `MessageReadStatusService` have no caller; the first also uses
  a client property that Prisma does not generate.
- `src/src/core/queue` is an older copy of the processors. The worker for a conversation's
  last message only logs. The push switch of a device is one statement by id.
- Of the legacy example: the messages of its chat, its pagination examples,
  `getRateLimitStatus` and `createCustomRateLimiter`, and the middleware that is on no
  route (`verifyTaskAccess`, `verifyTaskOwnership`, `validateStatusTransition`).
- Wallet has tables and no code.
- Signature checks, mail, identity providers, uploads, guards, filters and response
  formatting are I/O, library calls or stateless.

The models of refresh tokens, rate limiting and the unread counter assume a Redis client;
with none, the code skips blacklist, limit and counter. `Rooms` follows conversation and
task rooms through the sockets; group and family rooms are in `RoomService`.

## Plan

What is left, most useful first:

1. Theorems beyond the properties of the runs: of the four liveness properties, the safety
   half of their argument, that no state is reached in which the step that helps is shut
   off for good.
2. The legacy example's chat messages and pagination.
3. The listings of payments and notifications, whose filters only read.
