# Chirpy in TLA+

Chirpy is a chat backend in Go.  Postgres is the source of truth, Redis holds
caches, revocations, rate limits and a work queue, and one server process keeps
the websockets (the hub), the calls in progress and a few tables in memory.
Most of what is hard in it happens between two statements of two goroutines:
every HTTP request, every websocket, every timer and every hook of the hub runs
on a goroutine of its own, and locks are held for short sections only.

The modules here model those parts statement by statement.  TLC checks them on
small instances.  TLAPS proves every safety property of the passing runs, for
instances of any size; only liveness is left to TLC alone.  `PROJECT.json` lists
the components, the runs, the lines of source behind each definition, the
hazards and the theorems.

To run one: `tlc -config MCCallsLog.cfg MCCalls`; `tlapm CallsProofs.tla`.

## Inventory

Paths are under `src/internal/`.

| Component | State | Operations | What is hard | What makes it correct |
|---|---|---|---|---|
| `platform/redisx` versioned cache | a value and a version counter per id, in Redis | Get, Version, Put, Invalidate, Load | a slow read against a write; lost invalidations; a counter that expires | no value older than an invalidated write; reads after a write see it |
| `calls` | `Manager.calls`, `byUser`, timers; table `calls` | start, accept, signal, end, Connected, Disconnected, EndBetween, recovery at start | rows written outside the mutex; fired timers; sockets that drop and come back; restarts | one call per person; a log that tells the truth; every call ends |
| `groups` | `chat_groups`, `member_table`, a snapshot cache | create, join, invite, add, leave, remove, roles, hand over, delete | the member counter and the single admin under concurrency | one admin, a true counter, a full group stays full |
| `auth` account deletion | rows of all tables | `DeleteUser` in one transaction | READ COMMITTED reads before row locks | groups led by the user go to the next in line |
| `ws` hub and pumps | `clients`, a Send channel and two goroutines per connection | Register, Unregister, send, Disconnect, evict | closing a channel twice or writing to a closed one; slow readers; hooks | no panic; hooks match the map; connections end |
| `platform/queue` | a Redis stream, a sorted set of retries, a dead list | Publish, read, process, retry, reclaim | crashes between handler and acknowledgement; slow workers | nothing is lost; attempts are counted; every job ends |
| `auth` sessions, `platform/revoke`, `ws/ticket.go` | refresh tokens, `auth:revoked:{user}`, a local cache, used tickets | login, refresh, logout, sign out everywhere, Authenticate, tickets | requests that cross a sign-out; expiry of the revocation; stale local answers | nothing of an ended session is left or comes back |
| `chat` | messages, reactions, read markers, the de-duplication table | send, edit, delete, react, mark seen, forward, pages of history, conversations | retries of a send; partial failure with media; deletions and suspensions that cross | a retried send makes one message; what is deleted or hidden stays so; markers do not go back |
| `presence` | pending announcements | the hub's hook, the list of friends, privacy | hooks out of order; the grace timer | friends end up with the true state |
| `push` | `user_devices`, jobs in the queue | Notify, Handle, register, forget | who is online when the job runs | no phone of an ended session is notified |
| `media` | table `media`, objects in R2 | upload, attach, copy, download, expire, cleanup | two stores without a transaction | no attached file is deleted early; no object is forgotten |
| `friends` | requests, friendships, blocks; versioned cache | send, accept, deny, cancel, end, block, unblock, list | checks before inserts; the cache | no request across a block; a cache that is true |
| `auth` accounts and codes | `email_codes`, unverified accounts, identities | register, verify, reset, change address, admin sign-in, Google | codes are read, compared and counted in several statements | a verified address is proven; a code works once, for so many guesses |
| `users` | profiles, avatars, a cache of names | register, update, change password | the password changes, the sign-out fails | unique names (a constraint) |
| `admin` | bans, admin log | ban, unban, dismiss reports | bans leave groups without their lock | a ban ends sessions, leaves groups and hides messages |
| `platform/ratelimit` | two counters per caller | Allow | fractions at the edge of a window | never far above the limit |
| `platform/httpx`, `secure`, `reqctx`, `mail`, `telemetry`, `migrate`; `config`, `catalog`, `search`, `discover`, `reports` | none, or rows read only | middleware, cryptography, I/O | - | - |
| `app`, `cmd/*`, `database`, `website`, `monitoring` | wiring, generated code, static files | - | - | - |

How they interact: handlers call services; a service writes to Postgres, then
invalidates a cache, then sends events through the hub, then publishes a job.
The hub calls back into `presence` (a user's first or last device) and `calls`
(each connection) on new goroutines.  `sessionEnder` in `app` ties refresh
tokens, revocations, the hub and devices together, and is called from `auth`,
`users` and `admin`.  `friends` and `groups` share the versioned cache; `chat`, `calls` and
`presence` decide by what it holds.

## Modules

### VersionedCache, FreshReads (`platform/redisx/versioned.go`)

One id.  A payload is the revision it was read at.  Writers `Commit` and then
`Invalidate` (or lose it: Redis is down, or the server is killed); readers go
through `Load`: Get, Version, the load, Put.  `ExpireValue` is the TTL,
`ResetVersion` a counter that expired or was flushed.  A Put compares the
version and sets the value under WATCH, so it is one step that fails if the
counter moved.  FreshReads is the promise with no cache in it: a read returns a
committed revision no older than the last write acknowledged before it began.
`floor` and `acked` are history variables for that promise; `Promise` is the
refinement mapping (`busy` is the set of readers inside Load).

### Calls (`calls/calls.go`, `sql/queries/calls.sql`)

`phase`, `caller`, `callee`, `dev`, `timer`, `lost`, `grace`, `signals` are the
fields of a `call`; `byUser` is the Manager's map; `log` is the table.  `tasks`
is the set of goroutines inside the Manager, each with its next step and its
local variables, so that whatever the code does outside `mu` (friend check,
InsertCall, AnswerCall, FinishCall, sending events) is a step of its own and
interleaves with everything else.  `FireTimer` and `FireGrace` are timers that
have fired and whose function waits for `mu`; a timer that is stopped too late
still runs.  `Restart` loses memory and runs the recovery.  `May` selects which
troubles an instance has: failing statements, the daily allowance, the limit of
calls per minute; `Breakups` the friendships that may end.  Events go to all
devices of a user, and one whose buffer is full is removed by the hub
(`HubRemove`); only "answered elsewhere" is sent by WriteToUserExcept, which skips
such a device and keeps it connected: `Slow` names those it may happen to.

### Groups (`groups/repo.go`, `groups/service.go`, `auth/account_repo.go`, `admin/admin.go`)

One group.  An operation that locks the group's row first is one step, because
nothing else can touch the group until it commits.  `DeleteUser` is not: it
reads which groups the user is in and leads, then locks, picks an heir,
promotes, deletes and recounts, one step per statement at READ COMMITTED, with
`snap` the count that the recount's subquery saw before it waited for the row.
A suspension (`leaveGroups`) does the same: the memberships are read before its
transaction, and the transaction reaches the group's row only with its last
statement.  So it is modelled in steps too, whose writes nobody else sees before
the commit.  `crossed` records what changed while such a removal was open; the
invariants hold unless the admin, or the members, changed in that window.  Not
distinguished: an operation that waits for a row which a deletion that does not
list the group is about to delete.

### Hub (`ws/hub.go`, `ws/client.go`)

`clients` is the map; `sock`, `reader`, `writer` are a connection's socket and
pumps; `waiting` its Send channel; `closes` how often that was closed.  `slow`
holds the connections that a sender found full under the read lock and removes
after releasing it.  The socket may break and the peer may close at any time,
and Disconnect drops all of a user's connections at once.  `told` and
`goodbyes` count the hooks.

### Queue, Markers (`platform/queue/redis.go`; `chat/service.go`, MarkSeen, HandleSeen)

The stream with its consumer group, the sorted set of retries, the dead list
and the deliveries that are being worked on.  Equal payloads with equal
attempts are one member of the sorted set, so an entry carries the set of jobs
it stands for.  Backoffs, idle times and timeouts are nondeterministic: a retry
may be due at any time and an entry may be reclaimed while its worker is slow.
Adding to the stream may trim its oldest entry, and `trimmed` notes whose it was.
The dead list is added to with a MAXLEN too, which never trims it here: "dead" means
that the job was put on that list, not that it stays there.

Markers extends Queue by what the read receipts of a private chat do when they
run: the handler's upsert keeps the newer message, and may have been committed
although the handler reports a failure.  It is the queue's composition with a
consumer, and the instance that TLC checks.

### Sessions (`auth/auth_service.go`, `platform/revoke`, `ws/ticket.go`, `app/cleanup.go`, `app/wsauth.go`, the two Authenticate middlewares)

One account on one server.  A request is a record with its next step; each
database statement, Redis command and section under a lock is a step.  The clock
ticks in milliseconds; lifetimes are scaled down but keep their order (a ticket
lives shorter than an access token, that shorter than an admin-page token; the
local answer is the shortest).  Requests and what they leave behind carry two
history fields: `gen`, the number of sign-outs begun before the session was, and
`unsure`, for requests about which the code promises nothing (they ran while a
sign-out did, Redis failed open, the token expired between its check and its
admission, or they were decided on the local answer that such a request left).
The properties speak of all the others.  An address change signs out and then
issues tokens for the device that asked; a suspension is stored and signs out.

Left out: how credentials are checked, the expiry of refresh tokens after thirty
days, a restart (it forgets redeemed tickets, as the code says), the revocation
of a deleted account, and the command line's sign-out, which only writes to the
database.

### Friends, Messages (`friends`, `chat/service.go`, `chat/repo.go`, `search`, the bans of `admin`)

Friends has the tables `user_relationships` and `user_blocks` and the cached
snapshot of each user; every statement and every use of the cache is a step of
a request in a slot of `req`.  The cache is used by what FreshReads promises of
it: a read gives what is cached or, on a miss, at the end of the TTL and when
Redis cannot be read, what the tables say, which is then cached if Redis can be
written (`Load`).  Any request may stop at any step: a statement failed, its
answer was lost, or the server was killed (`Fails`).  An invalidation that fails
is only logged and the client is answered as if nothing had happened
(`InvalidateFails`); a change of name that cannot read who knows the user drops
only its own snapshot (`ForgetSelf`).  `stale` holds the users whose snapshot was
left behind in one of these ways, until it is gone.  `crossed` notes requests that
were inserted across a block; `over` gives for each slot the pairs whose
friendship had been answered as ended, with both snapshots dropped, before its
request began: a friendship whose invalidation failed is not among them.

Messages extends Friends: it adds the rows of a private chat and of one group,
and the requests of `chat` and `search` on them, which authorize by the cached
friendships.  Edits and deletions are statements with a WHERE of their own;
reactions are not, so a deletion puts into `late` whose request to react has
found the message and is past the check by then (`Reacting`).
Reading a page takes several steps (the rows, the reactions, the cached list of
suspended accounts); a client pages back to the start with the id and the time
of the oldest message as its cursor.  `over`, `gone` and `hushed` say for each
slot which ends (of friendships, messages, suspended accounts) were answered
before its request began and have not been undone since: the properties are
about those.  They are kept per slot because an end may be undone and come again
while a request is under way; one set for all, compared with a copy taken at the
start, would blame a request for the second end.

### Uploads, Sends (`media/media.go`, `media/handler.go`, `chat/service.go`, `chat/dedupe.go`)

Uploads is the life of a row of `media` and of its two objects, the file and the
still picture: NewUpload with quota and cap, the check at sending, Attach,
copies for forwarded messages, downloads and deliveries, stills, aging, and the
cleanup's two parts.  Each statement and each call of the store is a step and
may fail, at once or after it took effect: a request that fails stops where it
stands (`MediaFails`), which after a Put or Copy leaves a picture that no row
marks (`LeftUnmarked`); a copy goes on without its picture; the cleanup leaves
out what it could not remove, and may end anywhere, also between a Delete and the
mark (`CleanupStops`).  `broken` notes the media whose file was deleted without
that being known or marked, `loose` the objects that no cleanup will find, `raced`
the rows created beside another request that stood between check and insertion.
A call that has failed takes effect at once or never, not at some later time.

Sends extends Uploads by the way of a message: the table of running and recent
sends (`dedupe.do`: one request sends, the others wait for its entry), the
checks, Attach for each upload, the insertion, and what follows a failure; by
Forward with its copies; and by DeleteMessage with the expiry of the
attachments.  A failing statement is a request that stops there; an insertion
may also be committed without an answer, which is noted in `again`.

A behaviour starts with pending uploads of earlier requests.  They were within
the quota and the cap when they were made, unless they raced each other, so the
first states are (`UploadsAssumption`); what races then adds is in `raced`.

### Presence (`presence/presence.go` on the hooks of `ws/hub.go`)

Which users have a connection, the hooks that have been started and not run, the
grace timers (in `pending` or already fired), and the announcements between
reading the rows and looking at the hub.  `view` is what the app of one friend
shows, who stays connected and may fetch the list at any time.

### Accounts (`auth/accounts.go`, `users` registration)

`users`, `email_codes` and the Google identity, with every request of
AccountService as a slot that takes one step per statement or mail.  A code is
named by the slot that made it.  Any request may stop at any step, its statement
having failed or its answer being lost (`Fails`).  History: `proven` (which account
showed to own which address), `used` and `tries` of each code, `slipped` (codes
that two requests checked at once, of which a guess could not be counted, or whose
removal failed) and `ended` (codes that were replaced, expired, or hit by the check
of another code).

## Runs

| Run | Asks | Instance | Distinct states |
|---|---|---|---|
| `cache` | no stale value, refinement of FreshReads, staleness ends | 2 readers, 2 writers, 2 commits, 1 reset between loads | 648 thousand |
| `calls_busy` | one call each, open rows are the calls in memory, phones stop ringing | 3 people, one with 3 devices (one of them slow), 2 calls, a friendship that may end, 1 restart | 1.2 million |
| `calls_log` | the log is truthful, closed rows stay, who dropped out is timed, every call ends | 2 people, 1 call, a socket that breaks and is replaced, failing statements, a signal, limits, 1 restart | 471 thousand |
| `groups` | one admin, a true counter, the heir is the next in line | 4 people, group of 3, 1 deletion, 1 suspension, 4 joins | 802 thousand |
| `hub` | no panic, one goodbye, hooks match, connections end | 1 user, 3 connections, 2 allowed, buffer of 1, 2 events | 99 thousand |
| `markers` | no job lost or given up early, once unless reclaimed, jobs end, markers never move back | 2 receipts of the same or of different messages, 2 attempts, a fault, an early reclaim | 760 thousand |
| `sessions` | sign-outs and suspensions last, a new session works, tickets work once | 2 requests at a time, 4 in all, 1 sign-out, 2 tokens, 3 ticks, 1 fault | 3.2 million |
| `messages` | cache of friendships right, blocks hold, nothing is shown or sent after an end, paging is complete | 2 people, 2 requests, 2 messages, 2 times, pages of 1 | 2.0 million |
| `uploads` | what is shown has its file, no orphans, quota, one message per upload | 2 people, 2 media, 2 requests, 1 pass of the cleanup | 1.3 million |
| `retries` | one message per client id, true answers, every send is answered | 2 client ids, 3 requests, a table for 1 | 93 thousand |
| `accounts` | verified is proven, a code works once and for few guesses, a mailed code is not lost | 2 accounts, 3 addresses, 2 requests, 2 guesses, a code mailed before | 1.2 million |
| `presence` | finds a friend who is shown the wrong state | 1 user, 4 changes, 1 change of settings | - |

The properties `CallsInv`, `GroupsInv`, `HubInv`, `QueueInv`, `SessionsInv`,
`MessagesInv`, `SendsInv` and `AccountsInv` each join the type invariant of the
module with named parts.  Some parts are promises of their own (`CountMatches`;
`NoPanic` and `OneGoodbye`; `AttemptsAreRuns` and `OnceUnlessReclaimed`;
`TicketOnce`; `BlockHolds`; `OwnsItsUploads`; `VerifiedIsProven`), the others
say what the code relies on between two of its steps, and make the invariant
inductive.  TLC checks all parts together with the promises.

**Why the bounds are enough.**  In `cache` a stale Put needs one slow reader and
one writer; the second reader and writer let invalidations and Puts overlap, and
TLAPS removes the bound.  In `calls` every race involves two parties and one
call, except "busy", which needs three people and two calls, and "answered
elsewhere", which needs a second device; `calls_busy` has those, and a third
device for one that is skipped.  Those two only ring (`Untouched`): what is
answered or ended on them is answered or ended on the first.  Its `LogMatchesCalls` is stated for connections that hold: with sockets
that break, a row may be inserted after its call was finished and stays open
until the next restart (`calls.go:285`); the same happens, and the callee's
phone may go on ringing, when an unfriending ends a call that is still being
started, which both properties except.  A device that connects while a call is
being started may answer it before its row is there; both properties are checked
and proved for devices that were connected before.  That the log is truthful when
friendships end is part of what is proved.  In `groups` three members are needed
so that there is a choice of heir, a fourth person to join, and two removals so
that they meet.  In `hub` one device more than allowed reaches eviction, and a
buffer of one fills.  In `markers` two jobs with one payload share a member of
the sorted set, two different ones run in either order, and two attempts give a
first, a retry and a dead one.  In `sessions` a sign-out meets one other request
at each of its steps, and three ticks let an access token, the revocation and a
ticket expire.  In `messages`, `uploads` and `accounts` every race is one
request between two statements of another; the states they start from (a
friendship, a request or a block; stored and deleted messages; an upload at any
point of its life; an account and a mailed code) stand for the requests before.
Pages of one message with two messages of one time reach the edge of the
cursor.  In `uploads` a user's second file of the day passes the
quota of one only by a race.  The cap of two files is not reached by two media; with
a lower one nothing could be copied beside an upload, so that no single upload
passes the cap is left to the proof of QuotaHolds.  `retries` needs a request that sends, one that waits and one that comes
after, and a table that overflows with the second client id.

**Deadlock** is not checked in the runs where the system may rightly stop:
people need not call, join, connect, send or sign in again once the bounds are
used up.  `cache` does check it.

**Symmetry** is used on call ids (`calls_busy`), on the people who neither lead,
delete nor are suspended (`groups`), on accounts and addresses but Google's
(`accounts`) and on requests, with the client ids that carry the same upload
(`sessions`, `messages`, `uploads`, `accounts`); none of these runs checks a
liveness property, and the action property of `messages` speaks of all requests
alike.

**Fairness.**  Only weak fairness, only where the code's own runtime provides it.
`cache`: a request that is under way goes on (each has a timeout) and Redis
removes expired keys; nobody has to start one.  `calls`: an armed timer fires
and a goroutine takes its next step; phones owe nothing, they need not answer or
hang up.  `hub`: the two pumps of a connection run, which the deadlines of
reads and writes guarantee.  `markers`: the loops of Subscribe (moving due
retries, reading, working, reclaiming) go on; publishing is not fair, and faults
are bounded.  `retries`: a request that is not waiting takes its next step
(every statement has a timeout), and one that is woken goes on; starting, giving
up and the passing of the window are not fair.

## What the runs found

`presence` is a run that TLC must find violated.  The hub starts a goroutine per
hook (`ws/hub.go:124`), so the offline hook of a short visit may be first to
take `Service.mu`.  It arms the grace timer; the online hook then finds the
timer, stops it and says nothing, on the ground that "friends never saw them
leave" (`presence.go:85`).  A friend who fetched the list during the visit keeps
showing the user as online, until the next change.

These came up while modelling.  Each is kept as an exception that a property
names, so that everything around it is still checked:

- The version key has a TTL of its own (`redisx/versioned.go:81`).  A Load that
  read version 0 before the key existed, and is slower than the TTL, puts stale
  data back.  `ResetMidLoad` excludes it.
- Connected of a new socket may run before Disconnected of the old one
  (`ws/hub.go:181`, `calls.go:470`); the device counts as lost and the call ends
  after the grace.  LostIsTimed says that it does end.
- Somebody who is deleting an account is made admin after DeleteUser has read
  which groups they lead (`account_repo.go:145`): the group keeps no admin.
  OneAdmin excepts it, and the like for suspensions.
- A revocation is kept for the lifetime of an access token, shorter than that of
  an admin-page token, which is admitted again afterwards (`app.go:192`).
  NoOldSession excepts such tokens.
- The latest page is ordered by time alone, the next ones by time and id
  (`chat.sql.go:384`): among messages of one time, one may be on neither.
  HistoryComplete excepts just that one.
- A code is read, compared and counted in three statements (`accounts.go:184`):
  requests at the same time get more guesses, and may use it twice.  When
  BumpAttempts fails the guess is not counted, and when DeleteCode fails the code
  stays (`accounts.go:185`).  CodeLimits excepts these codes (`slipped`).
- An invalidation of friends' snapshots that fails is only logged
  (`friends/service.go:226`), and the unfriending or block is answered: until the
  TTL a former friend is let through.  CachedIsCurrent, MessagesInv and
  NothingAfterTheEnd except such an end.
- A reaction that was authorized before the message was deleted is stored after
  it (`chat/service.go:619`).
- A picture that is written, or copied by a forward, while the cleanup removes
  its row stays in the store for good, and so does one of which ThumbnailsOf
  could not be read (`media.go:414`), and one that was put but not marked, because
  SetThumbnail failed, the owner had gone or the server was killed
  (`media.go:516`, `:598`).  OrphansExplained names these cases.
- A Delete of the store may take effect although it reports a failure
  (`r2.go:100`), and the mark that follows it may fail: the message then shows an
  attachment whose file is gone.  AttachedHasFile excepts it (`broken`).
- A device whose buffer is full is not told that another one has answered
  (`ws/hub.go:115`), stays connected and rings until the call ends.
  PhonesStopRinging excepts it.
- A send that attached its uploads and then could not store the message makes
  every retry fail, since the uploads are taken (`chat/service.go:192`).
- Two uploads, requests or calls at once may pass a limit that each was checked
  against alone (`media.go:205`, `calls.go:241`).

## Proofs

`PlatformProofs` has the cache, the queue and the read markers.  Of the cache it
proves, for any readers, writers and bounds, and if the counter is not forgotten
while a Load holds a version (`~ResetMidLoad`; see above for the case it
excludes):

- `CacheInvHolds`: `CacheSpec => []CacheInv`.  NoStaleValue alone is not inductive,
  because a Put that is still to come could break it.  `PutIsFresh` says that a
  reader whose version still equals Redis's holds a revision no older than any
  acknowledged write, and that no reader holds a version ahead of the counter;
  `Committed` orders the revisions.
- `NoStaleValueHolds`, its corollary.
- `CacheImplementsFreshReads`: the cache implements FreshReads.  Commit,
  Invalidate, the start of a Load and its return map to the abstract steps, all
  others to stuttering.

Of the queue and the markers it proves, for any jobs, payloads, workers, crashes
and reclaims:

- `QueueInvHolds`: attempts are runs, and nothing runs twice that was not
  reclaimed.  The latter needs that such a job is in one place only, and what is
  written there is exactly how often it ran (`Alone`); the former that what a
  worker is about to report has happened (`ReportsAreRuns`).  Both hold with
  equal payloads sharing a member of the sorted set.
- `NoLossHolds`: a published job is somewhere, or done.
- `MarkersUseQueue`: MarkersSpec implements the specification of the queue, so
  all of that holds with the receipts as well.
- `SeenStaysSeenHolds`: the read marker does not move back.  `MarkerInv` says
  that the marker is at or after each message whose receipt was handled; of the
  queue it needs types only, so it holds however receipts are repeated or
  reordered.

`CallsProofs` proves, for any people, devices, calls, failures and restarts:

- `CallsInvHolds`: `Spec => []CallsInv`.  OneCallEach and LogIsTruthful depend on
  what goroutines will do after they have released `mu`.  `TaskOK` states what
  each may rely on at each step (an InsertCall that is still to come has no row
  yet; a FinishCall knows whether the call was answered), `RowOK` ties a row to
  the phase of its call, and `OneInsert` says that a row is inserted once.  The
  proof has one lemma per group of steps that change the same variables.
- `OneCallEachHolds`, `LogIsTruthfulHolds`, its corollaries, and
  `ClosedRowsStayHolds`, an action property that follows from it.
- `LostIsTimedHolds`: whoever dropped out of a call is timed.  It needs in
  addition (`Timed`) that a call which is not active has nobody who dropped out.
- `LogMatchesCallsHolds` and `PhonesStopRingingHolds`, for instances that are
  `Steady`: no socket breaks, the devices are connected from the start, and
  statements do not fail; limits, unfriendings, restarts and full buffers may come.
  Without that the two do not hold, see "Why the bounds are enough".  They speak of
  moments when no handler is under way, so `Settling` says who will make up for
  each difference meanwhile: which goroutine is about to write a row that is
  behind the memory (`RowFollows`) or to tell a phone that shows a call which was
  answered or has ended (`PhoneOK`, unless it was skipped, being on another
  connection than the one that answered), and that nobody but EndBetween knows a call
  that is still being started (`Knowing`).

`HubProofs` proves, for any users, connections, limits and events:

- `HubInvHolds`: `Spec => []HubInv`.  NoPanic is not inductive: what keeps a
  Send channel from being closed twice is that a connection is in one list only,
  and once (`Orderly`).  The proof splits it into what the map promises (`MapInv`)
  and what the pumps do (`PumpInv`), which meet in the lemmas about `remove`.
- `HooksMatchHolds`: told is one exactly for the users who have a connection.

`GroupsProofs` proves `GroupsInvHolds`, `OneAdminHolds` and `HeirIsNextHolds`
for any people, permissions, limits, deletions and suspensions.  The three are
inductive together (`Whole`).  What they rest on: a transaction that is over
holds nothing (`Clean`); two removals at a time are noted (`OneAtATime`); a heir
is picked and kept under the lock (`Locked`); a removal knows whether it takes a
member, and its count is right (`Recounts`), and has a heir, or takes the group,
if it takes the admin (`Promises`).

`AccountsProofs` proves, for any accounts, addresses, requests and limit of
guesses:

- `AccountsInvHolds`: verified is proven.  A request proves an address some
  steps before it is stored, and in between the account's address may change;
  `Asked` says what a request knows at each step, and `OwnAddress` that a code
  which does not change the address goes to one that was the account's, and has
  been replaced, if at all, by one that was proven.
- `CodeLimitsHold` and `MailedCodeWorksHolds`, from `OneKey` (a code belongs to
  one account and purpose wherever it is: stored, read, mailed or on its way),
  `Counted` (a code that has not slipped has counted each wrong guess but the one
  under way) and `Kept` (a mailed code is stored, with no guess
  against it that was not one at this code, or there is a reason).

`MessagesProofs` proves, for any people, messages, times, requests and sizes of
pages, the requests of Friends and Messages together:

- `MessagesInvHolds`: no row past a block, and one row for two people.  `Parted`
  and `BothDropped` say that a friendship which was answered as ended, and
  whose snapshots were dropped, is neither in the tables nor in a cache; `Answered` the same of deletions and suspensions
  and the cached list; `Cleared` that a request which has been authorized is one
  that may be; `Course` what a request is about at each step; `PageTrue` and
  `Reading` what a page holds, and what a client on its way back has read.
- `CachedIsCurrentHolds`, `DeletedStaysEmptyHolds`, `PageHidesHolds` and
  `HistoryCompleteHolds`, which are inductive together with it (`Whole`).  The
  lemma `StepKeeps` reduces a step of one request to what it does to the tables;
  the lemmas about pages say that a page which leaves out a message has one
  older than it, or of the same time.
- `NothingAfterTheEndHolds`, an action property: a write that gets through was
  allowed.  For the writes it is `Cleared`, for a typing signal, which checks and
  sends in one step, a lemma of its own.

`SessionsProofs` proves, for any requests, lifetimes, sign-outs, tokens and
failures:

- `SessionsInvHolds`: `Spec => []SessionsInv`.  That old sessions stay out depends
  on what Redis and the local answer know of them while their tokens are valid:
  `KeyKnows` and `LocalKnows`, of the sessions before the last completed sign-out
  (`OldIsOut`).  `Carrying` says what a sign-out has achieved at each of its
  steps, and that a request it meets is marked; `Admitted` that a reply from
  Redis is still good when it is used; `Waited` that the device which changed the
  address gets its tokens after the time of the revocation (`Quiet`).  Most
  steps belong to one request and only end, use or add tokens and links; they
  are dealt with at once (`Calm`).
- `NoOldSessionHolds`, `BannedStaysOutHolds` and `OwnSessionWorksHolds`, its
  corollaries.  No relation between the lifetimes is assumed: a revocation is
  kept as long as an access token lives, whatever that is, and a local answer may
  be trusted for longer.

`SendsProofs` proves, for any people, media, requests, client ids and limits, the
requests of Uploads and Sends, the phones and the cleanup together:

- `SendsInvHolds`: `Spec => []SendsInv`, one conjunction for both modules.  A
  send checks that its uploads are in the store, attaches them one by one, and
  then stores its message, while the cleanup may remove what it checked.
  `Attaches` says what a send knows meanwhile: an upload still to be attached is
  present, or the cleanup is known to have removed it, and those attached are the
  message's own.  `OnRows` says that requests speak of rows that exist, since no
  row is ever taken away, and `CleansInOrder` what the cleanup holds in each part
  of its pass.
- `OwnsItsUploadsHolds`: an upload has one message.  The check reads the upload
  as pending long before the message is stored; what makes it safe is that
  AttachMedia looks again, so that at the insertion all uploads say `msg = s`,
  and a ready row is never given to another (`Grows`).
- `AttachedHasFileHolds`, from `ReadyIsPresent`: the file of a row that is ready
  and not deleted is there, or the cleanup has just removed it (`clean.done`), or
  its removal was not known or not marked (`broken`).
- `OrphansExplainedHolds`, from `ObjectsNoted`: a picture in the store has its
  mark in the row, or a request that is about to mark it, or is noted as one that
  nobody deletes (`Excused`: written too late, or left unmarked), and so has every object of what the cleanup has
  passed over (`Swept`) or did not know of (`Unseen`).
- `QuotaHoldsAlways`, from `HasRoom`: a request between its checks and its row
  has room for one more of what nobody raced for, because any other row made
  meanwhile counts as raced.
- `SentOnceHolds` and `AnswerIsStoredHolds`, from what the table of sends says:
  an entry that runs is that of a request which is sending, one that is "ok"
  names a stored message of its client id (`Serves`, also for those that wait for
  an entry which has left the table), and unless the client id is in `again`,
  who sends or has stored a message stands in the table (`OneSender`).  An entry
  that failed may be dropped by its own request only, which has ended.

  Most steps of a request disturb one or two parts.  The proof says once for
  each part what leaves it alone (`OnRowsStep`, `AttachesStep`, `QuotaStep`,
  `ObjectsStep`, `DedupeStep` and so on), and each step is reduced to those:
  `CalmStep` for those that leave the objects, `ObjectsTurn` for those that write
  them, `StoreMoves` for the cleanup and the phones, `StopsDedupe` for the end of
  a send.

The bounds that keep TLC's instances finite stand in the guards, and the proofs
do not use them, except that of failures, which is part of a type.

The assumptions on constants are those named in the modules (`CacheAssumption`,
`CallsAssumption`, `GroupsAssumption`, `HubAssumption`, `QueueAssumption`,
`MarkersAssumption`, `SessionsAssumption`, `MessagesAssumption`,
`AccountsAssumption`, `UploadsAssumption`, `SendsAssumption`): the types of the parameters, that people and jobs are
finitely many where they are counted, that messages and times are numbers, that
the uploads at the start are within the limits, that the low mark of the cleanup
is not above the high one, and that "no user", "no code" and the like are different from the real ones.
`Steady` is a hypothesis of the two theorems named above, and only of these.

Only model-checked: all liveness (StalenessEnds, CallsEnd, ConnsEnd, JobsEnd,
SendsEnd), which needs fairness and ENABLED and is out of the prover's reach.
Presence has no theorem: its property does not hold, as the run shows.

## Known limits of the code that no property excludes

The code allows these, and no document says otherwise: the friend check of a
call comes before the mutex (`calls.go:241`); a connection that the hub has
dropped may still answer (`calls.go:338`); an already fired ring timer ends a
call answered in the meantime (`calls.go:339`); visibility and friendship are
checked before a join (`groups/service.go:137`, `:419`); a refresh token that is used
twice at once gives two sessions (`auth_service.go:118`); a still that is set
again while it is shown replaces the picture.

## Not modelled

- Calls: the list of the log and the TURN credentials only read.
- Queue: the queue in memory, for tests and local runs; it drops retries when
  full.
- Groups: names, pictures, visibility and invite codes, which no other state
  depends on.
- Account deletion: the clean-up of caches and sockets after it.
- Sessions: the expiry of refresh tokens after thirty days, a restart (it
  forgets redeemed tickets, as the code says), the command line's sign-out.
- Push: the choice of recipients and the delivery through FCM, a foreign
  service; registering and forgetting devices is in Sessions.
- Users: avatars and the fields of a profile, single statements.
- Chat: read markers of groups (one statement with the rule of Markers), the
  lists of who read or reacted, the `since` query, the key `chat:seen`, which
  nothing reads.
- Sends: a restart, which empties the table of sends: a retry that comes after it
  is a new send.
- Media: the expiry of a deleted group's media, one statement; sizes, which are
  counted in files.
- Presence: the time last seen.
- Reports, discover, catalog, config: a copy of evidence in one transaction,
  rankings that only read, constant data, the environment.
- Rate limiting: one atomic script per request; what it refuses is a request
  that never starts.  How close its sliding window is to the exact count is
  arithmetic on fractions of time that no other part depends on.
- Passwords, tokens, mail, telemetry, migrations, logging, commands, website,
  monitoring: cryptography, I/O, static files.

## Plan

| | Module | State |
|---|---|---|
| 1 | VersionedCache, FreshReads | checked and proved |
| 2 | Calls | checked; all safety proved |
| 3 | Groups with account deletion and suspension | checked and proved |
| 4 | Hub | checked; all safety proved |
| 5 | Queue, Markers | checked; all safety proved |
| 6 | Sessions | checked and proved |
| 7 | Friends, Messages | checked and proved |
| 8 | Uploads, Sends | checked; all safety proved |
| 9 | Presence | checked, with its finding |
| 10 | Accounts | checked and proved |

What is left: should the hub order its hooks, or presence look at the hub when a
hook runs, the run `presence` becomes one that passes, with PresenceIsRight to
prove.  The parts under "Not modelled" that change state, the rate limiter and
the expiry of a deleted group's media first, would be modules of their own.
