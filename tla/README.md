# Avangard-chat: TLA+ models, checks and proofs

TLA+ models of the stateful core of the Avangard-chat backend (`src/app`), the
TLC configurations that check them on small instances, and TLAPS proofs of the
most important results for every value of the constants. Everything is
translated from the Python source; line numbers below are those of `src/`.

Contents: [inventory](#1-inventory) · [modules](#2-modules) · [runs](#3-runs-and-bounds) ·
[proofs](#4-proofs) · [known disagreements](#5-disagreements-between-code-and-documentation) ·
[limits](#6-what-is-not-modelled) · [plan](#7-plan)

## 1. Inventory

The backend is a FastAPI application. Several processes may run; inside one,
asyncio runs a handler without interruption from one `await` to the next. All
shared state is outside the processes: MongoDB (rooms, messages, calls, unread
counters, cleanup jobs, social graph, notifications), Dragonfly, a Redis-like
store (sessions, locks, caches, presence, rate limits, pub/sub), Typesense (the
search index), LiveKit (media rooms) and S3. No operation uses a MongoDB
transaction. Two facts shape every model:

* **Whole-document saves.** Beanie's `document.save()` writes back the complete
  document that was loaded, so what another handler wrote between the load and
  the save is lost. Handlers that use `update_one` with operators
  (`$addToSet`, `$inc`, a conditional filter) do not have the problem.
* **Fail policies.** Every backend has a policy "open" (log and go on) or
  "closed" (raise 503). By default sessions and Typesense are closed, the
  authorisation cache and presence are open (`settings.py:177-188`).

| Component | State | Operations | Hard behaviour | What makes it correct |
|---|---|---|---|---|
| Cleanup jobs (`modules/system/cleanup_jobs`) | job documents: status, attempts, available_at | enqueue; worker: fetch a batch, claim, execute, complete / retry / dead-letter | several workers, stale batches, partial execution, crash while running | exclusive execution; completion means clean; every job settles |
| Calls (`modules/calls`) | call documents: status, answered, per-participant stamps | invite, ringing, join, leave, end, remove, acknowledge; clean-up after room operations | stale saves, LiveKit failing between two saves, permission of the clean-up | coherent documents; one live call per room; an ended call is final; no abandoned live call |
| Refresh sessions (`modules/auth`, `backends/dragonfly`) | session records, the user's set of ids, refresh locks | register/login, refresh (rotation), logout, logout-all, change-password | lock TTL, rollback of a half-done rotation, sweep over a snapshot, crash inside the lock | one successor per session; a rotated or swept session is dead; logout-all is complete |
| Unread counters (`modules/messages/unread`) | one counter per room and user | increment, decrement (floored), set, remove; reconciliation worker | increments racing reads and deletes, failed sends, worker racing requests | exact when nothing overlaps; drift is repaired |
| Messages (`modules/messages`) | message documents, readers, index, attachments | send, voice, forward, edit, delete, mark read, react, transcribe | rollback after a failed index, stale saves | deletion is final; counters follow |
| Rooms (`modules/rooms`) | room documents, access cache, preferences | create, membership, admins, invite links, pins, delete, direct rooms | decision cached after its invalidation, whole-room saves, compensation of a failed delete, creation races, rooms that come back | a removed member loses access, a stranger never gets it; deletion is cleaned up after; opening a direct room fails only under contention |
| WebSocket handler and manager (`modules/ws`) | sockets, contexts, presence, idempotency keys and locks | connect, events, fan-out, evict, disconnect | retried sends, rights lost during awaits, a stale cached decision, TTLs against each other, calls that fail open, crash inside a lock | a key sends one message; nobody without access gets an event, everybody with access does; presence follows connections |
| Social graph (`modules/users`) | friend requests, blocks | send, respond, remove, block, unblock | check-then-insert, requests answered again, two writes per block | one pending request per pair; nothing across a block; who was removed is no friend |
| Notifications, subscriptions | notifications; one subscription per user | create, read, read all, delete; activate, cancel, lazy expiry | whole-document saves over newer documents | what was deleted stays deleted; only a past period is expired |
| Access tokens (`system/dependencies.py`, `backends/dragonfly`) | revoked ids, the user's cutoff, both with a TTL | issue, revoke, cut off, accept | second granularity, revocations that expire, cutoffs that overtake each other | a logged-out token is refused for the rest of its life |
| Rate limits, search, AI assistance, summaries, S3, crypto, configuration | windows; else none of their own | | I/O and pure functions | not modelled |

Interactions: `rooms/router.py` calls the call service after it removed a member
or deleted a room; message and room deletion enqueue cleanup jobs; message and
membership handlers adjust unread counters; every handler asks
`RoomService.get_for_user` for access; friend requests create notifications;
events are published through Dragonfly to the connection manager of every
process, which asks for token and room access again before it sends; the two
workers run in every process (`main.py`).

## 2. Modules

One step of a model is the code between two awaits that matter: at least one
step per write to shared state, and a read that is separated from the write it
decides on is a step of its own. Time stamps become Boolean facts or an order.

### `JobLifecycle`, `CleanupJobs`

`CleanupJobs` has the job documents (`jobs`), the pending jobs that are due in
the order of the query (`ready`), where each worker is (`worker`) and the stores
the jobs clean (`index`, `ownerCache`, `accessCache`, `counters`). `Fetch` is
the query of `run_once`, `Claim`/`Skip` the conditional update of
`_process_job`, `Refresh` the re-read, `DeleteMessage` … `RemoveCounters` the
calls of `_execute`, `Complete` and `HandleFailure` the final updates,
`BackoffElapses` the passing of `available_at`. A backend call may fail before
or after it took effect, and the fail policy decides what the worker does.
`DatabaseError` is an exception that `_process_job` does not catch and `_run`
does; `Shutdown` and `Startup` are a cancelled and a restarted worker.
`JobLifecycle` is the promise to producers (submitted once, started at most
`MaxAttempts` times, dead-lettered only when the attempts are used up), which
`CleanupJobs` implements under the mapping `Lifecycle`.

### `CallSessions`

The call documents of one room, its members and up to `|Requests|` requests in
flight. A request first loads (`LoadJoin`, `LoadLeave`, …: access check, status
check and early returns are its guard) and later saves the copy it loaded
(`Join`, `Leave`, `EndCall`, …). `leave` and `remove_participant` save the
departure and may then go on to `_end_call` with the same copy. `RemoveMember`
and `DeleteRoom` are the room operations; the call clean-up after them
(`HandleMemberRemoved`, `HandleRoomDeleted`) is a later step of the same request
because the router awaits in between. `Fail` is a LiveKit or database error or a
cancelled request. The owner may promote any member, so any member may be the
admin who removes another. The access cache in front of the membership check
is the subject of `RoomAccess` and not in this module.

### `RefreshSessions`

One user's session records, the set of their ids, the refresh locks, and the
requests as they go through `AuthService`, one Dragonfly call per step. A record
is "valid", "revoked" (or past `expires_at`, which `refresh` treats alike) or
"gone" (TTL). `issued`, `child`, `root` and `cut` are history variables: which
tokens clients received, in exchange for which session, descending from which
login, and which sessions a completed logout-all had seen. `Fail` is a call that
raises, with the `finally` clause that releases the lock; `Crash` the end of the
process, which releases nothing; `LockExpires` the lock's TTL. `SlowRequests`
says whether a request may outlive that TTL, `Aging` whether sessions expire.

### `UnreadCounters`

The messages of one room, their readers, the counter of each user, requests one
database call at a time, and the reconciliation worker. `Send`/`Insert`/`Index`/
`IncrementOne` are a send, `SendFails` its rollback (which does not take
increments back), `MarkRead`/`MarkUpdate`/`MarkDecrement` both forms of reading,
`Delete`…`DeleteSave` a deletion, `Rewrite`/`RewriteSave` every handler that
loads a message, checks that it is not deleted and saves it (edit, attachment,
transcription, reaction), `EditFails` the second save of an edit whose indexing
failed. A forwarded message is a `Send` per message. `ListRooms` … `RunDone` is
`run_once` of the worker. The room exists throughout.

### `RoomAccess`

One group room: its document (`room`: members, admins, invite link, pins), the
access cache, the deleted messages, and requests one database or cache call at a
time. `Load`/`Check`/`Fill` are `get_for_user` and `_ensure_room_access`: the
document is loaded first, then the cache is asked, and on a miss the decision of
the loaded document is cached, whatever has happened since. `LoadAdd`,
`Join`, `LoadRemove` and `leave` go on to `Add` or `Pull` (update operators on
the document, nothing when it is gone) and then `Invalidate`. `LoadPromote`/
`Promote` and their likes are admins and invite links. `PinMessage`/`Save` are
`pin_message` and `unpin_message`, which save the whole document of the load;
`DeleteMessage`/`UnpinDeleted` is what deleting a message does to pins.
`LoadDelete`, `Snapshot`, `Unlink`, `Purge`, `Clean` are `delete_room`, with the
compensation `PurgeFails`/`Restore`. `everMember` and `lost` are history
variables: who was ever a member, and that a deletion ended between its writes.

### `DirectRooms`

`get_or_create_dm` for one pair and any number of clients: `Find`, `Insert`,
`Duplicate` (the unique index on `dm_key`, with the retry or the 503). Beside
them requests about a room that exists: `LoadDirect`, then either `delete_room`
(`DropDirect`, `PurgeDirect`, and after a failed `delete_many` `PurgeDirectFails`
and `RestoreDirect`, which inserts the snapshot again) or the save of a pin
(`SaveDirect`, an upsert that may bring a deleted room back); `QuitDirect` is a
request that ends early. `arrivals` counts the documents that came to be stored.

### `SocialGraph`, `Notifications`

`SocialGraph` extends `Notifications`. `SendRequest` goes through its queries one
by one (`SendCheck`: friends, block, pending in both directions), inserts and
notifies; `Respond`/`RespondSave` load and save a request without a look at its
status, as the code does; `RemoveLoad`/`RemoveDelete`; `BlockUser`,
`BlockUnlink`, `BlockInsert`; `Unblock`. The unique indexes are `Taken` and the
guard of `BlockInsert`. `Notifications` has creation under the user's
preferences, `mark_read` as load and save (an upsert, so it may bring back a
deleted document as read), `mark_all_read` and delete.

### `Subscriptions`

The subscription of one user on a clock of days. Each request has computed the
document it will save when it loaded the stored one: `LoadLapsed` (the lazy
expiry of any reader), `LoadCancel`, `LoadActivate`, then `SubSave` or `SubInsert`.

### `WsIdempotency`

Deliveries of one `chat.message.create` event with one idempotency key: the lock
(`Acquire`, `Bypass` when the backend fails open), `Lookup`, `SendMessage`,
`Store`, `ReleaseKey` (which deletes only its own lock), and what goes wrong:
`LookupFails`, `StoreFails`, `Die`, `KeyLockExpires`, `StoredExpires`. `mishaps`
counts what weakens the key, and nothing else.

### `AccessTokens`

The tokens of a user on a clock of whole seconds on which several things happen
per second. `Accepted` is `validate_access_token` with `_is_token_authorized`;
`LogoutToken` revokes one id; `LogoutAllToken`, `StampCutoff` and `SetCutoff`
are the three steps of logout-all: the token it came with, `now_unix()`, and the
awaited SET, which may fail with or without effect (`SetCutoffFails`).
Revocation keys carry the second in which they expire. A token is `dead` once a
logout about it has completed, and `overtaken` when only a cutoff revoked it and
a logout-all that had read the clock earlier stored its own since.

### `WsPresence`

The connections of one user to one room, the manager's contexts, and per
connection the presence key and the entry of the sorted set with what is left of
their lifetimes. Time passes in units of which the idle time-out has fewer than
the presence TTL, as in the settings. `Kick` is the eviction by the fan-out,
which runs beside the handler; `ClearKeys`/`ScanRemaining` are
`clear_ws_presence`. `SetPresenceFails`, `TouchFails` and `ClearFails` are the
calls that raise: the policy is open, so they leave what was written so far
(`Partly`) and the handler goes on. `failing` remembers them per connection.

### `WsConnections`

The sockets of one process (of the room, and of users), their handlers, the
room's members and the cached access decisions, the events published and the
listener's `_fanout_local` as it visits one socket after the other. A check is
`_user_has_room_access`, a step per await: `FanLoad` reads the room, `FanHit`
believes a cached decision, `FanMiss` finds none (or cannot read it) and
`FanFill` caches that of the room as loaded, before `FanSend`. All other checks,
of handshakes, received events, API requests and other processes, appear as
`LoadRoom`/`FillYes`/`FillNo`. `Pull` and `Invalidate` are the two writes of
`remove_group_member`, `InvalidateFails` the second when Dragonfly fails, which
is only logged. `Revoke` ends tokens. `FanoutUser` is what an event of the
user's own (`_fanout_user`) may do to a user socket. An event remembers who was
removed when it was published (`banned`) and which sockets had and kept every
right to it (`owed`); `stale` holds the users for whom a yes was cached after
their removal was through, or was not deleted by it. Members only leave here: a
stale *no* after a member was added is in `RoomAccess`.

### MC modules

`MCCleanupJobs`, `MCCallSessions`, `MCRefreshSessions` and `MCUnreadCounters`
give instances of their modules. The last three have a variable `solo`, chosen
initially: without overlap the incremental or check-then-act code must be right,
with overlap what is claimed is weaker. Their `Solo…` properties say which.
`MCAccess` and `MCRealtime` put several independent modules next to each other
and choose one of them by `mode`; the other variables stay as they are.
`MCFanout` is a room of two users of whom one loses rights.

## 3. Runs and bounds

| Run | Instance | Shows |
|---|---|---|
| `cleanup` | 2 workers, a message job and a room job that share a message, 2 attempts, batch of 2, 2 faults, closed policies | `TypeOK`, `ExclusiveExecution`, `CompletedIsClean`, the refinement `LifecycleSpec`, and `SettlesOrIsAbandoned` under fairness |
| `cleanup_stuck` | the same, 1 fault | **violation** of `EveryJobSettles` |
| `calls` | 2 users; 2 overlapping failing requests about a call, or one at a time and 2 calls | `TypeOK`, `DocumentsCoherent`; solo: `AbandonedCallEnds`, `EndedIsFinal` |
| `calls_leaver` | 2 users, 1 request at a time, 1 call | **violation** of `RemovedMemberIsOut` |
| `sessions` | 3 sessions; 2 overlapping requests, failures, crashes, or one at a time and sessions that expire | `TypeOK`, `SingleSuccessor`, `RotatedIsDead`, `SweptIsDead`, `NeverRevalidated`; solo: `LogoutAllIsComplete` |
| `sessions_logoutall` | 2 sessions, 2 overlapping requests | **violation** of `LogoutAllIsComplete` |
| `unread` | one at a time, 3 users, 2 messages; or 2 requests, or a request and the worker, overlapping, 2 users, 1 message, 1 fault | `TypeOK`, `DriftIsRepaired` under fairness; solo: `ExactWhenIdle` |
| `unread_undelete` | 2 users, 1 message, 2 overlapping requests | **violation** of `DeletedIsFinal` |
| `access` | 2 users; room: one request at a time, 2 messages, or 2 requests and 2 faults; direct room: 2 clients, 2 retries, 2 deletions or pins, 4 arrivals of the document; 3 friend requests; 2 notifications; 2 requests about a subscription, 5 days | `StrangersStayOut`, `DeletedIsCleaned`, `AccessIsLost` under fairness, solo `CacheIsExact` and `RoomIsCoherent`; `RetriesAreEarned`; `NothingAcrossBlock`; `DeletedNoteStays`; `ExpiryIsEarned` |
| `access_remove` | the same | **violation** of `RemovedIsNotFriend` |
| `realtime` | 3 deliveries, 2 mishaps; 3 tokens, 5 seconds, lifetimes 2 and 3; 2 connections, idle 1, TTL 2, calls of one of them fail | `DuplicatesAreMishaps`, `KeyIsFreed`; `LoggedOutIsRefused`; `ConnectedIsOnline`, `LastSeenIsKept`, `GhostsVanish` (liveness under fairness) |
| `fanout` | 2 room sockets and a user socket of 2 users, one of whom loses the room and the token; 1 event | `LeaksAreStale`, `EveryoneIsServed`, `RevokedIsClosed` under fairness |

**Why these bounds.** Almost every hazard of the code is between two actors (two
workers, two requests, a request and a worker), so two of each make it happen;
where an order of three matters there are three or more (direct rooms: two
clients open, two others delete, restore or save; deliveries: a holder, one that
bypassed, one that waits).
Two attempts reach both the retry and the dead letter; a batch of two holds a
stale second job; a room job with two messages fails half way. Three sessions
give a login, its successor and a second login or the successor's successor.
Two calls are one after another, or beside each other when invites overlap. A pair has three requests when one
was rejected, one accepted and one is pending. A pin limit of 1 is reached by
two messages. Four arrivals of a direct room are more than one client's two
attempts can use up. Five seconds contain two logouts whose cutoffs overtake each
other, a cutoff's end and the life of a token that began with it. One event is
enough for a fan-out that overlaps a removal, and alice's socket is there to be
served, so it neither fails nor closes. In the overlapping half of `access` the owner's own access
checks, promotions and links are left out, for they meet nothing there that the
members' do not; the friend requests run one at a time, because with overlap
what is claimed of them is not true (section 5). What was proved (section 4)
does not depend on any bound. Symmetry of requests is used only in runs without
liveness properties. Deadlock is checked in every passing run.

**Fairness.** Weak fairness of the steps of a worker or of a request that has
begun (`Proceed`, `Handle`, `HandlerStep`, `Listen`, the steps of a socket's
handler): asyncio resumes every task whose awaited call has returned, and every
client library has a timeout. Weak fairness of `BackoffElapses`, `CacheExpires`,
`KeyLockExpires` and `TimePasses`: the clock advances and Dragonfly drops what
has expired. `Expel` is fair because the loop of a handler ends by itself: a
client that sends is checked, and one that does not is idle. A stale yes that
keeps a removed member's room socket authorised ends with `CacheExpires`. In `UnreadCounters`
weak fairness of the worker's loop, which runs as long as the application.
Nobody has to send a request, no backend has to succeed, and a producer owes
nothing.

**What the properties leave open.** `SingleSuccessor` assumes that a request does
not outlive the 5-second lock; if one does, two successors are possible.
`RotatedIsDead` does not need the assumption. `DocumentsCoherent` holds although
saves overwrite each other: each save is a complete coherent document, only an
older one. `SettlesOrIsAbandoned` excepts the jobs whose worker was lost
(`cleanup_stuck` is about those). `AccessIsLost` says that access ends, not when:
a stale decision may be cached after the removal and lasts up to its TTL, and a
pin that overlaps the removal undoes it. `DeletedIsCleaned` excepts a deletion
that dies between its writes; no job knows of it. `ConnectedIsOnline` excepts
connections that send only events of unknown types: these keep the connection
open and renew no presence. It also says what a failed call costs: the entry of
the room's list until the next touch that succeeds, and the user's key, which
EXPIRE cannot revive, for the rest of the connection. `LastSeenIsKept` excepts a
clearing that failed, a crash, and presence written without a context.
`LoggedOutIsRefused` excepts tokens that were revoked only by a cutoff which an
older one, stored later, has replaced. `LeaksAreStale` says by what an event can
reach a removed member, not that it cannot (section 5). `EveryoneIsServed`
is about members who stay: a socket whose check fails is dropped, and owed
nothing. `RetriesAreEarned` counts every way a direct room's document can arrive,
a compensation and the upserting save of a pin included.

For each property of a passing run, PROJECT.json names a mutant of the modelled
code (defined next to the original and marked "Mutant") that violates it.

## 4. Proofs

Checked with TLAPS; all constants are arbitrary (any number of workers, jobs,
users, requests, sessions, attempts, faults), restricted only by the named
assumptions of the modules. Every invariant and action property that a passing
run checks is also a theorem, except where the list at the end of this section says
otherwise. The proofs about requests that do not overlap are theorems of the
specification the run uses (`MCSpec`), so their modules extend the MC module.

* **`CleanupJobs_proofs`.** The inductive invariant adds to the type invariant
  that (1) a worker that is processing has a non-empty batch and its job has
  status "running", (2) two processing workers have different jobs, (3) the
  attempts a worker remembers are those of the document, and (4) the work a
  worker has behind it is visible in the stores: the first `done` messages of
  the payload are gone from each store that fails closed. (1) makes the claim
  exclusive: only a "pending" job can be claimed, so no job of another worker.
  (4) is why completion means clean although execution restarts after failures:
  nothing is ever put back into a store. Theorems: `TypeCorrect`, `Exclusive`,
  `CompletedClean`, and `Refinement` (every step is a step of `JobLifecycle` or
  changes neither status nor attempts).
* **`CallSessions_proofs`.** The invariant says that not only the stored
  documents but all copies that requests hold are coherent, and that a copy
  about to be ended fits the reason it will be given. Saves then cannot do harm
  whatever their order. Theorems: `TypeCorrect`, `Coherence`. One request at a
  time (`SoloCallInv`): the copy that the request holds is the stored document,
  an insert finds every call ended, and a live call that everybody left is the
  one that the request is about to end (`Lone`). Theorems `NoZombieAlone` and,
  an action property, `FinalAlone`.
* **`RefreshSessions_proofs`.** The invariant has four parts: what a request
  holds refers to sessions that exist (`Known`); sessions that were rotated or
  swept are dead and stay so (`Dead`); what each step of a request has already
  achieved (`Sane`); and only one request at a time is in the critical section
  of a session as long as requests do not outlive the lock (`Exclusion`).
  Theorems: `TypeCorrect`, `Rotated`, `SweptStaysDead`, `OneSuccessor`,
  and the action property `Irrevocable`. One request at a time, but with
  failures, deaths and expiry (`SoloSessionInv`): what clients hold is in the
  user's set, and what works does not descend from a login that was logged out
  (`Orderly`); the request rotates such a session, has put the successor in the
  set before it hands it out, and a sweep has seen all that clients hold
  (`Lone`). That sessions descend from older ones is what makes a login the
  start of a new family. Theorem `LogoutAllAlone`; with overlap it is false
  (run `sessions_logoutall`).
* **`Unread_proofs`.** Types: a request that will write about a user or message
  has one (`Informed`); `TypeCorrect` says among other things that no counter is
  negative. One request at a time (`SoloInv`): the number shown plus what the
  request still owes (`Due`) is the number of unread messages (`Balanced`), what
  the request loaded is still so (`Current`), and a run of the worker computes
  what is stored already (`WorkerCurrent`). The step of a send, a read and a
  deletion then moves one unit from what is owed to the counter. Theorem
  `ExactAlone`.
* **`Rooms_proofs`.** Under overlap and failures (`RoomInv`): a request that will
  write a document back has one (`Furnished`), and the room, every copy of it,
  every cached "yes" and every positive decision speak only for those who were
  members at some time (`Honest`). Theorems `TypeCorrect`, `Strangers`. A deleted
  room is cleaned up after as long as somebody is behind the deletion of the
  document; a second deletion has its own snapshot. Theorem `Cleaned`. One
  request at a time (`SoloRoomInv`): cache and document agree, and admins and
  pins are in order, but for what the request is about to put right (`Settled`).
  Theorems `CacheAlone`, `CoherentAlone`. These need what the list comprehension
  of pin and unpin returns (`WithoutIs`): a recursive function over a sequence,
  by an induction stated for a set (`SetInduction`), since the induction theorem
  of the library cannot be instantiated here.
* **`Access_proofs`.** Direct rooms: a client about to insert that finds a
  document has missed its arrival, so its next attempt is paid for before it
  fails (`Paid`); documents arrive by creation, compensation and save alike.
  Theorem `DirectRetries`. Subscriptions: everything a request will still save is
  marked expired rightly, as the stored document is, and time does not take that
  back. Theorem `ExpiredRightly`. Social graph: with one handler (`Sequential`,
  the hypothesis of the theorem) what a request found out, that nobody blocks,
  is still so when it writes (`Found`). Theorem `BlockSeparates`; with two
  handlers it is false (section 5). Notifications: a step leaves those alone it is
  not about, so deleted and held by nobody is stable. Theorem `NotesStayDeleted`.
* **`Realtime_proofs`.** Access tokens: each logged-out token is covered for the
  rest of its life by its own key, by the cutoff's key or by its age (`Covered`),
  and a cutoff that replaces another takes away only what it records as
  overtaken; this needs `CutoffTtl >= TokenTtl`, an assumption of the module that the
  default settings satisfy. Theorem `LoggedOut`. Idempotency: an account.
  Messages sent, deliveries that may still send (`Senders`), and the key's own
  message as long as nobody is at it (`Credit`) never exceed one plus the mishaps;
  the lock is why `Lookup` trades the credit for a sender and never adds one.
  Theorems `Duplicates` and `SendTypes`.
* **`Sockets_proofs`.** Presence: while a connection is quiet, the lifetime left
  to its key and entry and the time it has been quiet make up at least the TTL
  (`Fresh`), for the key as long as no call of the connection failed and for the
  entry as long as the last one did not, and the idle limit is below the TTL; a
  context lives until it is popped, once (`Lives`). Theorem `Online`. Who is cleared has no key any more,
  and until last_seen is written some connection is not over (`SeenInv`):
  theorem `LastSeen`, for any number of connections closing in any order.
  Fan-out: a removed user is in the cache with a yes only if that yes is stale
  (`Cached`: the room is changed before the cache is emptied, so a check that
  fills after the emptying has read the room before); who was removed when the
  event was published is not about to be served but by such a yes (`Barred`); who
  is owed an event still has the right to it (`Entitled`) and is either served or
  still before the loop (`Awaited`). Theorems `OnlyStaleLeaks`, `AllAreServed`.

**Assumptions.** Constants have the types one expects (bounds are numbers, null
values are none of the values they stand beside). Beyond that: the owner is a
user; request slots and the messages of a counter are finitely many, which
counting needs; a pair has two different users; there is a connection and a
message; the presence TTL exceeds the idle limit and the cutoff's lifetime is at
least a token's, as in the default settings. TLC evaluates them on every run.

**Only model-checked**: liveness (`SettlesOrIsAbandoned`, `DriftIsRepaired`,
`AccessIsLost`, `KeyIsFreed`, `GhostsVanish`, `RevokedIsClosed`), because TLAPS
does not reason about fairness and ENABLED here.

## 5. Disagreements between code and documentation

Each is a run that TLC must find violated; PROJECT.json quotes the text.

1. `cleanup_stuck`: a job whose worker met a database error or was shut down
   after the claim stays "running" for ever; the README promises retry and
   dead-letter. `run_once` selects pending jobs only.
2. `calls_leaver`: a member who leaves the room, or is removed by an admin who
   is neither owner nor initiator, stays in the live call, because the clean-up
   runs with the actor's permissions and raises 403.
3. `sessions_logoutall`: a refresh overlapping logout-all hands out a session
   that logout-all did not see.
4. `unread_undelete`: an edit, reaction, attachment or transcription that loaded
   a message before its deletion saves it undeleted.
5. `access_remove`: a rejected request can be answered again, so a pair may have
   two accepted requests; `remove_friend` deletes one of them and the users are
   still friends.

Other behaviour that the models reach and a reader may not expect. No document is
explicit about it, and most of it is listed among the hazards.

* Overlap breaks some of what holds without it. Two invites give a room two live
  calls; a join revives an ended call (`EndedIsFinal`); a stale batch starts a
  cleanup job during its backoff; the unread worker overwrites a counter with an
  outdated number; a promotion beside a removal leaves an admin who is no member
  (`RoomIsCoherent`); two users who ask each other at the same moment both have a
  pending request; an answer that overlaps a block is a friendship across it
  (`NothingAcrossBlock`); a `mark_read` that loaded a notification before its
  deletion inserts it again; a deletion that fails and puts a direct room back may
  leave a pair's clients with different rooms; and of two logout-alls the older
  cutoff may be stored last.
* An event published after a member's removal is sent to the removed member when
  a check that had read the room before cached its yes after the removal emptied
  the cache, or when the cache could not be emptied.
* An event of a room that a user cannot access closes the user's event socket,
  because the fan-out treats the missing access like a revoked token. Tests claim
  the contrary by implication only.

## 6. What is not modelled

* Cryptography (message encryption, password hashing, signatures), object
  storage, language-model calls and summaries, request and response schemas,
  configuration, health and logging: pure functions or I/O without protocol.
* The rate limiter: one atomic script and a comparison per request.
* Of rooms: name, avatar and per-user preferences, single updates that nothing
  else reads. Of the WebSocket handler: typing indicators, a key with a TTL.
* Privacy gates (`can_message`, `can_invite`, `can_call`): reads of settings and
  of the social graph that decide on a single request.
* History, search and cursors are reads. Publishing of events is left out where
  nothing depends on it; its delivery is `WsConnections`.
* A database error inside a fan-out, which the listener does not catch and which
  ends it: `WsConnections` has only the failures that are caught.

## 7. Plan

Done: the modules of section 2, and a proof of each invariant and action property
that the passing runs check. Left, in this order:

1. Safety halves of the liveness properties, as theorems: that the worker of
   `UnreadCounters`, run to its end without interference, leaves exact counters;
   that a socket whose token is revoked is closed or still before a check.
2. The other direction of `SingleSuccessor`: with slow requests, at most one
   successor per lock that was outlived.
3. A `MessageLifecycle` that joins message, index and cleanup job: an index
   document never outlives its message for good.
