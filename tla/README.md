# A verification development for the federation bot

The repository is a Telegram bot that runs a *federation*: groups connect to
it, and a ban, mute or warning issued by the federation's staff takes effect in
every connected group. The bot is one asyncio process (python-telegram-bot, with
`concurrent_updates(True)`) over a MongoDB database and an optional Redis cache;
a Flask thread beside it answers health polls. This directory holds TLA+ models
of the parts where the order of events decides what is right, the TLC runs that
check them, and TLAPS proofs of what holds for every size of the system.

## 1. Inventory

State a part keeps, what it does, what is hard about it, and what makes it
correct. "Here" names the module that covers it.

| Part | State | Operations | Hard behaviour | Correct when | Here |
|---|---|---|---|---|---|
| circuit breaker `utils/circuit_breaker.py` | `_state`, `_failure_count`, `_half_open_probe_in_flight`, `_opened_at` | `try_acquire`, `record_success`, `record_failure`, `release_probe`, `call`, `reset`, `state` | calls of different ages report to a circuit that has changed; the health thread writes it too | a reserved probe is always given back; it trips on time; it is left again | `CircuitBreaker`, proofs |
| dispatcher `utils/dispatch.py` | a semaphore per call, the shared breaker | `fan_out`, `throw_if_cancelled`, the error counters | cancellation in every position, `BadRequest` is a `NetworkError`, two batches share a breaker | refusals never cause skips, cancellation is never data, the probe is never leaked | `FanOut`, proofs |
| ban conversation `modules/banning.py`, `workflows/ban_flow.py` | PTB's conversation state, `user_data`, `_proof_sessions`, flush tasks | `/tcban`, confirmation, media, Done, Cancel, any command | Done, silence window, cap, cancel and a second command race; PTB stores states when handlers return | one ban per command, no session lost, collection ends, a cancelled session is never executed | `ProofSession` |
| ban execution `workflows/ban_flow.py`, `database/bans_db.py` | the `bans` collection | `_execute_ban`, `create_ban`, `update_ban`, pruning of duplicates | reads used seconds later, partly failing writes, interruption between record and fan-out | no chat bans without a record; while a record is active every chat is enforced or known to be missed | `FedBan` |
| unban `modules/unbanning.py`, `workflows/unban_flow.py` | the same | `execute_unban` | partial failure, groups-first order | no chat keeps a ban that nothing can lift any more | `FedBan` |
| join enforcement `modules/greeting.py` | none | `on_new_member`, `on_join_request`, `on_join_request_approved`, `on_left_member`, migration | stale reads across an awaited demotion, silent outages | a banned or muted user who joins is banned or muted there | `FedBan`, `Mute`; migration in `Connection` |
| sync `modules/syncing.py` | none between runs | `run_ban_sync`, `verify_user` | a cap on the cross product, failing pairs, bans that change meanwhile, restarts | a clean report is true; repeated runs converge when the cap suffices | `SyncSweep`, `FedBan` |
| group connection `connecting.py`, `disconnecting.py`, `connected_flow.py`, `groups_db.py` | `federated_groups`, `pending_joins`, prompts, `connected_cache` | connect, consent, replay, disconnect, migrate | updates about the bot handled in the wrong order, cached answers written after their rows, the group is listed while the bans are read | rows, cache and Telegram agree once all is handled; a connected group has every active ban and mute, or the miss is known | `Connection`; replay in `FedBan`, `Mute` |
| maintenance `maintenance.py`, `groups.py` | the same | leave all, clean up, list | leave and deactivate in parallel, one fails | no ghost group stays in the federation | `Connection` |
| appeals `appeals.py`, `appeal_*_flow.py` | review fields of `bans` | submit, cancel, approve, reject | two reviewers, two submissions, a claim after a post, cooldown, lock window | one pending review with a working card, a decided appeal stays decided, cooldown and priority window hold | `Appeal` |
| warnings `warnings.py`, `warning_flow.py`, `warns_db.py` | `warns`, `warn_counts` | warn, unwarn, reset, auto-ban, expiry | two collections written separately, rollbacks that fail | the counter matches the history, a limit that is reached is acted on | `Warns` |
| mutes `muting.py`, `muting_flow.py`, `mutes_db.py` | `active_mutes`, `mutes` | mute, unmute, expiry | two writes and an undo, a deadline that passes, joins and connections | no chat restricts without a record; a recorded mute holds in every chat | `Mute` |
| kicks `kicking.py`, `kicking_flow.py`, `kicks_db.py` | `kicks` | kick | a ban and an unban of one chat | the user may come back | the conversation in `ModAction` |
| reason conversation `reason_flow.py`, `proof_flow.py` | PTB's conversation state per chat, `user_data` per user | the conversation of mute, kick and warn | overlapping callbacks, Cancel against Done, failed prompts, two chats | what is cancelled is not executed, proof belongs to its action, a waiting chat has its data | `ModAction` |
| roles `admins.py`, `promote_flow.py`, `demote_flow.py`, `users_roles.py`, `queues_db.py` | admin, role and owner collections, request queue, cached roles | promote, request, approve, demote, transfer | a role cached for 60 s, insert-then-delete transfer, grant and verdict in two writes | one owner, no banned role holder, a request is resolved once | `Roles` |
| two-level cache `cache.py`, `redis_client.py`, `users_cache.py` | memory, Redis, locks, mutation chain | `get_or_fetch`, `put`, `invalidate`, `clear_all`, batched reads | invalidation racing a fetch, locks dropped while held, background Redis writes | an old copy has an overlap as its cause and is never renewed | `TwoLevelCache` |
| scheduler `scheduler.py`, `api/cron.py` | APScheduler jobs | start, stop, warn expiry, interval sync | start-up timeout, job stores, restarts | jobs run again after a restart | `SyncSweep`, `Warns` |
| database connection `mongos.py` | the client, the `mongodb` breaker | `db_call`, indexes | as the breaker | as the breaker | `CircuitBreaker` |
| authorization `decorators.py`, `identity.py`, `extraction.py` | rate windows | rank checks, limiter | cached roles | nobody acts on a superior | the rank checks in `Roles` |
| application `__main__.py`, `__init__.py`, `serverless.py`, `api/` | configuration | start-up, shutdown, wiring | - | - | not modelled: I/O and wiring |
| broadcast `broadcasting.py` | none | one confirmed `fan_out` | as the dispatcher | as the dispatcher | through `FanOut` |
| views, text, localization, logging | none that matters here | - | - | - | not modelled |

How the parts interact. Handlers are asyncio tasks; every update gets one, and
they interleave at each `await`. They share the database (through `db_call` and
its breaker), the two-level caches over it, module-level tables such as
`_proof_sessions`, and PTB's `user_data`. Everything that reaches many chats goes
through `fan_out`, which asks the `telegram` breaker before each call.
`_execute_ban` is awaited from the Done tap or from a session's flush task; the
executors of mute, kick and warn from the proof step of the shared conversation;
a warning at its limit writes a ban of its own. `execute_unban` runs from its
command and from an approved appeal; the join handlers, `/tcsync` and a group's
connection read the same ban and mute records and act in the same chats. A ban,
a mute or a kick demotes its target first, by the roles. The scheduler starts
sweeps and the expiry of warnings on a timer.

## 2. Modules

### CircuitBreaker

One action per operation. A caller of the breaker is a member of `Calls`;
`call[c]` says whether it is idle, was admitted normally or holds the probe.
`try_acquire` is `Admit` or `Refuse`; the three outcomes of `call` are
`RecordSuccess`, `RecordFailure`, `ReleaseProbe`, and none of them looks at who
reports, exactly as in the code. The clock is one bit: `cooled` says that
`_recovery_timeout` has passed since `_opened_at`. The health poll of
`alive.py` runs in another thread and reads `state`, whose test and assignment
are two steps there (`HealthTest`, `HealthStore`). The failure counter is
saturated at the threshold: nothing distinguishes larger values.

### FanOut

Two or more calls of `fan_out` over the groups, on the breaker they share
(`Breaker == INSTANCE CircuitBreaker WITH Calls <- Slots`). A slot is queued,
enters when the semaphore has room and is admitted or skipped, and ends with a
success, a network failure, a refusal or a cancellation; `Return` is the end of
`gather` with `throw_if_cancelled`. `ImplementsBreaker` says that this module
refines the breaker: one outcome is reported for each admission.

### ProofSession

The conversation of one moderator in one chat. Conversation states, `user_data`
(which command's keys it holds), the table `_proof_sessions` and the sessions
with their flush tasks are the state. PTB stores a handler's result when the
handler returns, so every handler is split at each `await` after which it
reads or writes shared state. `_execute_ban` is opened in FedBan; here only
whether it is running, wrote its record, or failed is kept. Times are kept as
what the code compares: whether media arrived since the window was last looked
at (`recent`), or the 60 s deadline has passed (`capped`).

### FedBan

One user, the ban records, the standing of the user in every chat, and every
handler that reads the one and writes the other: bans, unbans, joins, the
two-way check of `/tcsync <user>`, and a group's connection with its replay.
Each database or Telegram call is an action, may fail, and may have landed
although it is reported to have failed; a handler can end at any `await`. Two
history variables make the honest version of "every chat is enforced" statable:
`missed` holds chats where an enforcement was tried in vain or skipped,
`stuck` chats left banned when their record went away.

### SyncSweep

`run_ban_sync` for several users: the cross product of active bans (newest
first) and groups, cut at `MaxChecks`, worked off pair by pair, with outcome
counts and a report, while bans are issued and lifted. It is started by `/tcsync`
(`Commands`) or by the interval job. The job needs the scheduler, whose start,
readiness, failed start and stop are actions; a stop cuts off every run, and the
jobs' intervals begin anew with every start, because the jobs are in memory.
`undisturbed` and `allClear` are history: which runs met no ban or lift, and
whether the last such report was clean.

### Appeal

One ban and its review fields, the conversation of the banned user (deep links,
`#appeal` messages, cancel), the review cards in the main group and the taps of
the reviewers. A card is named by the message that posted it; `ban.slot` is
`review_message_id`. Message handlers are split at every database and Telegram
call: gates, stale clear, post, claim, deletion of a losing card. A decision is
split at its writes: the deactivation or `set_rejected_by`, then `clear_review`
and the card edit, one after the other when approving, in any order when
rejecting (a `gather`). A database call may fail with or without having landed,
an edit or deletion may fail, `Restart` ends every task and forgets
conversations. Times are the intervals the code tells apart: a review is
`locked` (12 h), `open` or `stale` (72 h), a rejection is `cooling` (24 h) or
`over`. `struck` records that a failed call cost a pending review its card: the
failed ban read that edits the card, a claim that landed although it was
reported as failed, a failed `set_rejected_by`.

`Routed` is the set of buttons that reach a handler. The documents give both
buttons data that the handler's pattern matches, and the run checks the handlers
on those terms; `keyboards.py` builds the Reject button with other data, which
no handler takes (section 4).

### Warns

The warnings of one user: the history and the counter of every chat, which are
written by separate calls. `execute_warn` inserts, counts, rolls back when counting
fails, reads the federation's total and bans at a limit; unwarn, reset and the
expiry job read, delete, recount. A task is a handler with its place in that
sequence; a `gather` runs its calls in any order; any write may fail with or without
having landed. Warnings are numbered by time, and `horizon` is the oldest that has
not expired. `doubt` collects the chats whose counter a lost write, an overlapping
repair, an expiry or a restart may have put wrong, and `excused` the limits that
have been reached, each chat's or the federation's, and that a reported failure, an
exemption or a restart has left unacted on; the next warning counted there takes
them out again. The properties say that nothing else goes wrong.

### TwoLevelCache

One key: the row (a version number), the entry in memory, the entry in Redis,
the lock the table holds, and the chain of background mutations. A reader takes
the lock, looks again, asks Redis, calls `fetch()` and stores; the batched
readers of `users_cache.py` ask without the lock. A writer changes the row and
then invalidates, puts, or clears everything. Redis calls may be lost, may be
given up by the client and land later, and either layer may drop its entry.
`acked` is the newest version whose writer has told the cache; an entry carries
as history since when it is there and what its reader had asked before.

### Roles

Owners, admins, the sub-role of one user, the two role caches (kept where they
are behind the rows), the queue of requests and their cards. Each handler reads,
then writes one collection after the other, and may fail or end in between.
`MayActOn` is the rank check of `decorators.py`, made on a possibly cached role.
The demotion before a ban, its second look before the fan-out and what both miss
are actions. `crossed`, `half`, `unsure` and `excuse` record the overlaps and
failures in which the code does not keep its promise (section 4).

### Connection

One group, before and after it becomes a supergroup, with its two ids: the bot's
standing there, the updates that Telegram has sent and nobody has handled, the
group's row, the pending request, the prompt, and the cached answer of
`is_connected`. The handlers are those of the module's header; updates are
handled in any order. `failed`, `late`, `crossed` and `poisoned` record, per id,
a failed write, a write made on an answer out of date, two writes at once and
the migration of an inactive row. `refused` holds the ids whose prompt was taken
away by a tap that decided nothing (not the owner's, or its lookup failed; nothing
is written then). A new prompt clears it, and so does a change of the bot's
standing: a promotion accepts a pending request without the prompt, so a tap
refused before it leads to no dead end.

### ModAction

The conversation that mute, kick and warn share, as one moderator leads it in
several chats. PTB stores the state of a chat's conversation when the callback
returns; what was entered is in `user_data`, once for all chats. Each callback is
split at its first `await`. `mixed` says that conversations overlapped, that an
entry or a reason overlapped other callbacks of its chat, or that an executor
raised, since everything was last clean. `_on_proof` asks for no target: a photo that
comes while a Cancel or an ending command is returning, its keys already cleared, is
kept in `items` as one of `NoEntry`, and goes to the next executor.

### Mute

One user, the active-mute row with its deadline, the restriction in every chat,
and the runs of mute and unmute, joins and connections. `missed`, `stuck` and
`raced` are as in FedBan, and a chat is `stuck` too when a timed re-mute ran out that
had not reached it, so that it keeps the earlier restriction; `outlived` holds chats that Telegram restricts for
good because the deadline it was given had (nearly) passed.

## 3. Runs

Each run checks deadlock unless it says otherwise: ProofSession turns the check
off because its moderator has a finite supply of commands, Mute because its runs
are finite in number, so these models may stop. `TypeOK` of every module is a
definition that was checked with its run while the module was written; all are
proved (section 5), and the runs spend their time on the rest.

| Run | Instance | Shows |
|---|---|---|
| `circuit_breaker` | 3 calls, threshold 2 (one call older than the outage, two that compete for the probe) | the flag has an owner, the circuit trips on time, an open circuit is left |
| `fan_out` | 2 batches, 2 groups, 1 permit, threshold 2 | skips need network failures, lists are complete, every batch ends, refinement of the breaker |
| `proof_session` | 2 commands, 2 sessions | one execution per command, no session lost, proof frozen once claimed, cancelled never claimed, collection ends |
| `fed_ban` | 1 ban, 1 unban, 1 primary chat, 1 group, up to 2 earlier records | fail closed, no unexplained gap, no unexplained leftover ban |
| `sync_sweep` | 2 users, 2 groups (the bot is powerless in one), a command and the job, cap 2 | a clean report is true; repeated runs converge, restarts included, when in the end the cap suffices |
| `appeal` | 2 deep links, 2 messages, 2 taps, 2 reviewers, 2 handlers at a time | one pending review with a working card, late taps decide nothing, priority window, cooldown |
| `warns` | 2 handlers at a time, 4 warnings (one in another chat), both limits 2 | counter and history agree, limits are acted on |
| `cache` | 2 readers, 1 writer of one version, 2 queued mutations | causes of stale copies, order of mutations, shared fetches, convergence |
| `roles` | founder, deputy, member; 2 handlers at a time, 3 in all; 2 requests | one owner, verdicts kept, no role for the banned |
| `connection` | 2 handlers at a time, 3 in all, 2 moves of the bot or migrations | no ghost, nobody dropped, cached answers agree, no request without a prompt but for a refused tap |
| `mod_action` | 2 chats, 3 callbacks at a time, 3 commands | cancelled is not executed, no proof of another entry, a waiting chat has its data |
| `mute` | 2 mutes, 1 unmute, a primary chat and a group, 2 handlers at a time | the record backs the chats' restrictions and they follow the record |

Bounds, and why they are enough. The breaker's interesting cases need one call
from before the outage and two contenders for the probe. FanOut needs two
batches (to share the breaker), and more groups than permits (to queue). In
ProofSession a second command and a second session suffice for every
"successor" case; a third adds no new relation between two sessions.
`other` allows one further handler in flight besides entries and Done taps.
FedBan's pairs of writers are all present with one ban, one unban and one chat of
each kind; `Earlier` lets the user start with two active records, which is all
that two overlapping bans leave behind. SyncSweep's cap holds one user's pairs
and cuts the second's. In Appeal two handlers run at a time, in every pairing;
two deep links allow a second appeal after the first is decided or stale. In
Warns two handlers overlap in every pairing and four warnings pass both limits,
so that a warning lands above a limit that was not acted on. The cache needs two
readers for its lock and one write to be stale; a queue of two has a mutation
that awaits another. Roles and Connection run three handlers, two at a time: an
overlapping pair and one that acts on what it left; two moves of the bot suffice
for two updates handled in the wrong order. ModAction has three callbacks at a
time: Done, Cancel and an entry. Mute's second run is the re-mute.
Symmetry is used for interchangeable tasks, chats and groups, in runs without
liveness only.

Fairness. CircuitBreaker: awaited calls end (client timeouts), time passes, and
some caller keeps asking. FanOut: the event loop runs ready slots and awaited
calls end. ProofSession: the loop wakes flush tasks and time passes; nothing is
assumed of the moderator. SyncSweep: whoever runs the bot starts it again (weak
fairness), it at times gets ready, and it is up for a whole interval again and
again (strong fairness of `IsReady` and `Fires`); runs go on, and Telegram does
not fail, nor a stop cut off, the same pair in every run (strong fairness of
`Enforces`). The assumption on the interval is a real one: a bot that is always
restarted before the interval has passed never sweeps (section 4).
TwoLevelCache: awaited calls end, times to live pass, Redis is done with every
command. The other modules state safety only.

## 4. Disagreements between the code and its documentation

PROJECT.json quotes them; none is demonstrated by a run, and the models do what
the code does. Where one would break a property, the property names the case.

- Breaker: more than one half-open probe (`circuit_breaker.py:13-14`); the
  health poll moves the circuit it must only look at (`alive.py:79`).
- Bans: "No ban was issued" after a ban was written (`banning.md:107`); a fan-out
  without an active record (`ban_flow.py:296-299`); a proof session that
  disappears while it is executed (`ban_flow.py:94-96`); the unguarded pop of
  `on_done_proof` (`ban_flow.py:779`); the unreachable failure branch of
  `execute_unban` (`unban_flow.py:113`).
- Sync: truncated sweeps start over from the first pair (`sync.md:86`); primary
  groups are never swept, although the unban's reply sends the operator there.
- Scheduler: jobs do not survive restarts, they start over (`scheduler.py:6`).
- Appeals: a Reject button that nobody handles (`appeals.md:122`); a second appeal
  that can never be decided, because `rejected_at` is never reset
  (`bans_db.py:232`); a review card that a failed read destroys
  (`appeals.md:174`); the effect of a failed `clear_review` the wrong way round
  (`appeal_review_flow.py:520`).
- Warnings: counters outlive the warnings they count; a missing counter starts
  at one; a counter without a history cannot be lowered; warnings are cleared
  when every chat refused the ban; an exemption reported as a demotion that did
  not happen; a failed read that makes a second ban record.
- Cache: two fetches of one key at once (`cache.py:310`); a miss between an
  invalidation and its Redis deletion revives the old copy.
- Roles: a failed approval that cannot be retried (`admins.py:1142`); a rejected
  request whose user is an admin; crossed transfers that leave no owner
  (`users_roles.py:99`); a demotion that leaves a second role
  (`demote_flow.py:190`).
- Connection: a disconnected group that migrates is answered as connected; ghosts
  from `/leaveall`, and its deactivation that lands when the bot is back and the
  group connected again (`maintenance.py:139`); a request that nobody can answer
  after a failed `add_group`; and one that nobody can answer after a tap that
  decided nothing. That tap is told "Only the group owner can decide"
  (`connecting.toml:43`), but has removed the owner's prompt, and the pending row
  makes `/tcconnect` refuse (`connecting.py:174`). The removal is documented
  (`docs/features/moderation/connecting.md:85`), its effect is not. `NoDeadEnd`
  without the exception `refused` is violated in the instance of `connection`.
- Conversations: an executor that raises leaves its chat waiting for proof
  (`reason_flow.py:412`); chats of one moderator share what was entered; "Remove
  all `{action}_*` keys from user_data on cancel" (`reason_flow.py:209`), but Cancel
  clears, then awaits: a photo that comes in between is stored, no command removes
  it, and the next one's executor is given it. `items` is not empty then although
  every conversation is over, in the instance of `mod_action` after a command, a
  Cancel and one photo.
- Mutes and kicks: a re-mute whose audit row fails deletes the record of the
  earlier mute (`muting_flow.py:207`); an unmute clears the record although chats
  failed; a kick lifts a federation ban in its chat.

## 5. Proofs

`CircuitBreakerProofs` proves, for every set of calls and every positive
threshold, type correctness, `ProbeHeldByCall` (a raised probe flag belongs to a
half-open circuit and to a probe call in flight) and `TripsAtThreshold`. The
three are inductive together (`IInv`). The argument for the flag: only `Admit`
raises it, in a half-open circuit and for the call it admits, and every action
that closes or opens the circuit, or ends any call at all, lowers it; the health
thread's late store can only make the circuit half-open. For the threshold: only
`RecordFailure` raises the counter, and the failure that reaches the threshold
opens the circuit, which is why the counter may be saturated there.

`FanOutProofs` proves for every finite set of batches and groups, every number
of permits and every threshold:

- `Implements`: a step of the dispatcher is a step of the breaker or none, so
  `Spec => ImplementsBreaker`, and with it the breaker's own theorems apply to
  the dispatcher (instantiated as `BP`, not proved again);
- `SkipsAreJustified`, `ListsAreComplete`, `IdleAdmitsProbe`, from the inductive
  invariant `DInv`: a slot in its call is a call of the breaker (`Linked`),
  slots of an idle batch are unborn (`Untouched`), a returned batch has no
  cancelled slot (`Complete`), and the failures the breaker counts, or that
  opened it, are network failures of slots (`Justified`).

`ProofSessionProofs` proves, for any number of commands and of sessions alive at
a time, `OneExecutionPerAttempt`, `NoSessionLost`, `ClaimedProofIsFrozen` and
`CancelledIsNeverClaimed`. A command is executed once for two reasons. A session
has one runner (`Claims`): whoever executes it set `flushing`, and no Done tap is
on a session that a flush task holds. And a command's keys go to one session
(`Keys`): while they are in `user_data` the session that took them is on the
table, every way off the table clears them, and a command stores them once. The
proof covers the case that an abort of a Done tap leaves a flush task without its
session, which then claims a later one. Nothing is lost because, short of such an
abort, a task sleeps only for its own session on the table (`Kept`).

`FedBanProofs` proves, for any groups and any number of bans, lifts, joins,
verifications and connections at once, `FailClosed`, `NoGap` and `NoOrphan`. None
is inductive alone. `NoGap` needs `Evidence`: while there is no record, no ban
runs past its write and no handler holds the answer "banned"; `FailClosed` is a
conjunct of it. `NoOrphan` needs `LiftKnows`, that a lift still knows every group
connected since it read the list, and has to be said of the chats outside of the
federation too (`Accounted`), since they may come in. The number of records is
bounded by counting the runs that have spent their write (`RecordTypes`).

`TwoLevelCacheProofs` proves, for any finite set of readers and any writers,
`MutationsAreChained` and `StaleIsARace`. That a dropped lock is replaced by one
that nobody holds is a counting argument (`UnusedLock`: one lock more than
readers). The bound on staleness needs `RaceInv`: acknowledged versions are in
the database, a writer has written what it is about to put, and what a fetch
read is at least as new as what was acknowledged when it asked. `OneFetchPerMiss`
needs `FetchInv`: a lock has one holder at a time, and as long as nothing was
lost (`split`), all slow readers are at one lock and a fetch that began is its
holder's or has left an entry that the others will find.

`RolesProofs` proves, for any users, any number of handlers at once and any
number of requests, `OwnerIsUnique`, `VerdictIsKept` and `BannedHoldsNoRole`. The
three parts of its invariant are independent: `OwnerInv` (one transfer at most is
about to delete the other owners, and its own is among them), `VerdictInv` (one
decision at most is on its way to a pending request) and `BanInv` (the only ban
knows the one role that its target may hold when it demotes again). Each is
conditional on the history variable that says the race documented in section 4
happened: what is proved is that nothing else breaks the property.

`ModActionProofs` proves, for any chats and any number of callbacks at a time,
`CancelHolds` (with `Cleared`: what was cancelled is not in `user_data`, so
nobody can take it for execution), `ProofIsItsOwn` and `ConversationHasItsData`
(with `Unmixed`: as long as nothing overlapped, a callback that may leave a
conversation open is alone, the data is that conversation's, and so is the proof,
but for what was sent while no entry was there). That the latter is never given to
an executor is not a theorem, since the code does it (section 4).

`SyncSweepProofs` proves `ReportIsTrue` for any users, any sequence of groups,
any number of overlapping runs and any cap. The invariant says that a run that
was neither cut nor met a failure still has before it every pair that needs its
ban (`Ahead`). That it starts so rests on lemmas about the product of bans and
groups, counted row by row with `\div` and `%` (`TakesAll`: a product within the
cap is taken whole), and on the list of bans having no user twice.

Four components have their proofs in the module of a component they work with,
which extends both models. The two share no variable, and what every module
defines carries the component's name in these four (`AppealInit`, `MuteNext`,
`ConnectionSpec`, `connectionVars`), so that each is proved by itself.

`FedBanProofs`, second part, is about Appeal, whose ban (`doc`) is one of FedBan's
records: `NoOrphanCard`, `PendingIsActionable`, `LateTapDecidesNothing`,
`PriorityWindow` and the action property `CooldownBinds`, for any messages, taps
and reviewers and any number of them at a time. The slot of the ban names a
message whose claim is over (`PastClaim`), so a review that a tap has read, and
that has ended since, cannot come back (`TapInv`); a message of the cooldown that
is past the gates passed them after it, and a card that waits for its claim is
untouched as long as the review is open (`MessageInv`).

`ModActionProofs`, second part, is about Mute: `RecordBacksMutes` and
`MutedEverywhere` for any chats and any number of mutes, unmutes, joins and
connections. As long as the row was not changed under a handler, whoever acts,
acts on the row (`ActsOnRow`), an unmute knows every restricted chat that it will
not have freed (`LeftKnown`), and a chat nobody is to look at any more is as the
row says or has a run that will see to it (`CalmIsSettled`). The restrictions are named by the run
that set their deadline, so Mute assumes that a run has none of the names it uses
for "none", "forever" and its placeholders (`MuteAssumption`).

`SyncSweepProofs`, second part, is about Connection: `NoGhost`,
`StaysConnected`, `AnswersAgree` and `NoDeadEnd` for any number of handlers and of
moves of the bot. Its base is a clock: an update, or a handler, that is not older
than the last move tells how the bot stands (`Clock`, `TaskClock`), and everything
older is `late` when it writes. On it rest three independent parts: `AnswerInv` (a
yes that is about to be put is right, a wrong one is about to be overwritten),
`MemberInv` (an active row without the bot has an update or a handler that will
see to it) and `EndInv` (a request without a prompt has a handler, or an update,
that will accept it, drop it or leave). `EndInv` was not inductive at first, and
the attempt found a run of seventeen steps, beyond the bounds of `connection`, in
which `/leaveall`'s deactivation lands after the bot is back in the group: the
model now calls that write late, and `NoDeadEnd` excepts, as `AnswersAgree` did,
two overlapping writes of the row. A refused tap is its other exception, of
`NoDeadEnd` alone and only as long as the bot's standing does not change and no new
prompt is sent (`refused`; section 4). The three other theorems do not depend on it.

`FanOutProofs`, second part, is about Warns, whose auto-ban calls the dispatcher:
`CounterAgrees` and `LimitIsActedOn` for any finite set of chats, any handlers, both
limits and any bound on the warnings. What the counter's agreement comes from is a
balance that holds in the middle of the calls (`Balanced`): the counter and the
warnings that running handlers have yet to count add up to the history and the
removals that only the counter has seen; or a handler is on its way to set the
counter right (`Unsettled`). Each step of a handler moves the two sides by the same
amount (`Tallies`), and a recount, a backfill or a deletion restores them only
because a handler that met nobody knows what it will find (`KnowsInv`), and two that
work on one chat know it (`MeetingInv`). An expiry deletes a counter by its own age,
hence `StaleInv`: a counter that is stale counts no warning younger than the
horizon. `LimitInv` says that a limit that is reached and not excused has a handler
that acts on this very limit (`Acts`): it is about to read the federation's total,
to ban, or to clear every counter since it has banned. The first attempt failed for
a good reason: `excused` named the chat whose ban had failed and the federation's
limit alike, and in an instance with two chats under command and a higher federation
limit a warning in one chat withdrew the excuse of the other, in eleven steps. The
limits are now told apart, only a limit that is reached can be excused, and
`LimitIsActedOn` no longer depends on `doubt`.

Every inductive invariant was also checked with TLC on the instance of its
module. Assumptions are the named ASSUMEs of the modules: positive
bounds, finite sets, disjoint kinds of chats, names that are not those of the
placeholders. The counters that bound the models (versions, queue length,
handlers, entries) are constants of the theorems like the others.

Only model-checked: all liveness (the provers do not reach it: `OpenIsLeft`,
`CopiesConverge`, `RepeatedRunsConverge` and the other temporal properties of the
runs). Every safety invariant and every safety action property of the runs is a
theorem.

## 6. Abstractions, and what is not modelled

- `active_groups` and `is_connected` are cached for about 30 s and invalidated by
  the writers of the same process. FedBan and Mute read the list as up to date;
  what the cache does with it is TwoLevelCache's, and Connection has the cached
  answer.
- FedBan, Warns and Mute follow one user; users share nothing but the breaker.
  TwoLevelCache follows one key, Connection one group, Appeal one ban.
- Identity checks before a ban, and the refusals of a command before any state
  changes, are left out outside of Roles.
- A sweep's counts are kept as "some failed" and "truncated". An administrator of
  a chat, whom neither a ban nor a sweep touches, counts as gone.
- Connection: the reads at a handler's start succeed (a failed one makes the
  handler refuse, or act as on an empty answer), and the log messages and titles
  are left out.
- Mute: deadlines are kept by which run set them; that Telegram takes under 30 s
  or over 366 days for good is `outlived`.
- Texts, links, keyboards and logs are left out.
- MongoDB's operations on one document are atomic, those on several are not
  assumed to be.

Not modelled: the rate limiter (a list of timestamps, read and written without an
`await` in between), the error reporter (a queue of messages to a log chat),
start-up, configuration and wiring, the views with their keyboards, texts and
localization, `/broadcast` (one `fan_out`), and `execute_kick` itself, whose row
nobody reads to decide anything. Target resolution (`extraction.py`) is parsing
and lookups.

## 7. What could follow

- Several processes on one database and one Redis, as the serverless deployment
  runs them: the caches of TwoLevelCache and the locks of ProofSession are per
  process.
- The serverless webhook, where background tasks end with the request.
- Proofs that the abstract promises of several components hold together: FedBan's
  groups with Connection's, Mute's joins with FedBan's. The models share no variable
  today.
