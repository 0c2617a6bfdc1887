# TLA+ models of TGhost

TGhost collects Telegram channels into PostgreSQL, helps to write posts in a
Studio backed by a language model, and schedules finished posts through the
owner's Telegram user session. This directory models the parts of it whose
correctness depends on order: commands, leases, retries, crashes, windows that
save over each other, and answers that arrive late or never. Paths below are
relative to the repository.

## Inventory

| Component | State | Operations | What makes it correct | Modelled in |
|---|---|---|---|---|
| Publishing queue (`app/publishing/repository.py`) | `scheduled_posts`: status, pending action, revision, lease, parts with message ids, snapshot and pending snapshot | `create`, `retry`, `command`, `resolve` (web); `claim`, `save_parts`, `finish`, `reconcile_rows`, `confirmed_update` (worker) | a status is a true statement about Telegram; a row is written only by who holds its lease or read its revision | PublishingQueue |
| Publishing worker (`worker.py`, `telegram.py`) | one coroutine under one `asyncio.Lock`; `account_id`, the row being processed and its local parts | `process`, `reconcile`, `update`, `refresh_permissions` | no message is sent twice; an ambiguous result is never reported as a failure that may be retried; every command settles | PublishingQueue |
| Publishing web (`routes.py`, `domain.py`, `media.py`) | the dialog, the idempotency key, images and their quota | `create`, `upload`, `edit`, `cancel`, `resolve` | a repeated request is one post, of what the owner confirmed, due when the owner meant; the quota holds | Drafts, ScheduleTime, PublishingQueue |
| Studio runs (`app/studio/service.py`, `repository.py`, `routes.py`) | `studio_agent_runs` with worker and lease, `studio_run_events`, the in-process registry and slots, the event stream | queue, retry, claim, renew, stream, cancel, finish, sweep | one answer per request, an end that is recorded, true and kept, slots come back, every run ends | RunLifecycle |
| Drafts (`app/studio/repository.py`, `drafts.py`) | `studio_drafts`, `studio_draft_versions`, `studio_media` | create, save, save as version, choose, revise, attach, delete | a row shows its version, nobody's text is replaced unseen | Drafts |
| Conversations | `studio_conversations`, messages | append, delete, purge of a channel | a message and its run appear together; a deletion takes nothing that was accepted | RunLifecycle, Drafts |
| Agent and tools (`app/studio/agent.py`) | what a run must have done, its searches and refusals, calls in flight | eleven tools, contract, budget | the tools of one turn share evidence without undoing each other | Research, References |
| Research (`research.py`, `search.py`, `sources.py`, `provenance.py`) | evidence in memory with a lock, `studio_sources` | search, read, compare, load, persist, confirm claims | a claim called verified was checked against an article that was read | Research |
| Reference channels (`references.py`) | `studio_conversations.reference_channels`, the panel | list, set, require, search, read | a run reads only what was permitted to its configuration | References |
| Model connection, consent (`connections.py`, `consent.py`) | OAuth record, pending sign-ins, `provider_consents`, the copy a run works with | sign in, callback, disconnect, refresh, grant, revoke | one refresh at a time, the account is the owner's choice, no use without consent | Connections |
| Workspace settings (`workspace_settings.py`) | the table, the store's copy in memory | load, `set_many` | writers under the lock see what is stored | Connections |
| Channel profile and system prompt (`profile.py`, `semantic_profile.py`, `ChannelProfileDialog.tsx`) | `studio_profiles` with a version, a text without one, the dialogs | open, edit, build, save, resolve a conflict, analyse | nothing is replaced that its writer was not given | Profiles |
| Collector (`app/collector.py`), jobs and channels (`app/postgres_db.py`) | `channels`, posts, comments, `collection_jobs` with a lease; entities and the flood-wait deadline in memory | claim, renew, scan, sync comments, retire, finish, expire; add, stop, delete a channel | one scan per channel, only what is gone is retired, every channel is collected | CollectionJobs |
| Process roles (`app/main.py`) | start and stop of worker and collector | | leases outlive processes and run out | CollectionJobs, PublishingQueue |
| Session encryption, bot, dashboards, exports, migrations, markdown, scripts | | | no order-dependent state of their own, or outside the reach of a model checker | |

How they interact: web requests only write PostgreSQL rows. The publishing worker
(in the same process in the `all` role, or its own) reads them, talks to Telegram,
and writes rows back; the update handler of the Telegram client is a third actor;
it and the loop of `run()` share the worker's lock, but not with the web. The
collector shares the Telegram client and the process with the worker. An agent run
works with a copy of the settings made when it starts, after a check of consent; it
writes drafts that the owner's tabs edit at the same time; a draft becomes a
scheduled post by a confirmation dialog. Reference channels and consent are
granted to a configuration, which sign-in, disconnection and settings change.

What is hard here: commands of the web interleave with every await of the
workers; a reply of Telegram may be lost, late or unusable after the request took
effect; a process may die between an effect and its record; a lease may lapse
under a worker that is only slow; rows are read, awaited over, and written, by
tabs, tools and scans; a permission is checked long before it is used.

## Plan

Done: `PublishingQueue` with `SchedulePromise`, `RunLifecycle` with `RunPromise`, and
`CollectionJobs`, each with its proofs; the modules of the workspace, composed by
`MCWorkspace`: `Drafts` (drafts, scheduling, uploads, deletions) with `DraftsProofs`,
`Connections` (settings, sign-in, refresh, consent) with `References` and
`ConnectionsProofs`, `Research` with `ResearchProofs`, `Profiles` with
`ProfilesProofs`, `ScheduleTime`; `WorkspaceProofs` about it and about all of them
together.

Proved: every safety property that a run checks, and both refinements.

Left: the revision that a calendar form carries, on an instance of the queue small
enough for it.

## Modules

### PublishingQueue

State. `row` is the table `scheduled_posts`; a row's `ids`, `pubs` and `cans` are
the parts with a `scheduled_id`, a `published_id`, a `cancelled` mark, `seen` the
text and date that were stored with each part, `snap` what `snapshot` and
`scheduled_at` show, `pend` the pending pair. `wk` holds each worker process: where
its lock-holding coroutine stands and its local variables. `permission` is
`publishing_channels`. `queue`, `published`, `deleted`, `net` and `notices` are
Telegram: its schedule queue, the history of what left it, the requests and the
updates under way. `asks` and `resolved` are history variables.

Actions, by the code they stand for:

| Actions | Code |
|---|---|
| `Create`, `Retry`, `CommandCancelQueued`, `CommandCancel`, `CommandUpdate`, `Resolve` | the web's transactions in `repository.py` |
| `Start`, `Crash`, `RefreshPermissions`, `PermissionAges`, `LeaseLapses` | process life, the two clocks that matter |
| `Claim` | `claim`: dead leases go to review and the oldest command is taken, in one transaction |
| `Preflight`, `Send`, `Accepted`, `Edit`, `Verify`, `Cancel`, `Gone`, `Confirm`, `Timeout`, `Fail` | `process` cut at its awaits: everything before a request, the record of its reply, the checks after it, the `except` branch |
| `ServeSend`, `ServeEdit`, `ServeDelete`, `Refuse` | what Telegram does with a request, also with one nobody waits for any more |
| `Publish`, `ExternalDelete`, `ExternalEdit`, `LoseNotice` | what happens in Telegram by itself or by another client |
| `ReconcileRead`, `ReconcileRow` | `reconcile`: the rows are read, the history is read once, each row is written by `confirmed_update` |
| `UpdateRead`, `UpdateRow`, `BatchDone` | `update`: the handler of UpdateDeleteScheduledMessages |

Abstractions, each chosen so that no property can tell the difference:

- A revision is never reused, so "the row has the revision I read" is "nobody
  bumped it since". A bump takes the post out of every batch of rows a worker has
  read. A web command with an older revision changes nothing and has no action.
- A lease token is the worker that claimed the row: a worker processes one row at
  a time and forgets the token when it ends or dies.
- Text, caption and date of a version are one value; `Slot` gives its date.
- The clock is nondeterminism: a lease lapses, a permission ages, a date becomes
  too close, a message is published, whenever the guard allows.
- The checks before the first request (channel, right, peer, limits) are one
  verdict. The history read of `edit`, `cancel`, `Verify`, `Gone` and `Confirm` is
  one step with its comparison, apart from the request: between the check and the
  effect anything may happen.
- A database call that raises out of `process` ends in `run()` with the lease
  still held, which is `Crash` followed by `Start`.

### SchedulePromise

What the calendar promises, with no lease, request or batch: which status may
follow which, which of them are claims about Telegram (`scheduled`: all messages
were handed over; `failed`: none was; `published`: all were published), and that no
message is handed over twice, or behind a post shown as untouched. The refinement
shows every row's status, counts hand-overs with `asks`, and takes `published` as
it is. `KeepsPromise` is the abstract specification.

### PublishingQueueProofs

For every value of the constants: types, the inductive invariant with the invariants
that follow from it, the action properties and the refinement, and, in its second
half, what rows and workers know of Telegram.

### MCPublishingQueue, MCPublishingScenarios

The instances: one post of a photo and a separate text, one text post.
`MCPublishingScenarios` runs the first of them in two scenarios, chosen initially:
one worker process with everything else the instance has, or two processes that
overlap, with one text and account, and one crash or edit from outside.

### RunLifecycle

State. `run` is the table `studio_agent_runs`; `log` and `said` of a row are the
events that end it and its assistant messages. `convs` is `studio_conversations`,
`latest` the last run created in each. `task` holds for each run what one process
has in memory: where the request handler and then the asyncio task stands (`pc`,
named for the call it awaits), the watchdog, the `RunHandle` (`active`, `reason`),
a `CancelledError` on its way (`kill`), the event stream and the final events put
into it. `slots` is `RunCoordinator.active` of each process, `canc` the cancel
endpoint.

| Actions | Code |
|---|---|
| `Send`, `Retry`, `Begin`, `SetupFails`, `SetupBreaks`, `Attach` | `stream_request` around the task: the message and its run are stored, the handle is made, the model prepared, the task started |
| `Claim`, `AcquireSlot`, `SaveArtifact`, `EndStream`, `SaveReply`, `Succeed` | the body of `execute_run` |
| `OnCancelled`, `LogCancelled`, `EndCancelled` | its `except CancelledError` |
| `OnFailure`, `SaveFailure`, `LogRecovered`, `EndRecovered`, `LogFailed`, `EndFailed`, `EndUnsaved` | its `except Exception`, with a saved draft and without |
| `Unclaimed`, `ReadEvents`, `LogNotice`, `SaveNotice` | `emit_terminal_notice`, for a run that someone else ended |
| `Close` | its `finally` |
| `Raise`, `Killed` | the call a task waits for raises, or the task is cancelled there |
| `WatchdogSees` | `_watch_run_control` |
| `CancelReads`, `CancelRequests`, `CancelSignals`, `CancelEnds`, `CancelLogs`, `CancelBreaks` | `cancel` |
| `Sweep`, `LeaseLapses`, `DeleteConversation`, `Crash` | `mark_stale_runs_interrupted`, the clock, `delete_conversation`, the end of a process |

Abstractions:

- A task is cut at its awaits. `Effect` says what the awaited call does to the row.
  A call that returns has done so; one that raises, or that is cancelled, has or has
  not. The code after a call up to the next await belongs to the step of the call.
- What is raised goes where Python takes it: from the body to one of the two
  handlers, from a handler to the `finally`, before the `try` out of the task.
- A run id is used once, and each task draws a `worker_id` of its own. So "the row
  carries my worker_id" is "I claimed it", and `RunClaimLost` is never raised.
- The registry holds a handle per run; that it forgets old inactive ones changes
  nothing. `archive_conversation` has no caller.
- Leases and the grace of a queued run are nondeterminism. A lease may lapse at any
  time, under a worker that is only slow as well.
- Of the provider, its tools and the stream it is kept that they go on, save a draft,
  end, or raise.

A second cancellation, of the watchdog or of another request, can reach a task that
handles the first one. The task then ends without writing its end, and the row stays
active until a Studio page is opened and the sweep finds its lease lapsed. `RunsEnd`
therefore rests on the sweep.

### RunPromise

What Studio promises about the runs of a conversation, with no task, lease, slot,
watchdog or process: a message is carried out by one run at a time and answered
once; a run that was asked to stop before it started does not start; how a run that
started ended is final, except that an interrupted one may still come to its own
end; what its stream reported last is true of it. The refinement shows a run's
status (`new` before it exists, `gone` after it), its conversation, its request,
whether it was claimed, the wish to cancel, and the final events put into its
stream. `KeepsRunPromise` is the abstract specification.

### RunLifecycleProofs

The invariants of the runs and the refinement, proved, with what follows from it.

### MCRunLifecycle

The instances, with the symmetry of runs and of processes that the safety run uses.

### CollectionJobs, MCCollectionJobs

State. `tg` is Telegram: the messages of each channel and their comments. `chan` is
the table `channels` with the posts and comments of each row, `job` the last row of
`collection_jobs` of each channel and process with whether its lease has lapsed.
`proc` is what a process remembers (entities, the flood-wait deadline), `scan` where
`poll_all` and `poll_channel` stand with their local variables. `alone`, `calm` and
`quiet` are history: no scan of the row overlapped; nothing changed on Telegram; since
the thread was fetched nothing changed in it and no other sync was in it.

| Actions | Code |
|---|---|
| `Start`, `Stop`, `Crash` | `amain` up to the scheduler, its shutdown, the end of a process |
| `Begin`, `SkipInFlood`, `Claim`, `ClaimBreaks`, `Finish`, `FinishBreaks`, `EndCycle` | `poll_all` around a channel |
| `Resolve`, `Fetch`, `Store`, `ReachCutoff`, `FetchThread`, `StoreComment`, `RetireComments`, `SkipThread`, `Retire`, `FloodWait`, `ReadBreaks`, `ResolveBreaks` | `poll_channel` and `sync_comments` cut at their awaits, with their errors |
| `AddChannel`, `DeactivateChannel`, `DeleteChannel` | the owner's routes |
| `Publish`, `Remove`, `Comment`, `LeaseLapses`, `FloodPasses` | Telegram and the clocks |

Message ids grow with dates, so a cutoff is an id; text and metrics are left out.

### CollectionJobsProofs

The safety properties of the collector, proved.

### Drafts

A transaction that reads under a lock and writes in a later statement is two or
more steps: it sits in a slot `req[q]` from its first lock to its commit, and the
locks are what the open slots hold; `Abort` is all that rolls one back. `draft`,
`versions`, `image`, `stored`, `active`, `chat`, `channel` and `post` are rows;
`tab` and `dialog` what a tab and a confirmation dialog were given; `told` the last
answer to a scheduling request. The route resolves the time, with its lead of two
minutes, before anything is looked up, so at any time the answer may be "late"
(`TooLate`), for a request whose post exists too. Of the calendar's edits only those
of a failed post are here (`Retry`, with the text and time confirmed); the others
are commands of `PublishingQueue`.

| Actions | Code |
|---|---|
| `CreateDraft`, `Load`, `LoadActive`, `Save`, `Conflict`, `Revise`, `AgentSave`, `CommitWrite`, `Choose`, `CommitChoose` | creation, the editor's reads and saves, the agent's writes, the choice of a version |
| `Upload`, `MeasureSpace`, `CommitUpload` | an upload, its lock on the workspace row and the sum under it |
| `Confirm`, `TooLate`, `Schedule`, `Repeat`, `LockDraft`, `RefuseSchedule`, `InsertPost`, `CommitPost`, `Retry`, `Settle` | the dialog, `create` with its idempotency key, what the worker makes of the post |
| `DeleteConversation`, `Purge`, `CommitPurge` | deletion of a conversation and of a channel |

### DraftsProofs

The safety properties of `Drafts`, proved.

### Connections

`saved` is the table `workspace_settings`, `cached` the store's copy, `loading` what
a collection cycle has read and not yet put in place. `attempt`, `listed` and
`since` are sign-ins, `lock` the run that refreshes under the connection lock,
`page`, `consent` and `confirmed` the disclosure and what was granted, `agent` the
runs with the consent they passed and the copy they use. `issued`, `old`, `spent`
and `lost` are about refresh tokens. What happens under the lock without an outside
call is one step; the check of a run's consent and its copy of the settings are
two, because the request's body is read between them.

### References

The panel's offer, the route's consent check, the look for an active run, the write
under the conversation's lock and the reads of a run are separate steps, composed
with those of `Connections`: a run that ends takes its reading with it, a restart
takes the requests. `raced` holds the runs that began between a look and its write.
`ConnectionsProofs` holds the proofs about both modules.

### Research

`known` and `bundle` are a conversation's evidence in memory, `rows` its table,
`call` the tool calls of a turn, which run at the same time, `work` the contract of
the run, `artifact` the draft's claim. A call goes through `asked`, `load`,
`loaded`, `persist` and `write`, cut at its awaits; what happens under the service's
lock is one step. `fetched` and `latest` are history. Eviction, a restart and a
failing write of rows may come at any time.

### ResearchProofs

Types and `ClaimsWereRead`, proved.

### Profiles, ProfilesProofs

`profile` with a version and the dialog of each window with what it was given
(`base`), what it reports as a conflict (`other`) and its text; `save` is a request
with the row it is to replace. The prompt is a text compared with the text expected.
`ProfilesProofs` has types and `NothingUngivenIsReplaced` for every number of
windows and requests.

### ScheduleTime

The time of one post. `form` is the dialog (date, zone, the occurrence chosen of a
time that occurs twice, whether it asks for one), `due` the row with `scheduled_at`
and `pending_at`, each beside what was entered for it, `transfer` the worker,
`reached` the request that reached Telegram last. `Wall` and `Resolve` are zoneinfo:
of a skipped local time nothing is assumed, so the check that the instant shows what
was entered carries the proof.

| Actions | Code |
|---|---|
| `SetDate`, `SetZone`, `SetFold`, `EditAgain` | the fields of `ScheduleDialog` and `PostDialog` |
| `ConfirmTime` | `create` and `edit` with `local_to_utc`, and the row that `create`, `retry` and `command` write |
| `BeginTransfer`, `SubmitPost`, `SubmitEdit` | the three places where `validate_future` is asked again or a request leaves |
| `Arrive`, `GiveUp`, `Straggle`, `Pass` | Telegram takes the request, the worker's call ends without it, it is taken later; time |

### WorkspaceProofs

First `ScheduleTime`, then the composition `MCWorkspace`: it implements the
specification of each part, so all that is proved of the parts holds in it.

### MCWorkspace

One instance of these six modules. Their tables do not meet (Connections and
References do, and are composed), so a behaviour is of one *part*, chosen
initially, and `...Within` says which details a part leaves out:

| Part | Instance |
|---|---|
| `edit` | two tabs and the agent on one draft with an image: saves, versions, choices |
| `schedule` | one tab, the agent, one dialog with two times, a retry (after which the tab does nothing more), deletions of the conversation and the channel |
| `space` | two uploads to two drafts with room for one image |
| `signin` | three sign-ins, two accounts, disconnections, provider changes |
| `consent` | one run from its request to its end while settings, account and consent change, an old collection read included |
| `refresh` | two runs with one account whose access runs out; answers lost |
| `reference` | one run, two panels, two channels, room for one reference |
| `evidence` | two calls on one source with two articles, pages that change or are blocked |
| `contract` | one call at a time through all contracts, refusals, claims, a restart |
| `limit` | two sources with room for one, overlapping with persisted rows |
| `profile` | two windows, two saves, a build, an analysis; texts with and without blank lines |
| `prompt` | two windows, two saves |
| `time` | one post, a zone whose clocks go back and one whose clocks go forward, both sides of the change |

## Runs

| Run | Instance | Shows |
|---|---|---|
| `publishing_safety` | one post of two messages; one worker and two accounts, or two workers and one | the statuses are true statements about Telegram, across a crash, lost and unusable replies, edits and deletions from outside; nothing goes through a foreign account; the queue implements `SchedulePromise`, also when a lease lapses under a worker that goes on, and so reopens no ended post; late updates overwrite no command |
| `publishing_live` | one text post, fairness | every command settles; the calendar catches up with what vanished or was edited in Telegram |
| `publishing_cancel_race` | as the first | expected violation: a message published between the check and the deletion is recorded as cancelled |
| `publishing_no_account` | as the first | expected violation: a failed `get_me` at start puts intact schedules up for review |
| `runs_safety` | two runs of one conversation, one process, one slot | the runs implement `RunPromise`: one answer per request, ends that are true and kept; ends are recorded, slots come back; through a cancel request, sweeps, retries, a deletion and database calls that fail anywhere |
| `runs_live` | one run, two processes, two cancel requests, a crash, fairness | every queued run comes to an end |
| `runs_stream` | as `runs_safety`, with a reliable database | expected violation: a run cancelled before its task has started leaves a stream that never ends |
| `collection_archive` | one channel of three posts, two collectors, a read capped at two, cutoff or none, one fault, one change | a scan that has the row alone, or meets no change on Telegram, retires what is gone and only that; a job is lost only after its lease lapsed |
| `collection_live` | one post with a comment, two collectors, a flood wait or a crash, fairness | a sync that has a thread to itself puts right whatever earlier and overlapping syncs did to its comments; an active channel is scanned again and again |
| `collection_resolve` | one channel with two rows in sequence | expected violation: a channel purged and added again is polled and never resolved |
| `drafts_deletion` | one draft, one dialog, two open requests | expected violation: a failed post that is retried while its channel is being deleted goes with it |
| `workspace` | `MCWorkspace`, thirteen parts | see the properties of `Drafts`, `Connections`, `References`, `Research`, `Profiles` and `ScheduleTime` |

Bounds of the publishing runs. `MaxCommands = 2` owner commands after creation let a
retry, an update or a cancel follow each other, or an update follow an adopted edit;
`MaxEdits = 1` and `MaxCrashes = 1` let one crash and one foreign edit fall between
any two steps. Two messages of different kind are the smallest post with a partial
transfer, and with an order between album and text; two workers are enough for a
stale holder and a new one. Where two workers overlap, a crash and a foreign edit do
not both happen, and there is one version and one account: one that stalls for ever
already stands for a crashed one, and what versions and accounts decide concerns a
single worker. Two versions let a snapshot be wrong. Telegram's own
steps are unbounded. Deadlock is checked in these runs: there is always a worker
that can start, read or be told.

Bounds of the Studio runs. Two runs of one conversation are a request and its retry,
or its successor, and the worker of the first may come back after the second has
begun; with one slot the second has to wait. Database calls may fail at every step.
The safety run has one process and no crash, because a crash only removes a task,
while two processes differ for cancellation only, which `runs_live` explores with a
request from each. There is one run in the liveness instance: a run waits for
another only at a slot, and `SlotsAreReturned` with the fairness of the holder gives
the slot back. Symmetry is declared for the safety run alone. Deadlock is not
checked: once all runs have ended, or the conversation is deleted, nothing is left
to do.

Bounds of collection. Three messages with a page of one and a cap of two are the
smallest archive in which a read ends before the oldest post, a cutoff lies between
posts, and a post can vanish before, inside and below what is read. Two collectors
are an old process and its successor. The liveness instance has one message with a
comment that may come, go and come again (`MaxEdits = 2`). Deadlock is not checked:
a deactivated channel leaves nothing to do but time. Symmetry of collectors is
declared for the safety run alone.

Bounds of the workspace. `MaxRevision = 4` lets a save, a version and a choice follow
the creation; two open transactions are the smallest lock conflict; one image in
space for one makes a second upload fail. Three sign-ins are one before a
disconnection, one after it and one of another account; three tokens a sign-in and
two refreshes. Two texts of a page let a re-read differ; one kept source makes the
second push out the first. Two versions of a profile are what a dialog was given
and what came in between. Seven instants with a clock change among them leave room
before it for a lead of two, a timeout of one and uploads that take longer than the
lead; only the two local times at the change are entered. Deadlock is not checked: a bounded part ends.

Fairness of Studio runs, in `RunLifecycle!FairSpec`: asyncio resumes a handler, a
task or an endpoint whose call has ended; `run_stream` is bounded by
`RUN_TIMEOUT_SECONDS`; the lease of a task that is gone lapses; a Studio page is
opened some time, which is when the sweep runs (`routes.py:423`). Neither the
watchdog nor a cancel request is assumed to happen.

Fairness of publishing, in `PublishingQueue!FairSpec`: `run()` claims in each cycle and reconciles every 30
seconds, and an `asyncio.Lock` serves its waiters in order, so updates cannot keep
the loop out: strong fairness of `Claim` and `ReconcileRead`, weak fairness of each
process's own steps. A process that ended is started again by its supervisor. Time
passes, so leases lapse. A history that is asked for again and again is read some
time (strong fairness of `ReadHistory`). Nothing makes Telegram reply: a request
without an answer ends by `Timeout`, as `mutate` does. The history reads have no
timeout in the code; that they return is part of the assumption.

Fairness of collection, in `CollectionJobs!FairSpec`: compose restarts a collector
that ended (`restart: unless-stopped`), the scheduler starts a cycle every few
minutes and a cycle goes on; a flood wait ends; a lease that no scan renews runs out.
Nothing makes Telegram answer: a call may fail instead. The number of faults is
bounded, so the property says that no finite number of them stops a channel for
good.

The workspace has no liveness property: its requests are a user's, who may stop.

## Findings

- *A published message recorded as cancelled.* `cancel` (`telegram.py:121-129`)
  cannot tell a deletion from a publication: a message published between its two
  history reads is gone from the second. The update that names the publication
  finds the row with a pending action or already cancelled and is dropped. The
  run `publishing_cancel_race` gives the trace; `docs/publishing.md:18` promises
  that every constituent message is cancelled.
- *A failed get_me puts every schedule up for review.* `load_limits` sets the
  account before it reads the limits; when its first call fails, `run()` warns that
  caption limits are unavailable (`worker.py:176`) and goes on with `account_id`
  `None` until the process restarts. The run `publishing_no_account` gives the
  trace.

- *A stream that never ends.* A run cancelled between `registry.begin` and
  `registry.attach`, while its model is being prepared, has its task cancelled before
  the task's first step. asyncio then runs none of `execute_run`, not even the
  `finally` that puts the last item into the queue; `event_stream` waits for ever and
  the registry keeps the handle as active. The comment at `service.py:1192` expects
  the cancellation of a run without a stream to be complete, and
  `tests/test_fix_t25.py:100` that the stream of a run ended elsewhere closes with a
  notice. The run `runs_stream` gives the trace.

- *A channel that is never resolved.* `resolve_entity` returns a remembered entity
  without writing `chat_id`. A channel deleted and added again in the life of one
  process keeps a NULL `chat_id` through every successful poll; the comment at
  `postgres_db.py:388` says the next poll resolves it. The run `collection_resolve`
  gives the trace.

- *A retried post deleted with its channel.* `delete_channel` counts the posts in
  flight under a lock on the channel's row and then deletes all (`postgres_db.py:466-470`).
  A new post needs that row for its foreign key and waits; a retry only updates its
  own row, so a failed post that is queued again after the count is deleted in
  flight, perhaps after the worker has handed it to Telegram. `docs/publishing.md:34`
  says that deletion is blocked until active schedules are resolved. The run
  `drafts_deletion` gives the trace; `AcceptedIsKept` and its theorem are about every
  other post.

Seen while reading, with no run of their own, as they lie outside what is modelled
or as no line of the repository says otherwise:

- The purge of a channel leaves images without a draft, which still count against
  the quota.
- A scheduling request repeated for a draft deleted meanwhile is answered 404 though
  its post exists, and one repeated less than two minutes before its time is told
  that nothing was published, as the lead is checked before the key is looked up
  (`publishing/routes.py:126`, `TooLate`).
- Two syncs that are in one thread at the same time can each retire what only the
  other saw, and a scan can retire a post that another scan stored after the first
  had read past it. What Telegram shows returns with the next sync or scan that is
  not disturbed, which is what `ThreadIsFaithful` and `ScanIsFaithful` say.
- `list_draft_versions` omits `media_ids`, so `/media?version=` is always empty
  (`publishing/routes.py:95-107`).
- `choose_draft_version` and the agent's `save_draft` keep `verified` flags while the
  text changes; `drafts.py:60-62` says any edit of the owner's clears them.
- The settings store's unlocked `load` can put older rows over a newer `set_many`,
  until the next load (`Connections` models it).
- Consent is checked before the request's body is read and the settings are copied
  after it, so settings that change in between are used unconfirmed (`moved`).
- A reference request looks for an active run before it writes (`raced`), records
  the configuration live at the write, and the panel keeps its permission ticked
  when the configuration has changed.
- After a restart a search that comes before any load sets the bundle, so persisted
  sources are not loaded in that process; a failed re-read replaces an article's
  text; a failed or an overlapping write can leave older rows.
- A save of the profile answers with the row as it is then, perhaps another window's
  newer version; text typed meanwhile stays, so the next save replaces words that
  the dialog never showed. (`NothingUngivenIsReplaced` holds: the dialog had been
  given them.)

- The dialog keeps a chosen occurrence when the date is changed or the post edited
  again, and only a change of zone drops it: another time that occurs twice is then
  accepted without being asked about, where `docs/publishing.md:14` says that such
  times require selecting one. `DueIsMeant` takes the kept choice for the owner's.
- `edit` checks the lead and then awaits the history, without a timeout, before its
  request leaves; `docs/publishing.md:14` has the check immediately before each
  operation. A message still in the history is not due yet, but the new time may
  have come; `NothingIsSentNow` is therefore about schedules.

## Proofs

`PublishingQueueProofs` proves `TypeCorrect` first: `Spec => []TypeOK`. `TypeOK`
alone is not inductive: the goal of a claimed update is the row's pending value, so
the invariant carries `PendingInv`, that a row with an update pending has one. The
argument is one lemma per action group, on lemmas that say what each shared row
update returns. It rests on `ConstantsAssumption` and `NoneAssumption` only: posts
and parts are numbers, each post has a part, and `None` is none of the values it
stands for the absence of. Nothing is assumed finite.

It then proves `Inductive`: `Spec => []IInv`. None of the safety properties is
inductive by itself. That nothing is resent needs to know that what a sender has not
sent was never sent by anyone (`SendTrue`), which survives another worker's send
because no two workers transfer the same post (`OneSender`), which survives a claim
because only a `queued` row is claimed for a transfer, a transferring row is leased
(`CommandMatches`), and a lapsed lease ends the command and never requeues it.
`RowTrue` relates each status to what was handed over and published; `JobTrue` says
which steps a worker's action may be at, and that the row still carries the action
while the worker holds the lease; `BatchTrue` that a batch holds only rows as they
were read; `NetInv` that Telegram knows only what it was asked to take and that a
worker with a request under way is waiting for it. From `IInv` follow
`NothingIsResent`, `RetryIsSafe`, `PublishedIsTrue` and `CommandAndStatusAgree`.

The layout. A step concerns one row and one worker, so the first lemmas say what is
kept by whoever is left alone: `WorkerKept` (a worker whose job, ids and batch rows
are as before), `NetKept`, `NetOrphaned`, `NetAsked` (requests answered, abandoned,
added), `RowWritten` and `OneRowStep` (one row replaced by one that says the truth).
Then there is one lemma per action, and `RestStep` puts them together.

It also proves the two action properties (`EndsStay`, `CommandsStay`) and the
refinement (`PromiseKept`). `EveryoneTells` shows that every row change is a turn of
the promise: the owner's guards name the status; a finishing worker's lease and act
name the row's command and so its status; a batch row has no command.
`HandedOrPublished` shows that messages are handed over, and published, in steps
that write no row.

The second half of the module proves what the statuses say of Telegram:
`AcceptedBeforeScheduled`, `CancelledIsGone`, `CalendarIsConfirmed` and
`AccountIsOwn`, from `TelegramIsKnown`: `Spec => [](IInv /\ Fine)`. `Fine` has a
part for each holder of knowledge: a row's ids, marks and texts (`RowFine`), what a
worker has written into the row it holds the lease of and what is left to do
(`Written`, `JobFine`), the requests and notices under way (`NetFine`, `NotesFine`),
and that a message which left the schedule queue is never in it again (`QueueFine`).
The last is why a cancelled row stays true: a request that timed out may still be
served, but it can only hold messages Telegram never saw. A worker that lost its
lease goes on with wrong ideas, which `Fine` allows, since they reach no row.

`RunLifecycleProofs` proves `Typed`, `OneAnswer`, `EndRecorded`, `CancelledByOwner`,
`ToldTruth`, `SlotsReturned` and the refinement `RunPromiseKept`, for every number of
runs, conversations, processes and slots, from `ConstantsAssumption` and
`NoneAssumption`. A run's row and its task are written by different actors at
different times, so the invariant relates the two for each run (`Agree`: who owns
the row, what has been stored before which step, what the client was told);
`CancelOK` says what remains true of the run a cancel request has read; `RequestInv`
that of the runs of one request all but the latest are dropped; `SlotInv` that a
process counts its streams. What makes them survive the steps of others is `Goes`:
what no step takes back from a row (an owner, a wish to cancel, an end). Every
action is shown to go this way, and then everything that others know of the row
stays true at once.

For the refinement each step is shown to be one turn of the promise or none. A call
to the database changes a row, or changes nothing, or is cancelled after it has
taken effect; so `RunWrites` and the lemmas on `Effect` say what each call makes of
the row, for the body of a task and for both of its handlers, and the lemma of an
action adds who may make that call. That a handler's end is not a second one needs
`Settled` (a task that wrote its end is past it) and, of the notice for a run that
someone else ended, that its worker does not own the row (`Notices`). A cancel
request ends only a run it found queued, which with the wish to cancel stored nobody
can claim any more; a sweep takes active rows only. `OneRunAtATime` and `OwnEndLasts`
are then drawn from the promise alone, with no look at a task.

`DraftsProofs` proves `DraftsAreTyped`, `DraftsShowTheirVersion`,
`PostsAreConfirmed`, `SpaceIsKept`, `TextIsSeenBeforeItGoes` and
`AcceptedPostsAreKept`, for every number of drafts, tabs, dialogs, images and open
transactions, from `DraftsAssumption` and `DraftsNoneAssumption`. A transaction
writes what it decided on a row it read earlier: `RequestTrue` says what of it is
still so, and `Apart` that the locks of two open transactions keep either from
undoing that of the other. Tabs and dialogs hold no lock; for them `ViewTrue` says
that a revision number stands for one text, so the server's comparison of numbers is
a comparison of texts. An accepted post is safe because the purge of its channel
counts posts and then deletes under a lock that an inserting transaction needs; a
retry needs no such lock, which is why `AcceptedIsKept` leaves it to the finding.

`CollectionJobsProofs` proves `CollectionIsTyped`, `JobsAreKept`,
`OnlyGonePostsAreRetired`, `ScansAreFaithful` and `ThreadsAreFaithful`, for
every number of channels, messages, comments and collectors, from
`CollectionAssumption`, `NoneAssumption` and `TokenAssumption` (a sync's token is
none of the marks of a comment). A scan retires at its end on the
strength of pages it read on the way. So `Reads` says that the messages from its
position on were read and, while Telegram did not change, are all it has; `Holds`
that a row left to one scan shows nothing above the position which the scan has not
seen; `KeepsJob` that its job is its own until the lease lapses; `AloneInv` that two
scans of one row know of it. `RowsInv` numbers the rows, so that a channel added
again is not the row an old scan was started for. `Later` shows once that what other
processes, the owner and Telegram do leaves all that true. At `retire` the rest of
the last page lies before the cutoff, and the scan retires nothing below the oldest
message it saw. For threads `ThreadsInv` adds that a sync which has been alone in a
thread since it fetched it holds the token of exactly the comments it has stored, and
these with those left to store are all that Telegram shows; it needs nothing of what
the table held before, so it covers whatever another sync left there.

`ProfilesProofs` proves `WordsAreTyped`, `NumbersIdentifyRows` and
`NothingElseReplaces` (`WordsSpec => NothingUngivenIsReplaced`), for every set of
windows, requests and texts. It rests on `ProfilesAssumption` and `VoidAssumption`.
The argument is about version numbers: every row that a dialog or a request holds
was once the profile, a write takes the next number, so a held row with the
profile's number is the profile (`EditorsAreGiven`, `SavesAreGiven`), and the
upsert's condition on the number is a comparison of contents. Types need one fact
more, that a request with a window has its dialog open (`AskersAreOpen`,
`PatchersAreOpen`), since its answer writes there.

`ConnectionsProofs` proves `ConnectionsAreTyped`, `NoTokenTwice` (`ConnectionsSpec
=> []TokenIsSentOnce`), `OnlyTheOwnersAccount` (`ConnectionsSpec =>
AccountIsTheOwners`), `ReferencesAreTyped` and `RunsAreConsented` (`ReferencesSpec
=> []RunIsConsented`), for every set of sign-ins, accounts, runs and channels. It
rests on `ConnectionsAssumption`, `NothingAssumption` and `ReferencesAssumption`.
`ConnInv` has a part for each group of variables. A token is not sent twice because
a run that refreshes has the account of the table, which nobody writes while the
lock is held (`LockInv`), and the stored token is one that was not exchanged
(`TokensInv`). A run's consent is carried from the check to the copy by `RunsInv`,
whose `moved` marks the settings that changed in between. For the composition,
`RefInv` adds that a run which reads was permitted to (`ReadingInv`), and that after
its look for an active run a request counts every run that goes on as one that began
since (`UnseenInv`), which is what the write under the conversation's lock cannot
see.

`ResearchProofs` proves `ResearchIsTyped` and `VerifiedWasRead` (`ResearchSpec =>
ClaimsWereRead`), for every number of sources, articles and tool calls, from
`ResearchAssumption` and `NilAssumption`: an article's text is not one of the marks
for a page without text. Whatever is held of a source, in the rows, in memory or by
a call between the two, is an article that was read or none (`Read`, which only
grows true as more is read). A call may come back with rows it loaded before others
stored newer pages; they fill in only sources of which nothing is known, so what was
stored last is what is known, and the bundle that a check looks at is what is known
unless a write of rows failed (`LatestInv`). `VouchedByCheck` shows that only the
check of a draft makes a call hold a verified claim, `VerifiedByWrite` that only the
write of such a call makes the draft hold one, whatever an edit of the owner's
submits.

`WorkspaceProofs` proves of `ScheduleTime` that it `TimeIsTyped`,
`PostsAreDueAsMeant` and `PostsAreNeverSentNow`, from `ScheduleTimeAssumption` and
`UnsetAssumption`: a shown local time is resolved to its first and last instant, and
`mutate` gives up before the lead is over. `LocalToUtc` says that what passes its
checks is what was meant, in every zone; `Underway` carries the lead from the check
to the arrival: a request that waits left in time, and has not waited longer than
the timeout.

It then proves of the composition `PartsKeepTheirSpecs`: a behaviour of the workspace
is, seen from each part, one of that part's specification. The references share the
connection's variables; a step of the connection alone is a step of both because in
those parts nobody uses the references (`Untouched`). `WorkspaceIsTyped` (`Spec =>
[]WorkspaceTypeOK`) and `WorkspaceIsSafe`, which has the other twelve properties of
the run, follow by citing the theorems of the parts.

The inductive invariants (`IInv` of the queue and of the runs, `Fine`, `DraftsInv`,
`CollectionInv`, `EvidenceInv`, `VersionsInv`, `ConnInv`, `RefInv` and `TimeInv`) are
not listed in a cfg, since they are proved; TLC has checked each exhaustively on an
instance of its module's runs. The properties of runs that are theorems as
well are checked on the small instances too.

Model-checked only: liveness (`CommandSettles`, `VanishingIsNoticed`,
`EditIsAdopted`, `RunsEnd`, `ChannelsAreCollected`), as the prover has no reasoning
about ENABLED.

## Not modelled

The components marked so in `PROJECT.json`: formatting, counters and logging,
cryptography, the bot, migrations, scripts. And, of the modelled ones:

- queue: the revision a calendar form carries, a reply of Telegram that contradicts
  itself (of a refused one no id is kept; the code keeps those assigned so far), the checks of text and image limits,
  the zone of a date that was changed in Telegram, log rows (`publishing_events`);
- drafts: titles, formats and copy marks, the limit of 100 images per draft, the read
  of versions for `/media`, the agent's count of refused saves;
- runs: the resubmission of a used run id, the fallback for a repository without the
  combined insert, the contents of events and usage, prompts and context assembly;
- research: ranking, clusters, caches of the search engines, several claims per draft,
  the matching of passages, evidence of references kept on a draft; the tools that
  would change a profile, which always refuse;
- connections: changes of the model name and base URL alone (a fingerprint covers
  them; here they change with the provider), a consent sent without a fingerprint (the
  page always sends it, `main.tsx:1118`), token signatures, `available_models` with its refresh, routes that
  reset a single setting, the login rate limiter, sessions;
- profiles: statistics and evidence of an analysis, the removal of the channel;
- collection: metrics, snapshots, comment counts, pacing of whole-history scans, the
  Telegram session's storage, dashboards and exports.
