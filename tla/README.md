# codex-notify in TLA+

codex-notify is a Telegram bot that watches the rate limits of one ChatGPT account through a child
process, the Codex App Server, and tells its owner when a limit has been reset, the account has
changed, a sign-in is needed or the service is unreachable. This directory holds TLA+ models of it,
the TLC runs that check them and the TLAPS proofs about them. Paths below are relative to
`src/codex_notify/` unless they start with another directory of the repository.

Run a model with `tlc -config Monitor_safety.cfg MCMonitor` and a proof with
`tlapm MonitorProofs.tla`. `PROJECT.json` lists components, runs, mutants, findings, hazards and
theorems, and maps every definition to the lines it models.

## 1. The system

| Component | Source | State | Operations |
|---|---|---|---|
| Monitor | `monitor.py` | `_current`, `_last_manual_started`, `_schedule_wakeup`; `AppState` | `check_now`, `_perform_check`, `_record_auth_required`, `_record_failure`, `scheduler_loop` |
| Change analysis | `domain.py` | none (pure) | `normalize_snapshot`, `analyze_changes`, `credit_expiry_events`, `notification_enabled`, event ids |
| Application state | `models.py` | `Settings`, `AppState`: account, snapshot, credit baseline, history, deduplication ids, outbox, outage fields | `bounded`, migrations |
| Storage | `storage.py` | `settings.json`, `state.json`, a `.bak` each; `_value` in memory | `initialize`, `load`, `get`, `mutate`, `replace`, `_recover_corrupt` |
| Delivery | `delivery.py` | the item in hand | `run`, `_postpone`, `wake` |
| Login | `login.py` | `AppState.pending_login`, one waiter task per login | `start`, `attach_message`, `wait`, `cancel`, `recover_interrupted` |
| Telegram UI | `telegram_ui.py`, `access.py` | pending text inputs, login tasks | menus, settings, login, logout |
| App Server adapter | `codex_rpc.py` | process, pending requests, notification queue, `restart_count` | `start`, `request`, `_read_stdout`, `_wait_for_exit`, `next_notification`, `close` |
| Owner binding | `binding.py`, `admin.py` | `owner_id`, `binding` in `settings.json` | `create_binding`, `consume_binding`, `set_owner` |
| Instance lock, health | `instance_lock.py`, `health.py`, `poll_health.py` | lock file; heartbeat file | `acquire`, `release`; `run`, `healthcheck` |
| Release scripts | `scripts/*.sh` | `.deploy/` files `current`, `previous`, `pending`, `interrupted`, `failed-commit`; image tags | release, abort, rollback, recovery, watch |
| Presentation, texts, configuration | `presentation.py`, `i18n.py`, `timeutil.py`, `config.py` | none | formatting, reading the environment |

How they interact:

* Everything in the bot runs in one asyncio event loop. Monitor, Delivery, Login and the UI share
  `state.json` and `settings.json` through `Repository`; `mutate` applies a function to a copy, writes
  it and only then replaces the copy in memory. The locks of `AtomicModelFile` are never held across a
  suspension, so `get` and `mutate` are atomic for the other coroutines.
* Monitor and Login await the App Server adapter. Between the requests of one check the owner can sign
  in or out, change a switch, or another caller can ask for a check.
* The owner's logout handler changes the state of the monitor behind the back of a running check.
* Delivery reads the outbox, awaits Telegram, and then writes an acknowledgement or a postponement.
* A crash, a kill or an update ends the process anywhere; Docker starts it again
  (`docker-compose.yml:11`) and it continues from the two files.

What is hard: state read before an await and used after it (checks); callers that join a check;
deduplication by ids that are made of the evidence alone; at-least-once delivery across crashes; a
file protocol that has to survive a kill between any two calls; a login whose waiter outlives it;
a child process that is replaced while requests are pending; scripts that are killed in mid-release.

What makes each component correct:

* Monitor: one check at a time; no comparison, baseline or notice mixes two accounts; a reset is
  recorded once, and an early one only after a second read; an outage is announced once and closed by
  the recovery that names it; every caller gets an answer.
* Delivery: what enters the outbox reaches the chat at least once or is discarded with its account; a
  duplicate only where Telegram's answer was not heard or not yet written.
* Storage: an acknowledged update survives; one damaged file loses at most one update; an installation
  in use is never started afresh: no boot creates files for it.
* Login: at most one login is pending, somebody looks after it while nothing fails, and an answer that names
  another login never ends it.
* Adapter: an answer reaches the request it belongs to, every request ends, one child lives at a time,
  and whoever starts a child is heard only after its handshake.
* Change analysis: a reset, restored usage or a grant is announced only if it happened since the
  reading it is compared with, and a listed grant is announced.
* Binding: whoever was told to be the owner is the owner in the file for ever after.
* Scheduler and health: monitoring goes on by the settings of now, and a task that has ended for good is
  reported for good.
* Scripts: the recorded release is the running one after every recovery, a failed commit is not tried
  again.

## 2. The modules

| Module | What it is |
|---|---|
| `AppState` | the record of `state.json`, events and their ids, the bounded lists, the append of a batch |
| `Monitor` | the checks: tasks, callers, the account at the App Server, logout, switches |
| `MCMonitor` | constants and symmetry for TLC |
| `Delivery` | the delivery loop and Telegram |
| `Mailbox` | abstract specification: what the notification pipeline promises |
| `Notifier` | Monitor and Delivery in one process with crashes; the refinement to Mailbox |
| `MCNotifier` | constants for TLC |
| `Domain` | what a reply says and which events follow from two readings: pure operators |
| `Observer` | `Domain` at work: a server that changes, replies that leave things out, checks one after the other |
| `Rpc` | the App Server adapter: requests, answers, the start of a child, its exit, `close` |
| `MCRpc` | symmetry for TLC |
| `Login` | the pending login: buttons, waiters, the shared notification queue, restarts |
| `Service` | the process around it: lock, admin commands, claim of the ownership, scheduler, health |
| `Storage` | the two JSON files, written, loaded and recovered on a file system that fails |
| `MCStorage` | bounds for TLC |
| `AppStateProofs` | lemmas about the lists |
| `MonitorProofs` | the safety of the checks, and what their steps may record |
| `NotifierProofs` | checks, delivery and crashes together: the checks stay safe, duplicates, the refinement to Mailbox |
| `ObserverProofs` | announced resets, usage and grants are real, and listed grants are announced |
| `RpcProofs` | correlation of answers, children one after the other, close |
| `LoginProofs` | the pending login, for any number of buttons and logins |
| `StorageProofs` | an installation in use is never started afresh; acknowledged updates survive |
| `ServiceProofs` | types, the bound owner and the plan of the scheduler |

The modules meet in three ways. `Notifier` composes `Monitor` and `Delivery` on one state. `Observer`
runs the operators of `Domain`. The others meet through what they assume and what another one shows:
`Login` and `Monitor` let requests fail at any time and assume that they end, which is `Rpc!RequestsEnd`;
`Service` takes from a check its outcome, which `Monitor` has in detail, and from a write its failure
before or after the file is replaced, which `Storage` has in detail; `Storage` and `Notifier` assume one
process on the directory, which the lock of `Service` gives.

### Monitor and AppState

A check is a task with a program counter: `account` (awaits `account/read`), `limits` (awaits
`account/rateLimits/read`), `sleep` (the pause of `monitor.py:95`) and `confirm` (awaits the second
read). The code between two awaits is one action: `AccountReply`, `LimitsReply`, `ConfirmationDue`,
`ConfirmReply`; `CommitCheck`, `RecordAuthRequired` and `RecordFailure` are the three commits they end
with. What the coroutine holds across an await is in the record of the task (`previous`, `baseline`,
`snapshot`, `enabled`). `CheckNow` is the body of `check_now` up to `await task`: `Join`, `AnswerRecent`
or `Start`. A finished task is released by its first waiter; until then `_current.done()` keeps it from
being joined, so `Finish` releases it at once. `SignIn` followed by `LoginCheck` is the end of
`LoginManager.wait`. The pending login is cleared before its check begins (`login.py:120-121`), so another one can
end meanwhile: a sign-in needs nothing of the checks, `loginDone` has every waiter that still has to ask, and a
completion that another waiter has swallowed leaves none. `LogoutRequest`, `LogoutAtServer`, `LogoutFailed` and
`LogoutCommit` are the logout handler with the server between its two halves.

Abstractions. An account has one window; a snapshot is its account and the epoch of that window, so
"the reset time advanced and the usage dropped" is a larger epoch, and `late` says that the clock has
reached the announced reset time. An event's id digests its kind and evidence, so the event record is
its id. A batch of events is a set listed in a fixed order. The credit baseline is the account it was
taken from. The answer of a request reports an account the server was signed in to at some moment between the
begin of the request and the answer (`seen`). Changes of duration, limit status, usage and credits add
events to the same batch and are in `Domain`. The account key is assumed to come from the account id the
server sends. The scheduler may ask at any time, when the status allows; its loop is in `Service`.

### Domain and Observer

`Domain` translates `domain.py` operator by operator: `Normalize` (what of a reply is kept, and
"unsupported", "unknown" or "known" for usage and credits), `CreditBaseline` (kept while credits are
unknown, trimmed to the newest grants), `WindowEvents`, `LimitEvents`, `UsageEvents`, `CreditEvents`,
`NeedsConfirmation` and `CreditExpiryEvents`. An event is its kind and the evidence its id digests, so
two events with one id are one. A value that is not an integer is `None`; texts and labels are left out.

`Observer` puts a server beside it: `Use`, `WindowResets`, `ResetMoves`, `PlanChanges`, `Grant`, `Redeem`,
`StatusChanges` and the clock. `Ask` composes a reply that may leave out the number of the window, the
credits, their rows or one row; `Record`, `Pause` and `RecordConfirmed` are the check with its second
read. A reply carries what really happened (`epoch`, `granted`, ...), which the code does not see and the
properties compare with the events. A behaviour is about a window, credits or a status (`topic`), since
`analyze_changes` looks at them apart.

### Rpc

Each caller of `request` is a task with a program counter for every await: backoff, start lock, spawn,
the write of the line, the wait for the answer, the handshake's second write, and the end of a child
whose handshake failed. `_pending` maps request ids to callers, whose future is `open`, `answered`,
`refused` or `failed`. Every child has its own reader and exit watcher (`reading`, `watching`), which act
on the adapter of the moment they run in: `Answered`, `ReaderEof`, `ReaderBreaks`, `WatcherRuns`. The child
may answer late or never, stop reading its input (`stuck`), or exit. `close` has three parts with an await
between them. `via = "running"` marks a caller that found `running` true and so skipped `start`; it may be heard
before the handshake, and `StartersFollowHandshake` says that nobody else is.

### Login

Handlers run the connect, cancel and logout buttons at the same time; the waiter of a login is a task of its
own, named by the login. `lock` is `LoginManager._lock`, which `start` and `cancel` hold across their
requests. All waiters take notifications off one queue, which drops its oldest entry when full.

`_start_login` awaits twice after `start`: for Telegram (`showing`, `Show` when the message is taken, `sent`) and
for the write of `attach_message`, with which the handler ends and the waiter begins (`Attached`). `ShowFails` is
an exception at either place, so a login whose message stands in the chat may have no waiter. A cancel ends
with `CancelAnswered`, `CancelFails` (carried out by the server or not) or `ClearFails`, when the write of `_clear`
raises. `TakeNote` is the waiter from the notification to its end, with its two writes that may fail;
the check in between is in `Monitor`. The place of the message is not kept.

A completion names its login or none, as `login.py:112` provides for both (`Completion`); `Concerns` is the
predicate of the waiter. `reasons`, `granted`, `told` and `abandoned` record what happened to a login, for
the properties: who ended it, whether it succeeded, what the owner read, and whether its handler or waiter
died of an exception. `Restart` ends the program anywhere and runs `recover_interrupted`.

### Service

`lock` is the `flock`; the bot and the admin commands each hold a copy of `settings.json` in `memory`
while they hold it. Handlers' steps are atomic, since file operations never yield to the event loop; a
claim is two steps, the middleware (`OpenLink`) and `ConsumeBinding`, because the bot can be stopping and
other handlers can run in between. A write fails before or after the file was replaced (`SaveFails`). The
scheduler goes `first`, `checking`, `sleeping`, `ready` and `dead` when a write of `state.json` raises out of
it. `set_next_check`, the clearing of the event and the begin of the sleep are one step, `Plans`, as nothing
in them yields. The health file is `well` or `ill` and `fresh` or not; it lies on the container's `tmpfs`
(`docker-compose.yml:19-20`) and is gone with it. From the lock to the creation of the tasks is one step,
`BotStarts`.

### Delivery, Notifier, Mailbox

`Pick` and `Wait` are the top of the loop, `Accept` is Telegram taking the message, `Acknowledge` the
write that strikes off the item, `Refused` and `AnswerLost` the four `except` branches, which all
postpone. `not_before` is a flag `ready`, set again by `RetryDue`; it never fires at the top of the loop,
since it lies at least a second ahead and the loop goes there without a pause. An owner is
assumed to be registered. `Restart` ends the process between any two steps and keeps what is stored.
`Mailbox` knows pending, carried and delivered notices and an addressee; `Notifier` maps the outbox to
the pending notices, the item being sent to the carried one and the chat to the delivered ones.

### Storage

`proc` is the process: its mode, the stage of `initialize`, the call that comes next (`at`) and whether
its rename is done (`renamed`). Each step is one call of the file system: the read before a write, the
`os.replace` of complete and synced bytes, the `fsync` of the directory. `disk` is what the file system
shows and `synced` what a power loss cannot take away; `PowerLoss` keeps any subset of the renames that
are not synced, in any combination. `CallFails` and `ReadFails` are exceptions: in an update they go to
the caller, in a boot they end the process. `Decay` makes one file undecodable, and a failed read while
loading counts as damage as well, since the code cannot tell the two apart (`storage.py:110`). A
content is the number of its update and its schema; data 0 is what the installation began with.
`told` records what callers of `mutate` may rely on. A single process works on the directory, which
`instance_lock.py` sees to.

## 3. The runs

| Run | Properties | Shows |
|---|---|---|
| `monitor_safety` | `SingleFlight`, `AccountIsolation`, `RecordedOnce`, `CapturedIsCurrent`, `OutageConsistent`, `RecoveryFollowsOutage`, `ResetRecorded`, `EarlyNeedsSecondRead`, types | the checks, under all interleavings with sign-ins, sign-outs, logouts and switches |
| `notifier_safety` | `ImplementsMailbox`, `DuplicatesAreUnheard` | the pipeline from a check to the chat, with crashes |
| `notifier_liveness` | `NoticesLeave`, `CheckReturns` | nothing stays queued and no caller waits forever |
| `observer_safety` | `NoFalseRelief`, `NoInventedGrant`, `NoSilentGrant`, types | events against what happened at the server |
| `rpc_safety` | `PendingIsExact`, `OwnAnswer`, `SingleChild`, `ExitReachesAll`, `StartersFollowHandshake`, `LateStarts`, `RequestsEnd`, types | correlation, exits, restarts, close |
| `login_safety` | `EndedForAReason`, `PendingIsWatched`, `ToldTheTruth`, `SwallowedOnlyByStale`, `PendingEnds`, types | logins, their waiters and their end |
| `service_safety` | `BoundIsOwner`, `PlanIsCurrent`, `MonitoringContinues`, `DeadTaskShows`, types | ownership, scheduler, health |
| `storage_safety` | `NeverReset`, `SurvivesOneDamage`, `AckedSurvives`, types | the file protocol |
| `monitor_logout` | `LogoutForgets` (violated) | a check in flight undoes a logout |
| `monitor_signout` | `SignOutAnnounced` (violated) | the second sign-out of an account is silent |
| `monitor_login` | `LoginStartsMonitoring` (violated) | a login answered by the cooldown |
| `storage_recovery` | `BackupRestores` (violated) | a kill inside a recovery ends in diagnostic mode beside a valid backup |

Bounds, and why they suffice:

* `monitor_safety`: two accounts (a switch needs two), two windows (a reset needs two), two task names
  (a second check in flight would need the second), five checks (three failures that open an outage, its end,
  and one more), two changes of the account (there and back within one second read, or sign-out and logout). `HistoryLimit` 1
  and `DedupeLimit` 3 are less than a behaviour fills, so both trims happen.
* `notifier_safety`: two accounts, four checks (enough for an outage notice and what follows it), one
  change of account, one lost answer and one crash; one loss more repeats the same step.
  `notifier_liveness` has one account and one window and is the same in size otherwise.
* `storage_safety`: three updates (a value, its backup, and one more so that a lost update differs from
  a lost history), one failing call, two kills or power losses (one in a write and one in the recovery
  from it) and one damage. The storage properties speak of at most one damage: with two, and a power
  loss that keeps only the move of a corrupt primary, both primaries can be gone.
* `observer_safety`: two resets or changes of plan (a plan changed and changed back needs two), windows of two
  ticks in four, so that resets come before, at and after their announced time, with a tolerance of one;
  two credits with one remembered grant, so that trimming happens; usage allowed again twice.
* `rpc_safety`: two callers (one finds the child the other one starts) and two calls, so two children and four
  request ids: a late answer, reader or watcher of the first child meets the second.
* `login_safety`: two handlers, two logins (a late waiter meets the next login) and a queue of two, which
  overflows.
* `service_safety`: two people, two links (an old one and a new one) and two intervals; no bound on
  the number of starts, stops, failing writes or commands.
* `storage_recovery`: one update, two kills, one damage: the shortest way there.

`CHECK_DEADLOCK FALSE` is set where the bounds end every behaviour: when all checks of the bound have
been made and the outbox is empty, when Storage is in diagnostic mode with its bounds used up, and when the
adapter of `Rpc` is closed and all calls of the bound have ended.

Fairness. `MonitorFairness`: every await of a check ends, since `_request_raw` has a timeout
(`codex_rpc.py:167-172`) and the pause is a sleep; and the event loop runs a coroutine that is ready.
`NotifierFairness` adds the delivery loop, the clock (`RetryDue`), and strong fairness of `Accept` and
`Acknowledge`: Telegram, asked again and again, in the end takes a message and its answer arrives. The
retries of `_postpone` never give up, so this is an assumption about Telegram and not about the code.
No fairness is assumed of the owner, of the App Server's account or of crashes; the violations above
are violations of step properties and need none.

`RpcFairness`: the loop runs a caller that can run and its timers fire; a child that was told to end does so
within five seconds (`codex_rpc.py:301-311`, by force if need be). Nothing is asked of a child otherwise, so
`RequestsEnd` has one exception: the write of a line is outside the time limit (`codex_rpc.py:167-168`),
and a child that stops reading its input can hold it for as long as it lives. `MonitorFairness` thus relies
on an App Server that reads its input. `LoginFairness`: requests end, the timeout of a waiter fires, and
`asyncio.Lock` hands itself on in order, which is strong fairness of `CancelLocked`; the server need not
say anything. `ServiceFairness`: the loop runs, checks end, delays pass and a live reporter writes every
fifteen seconds; no start of the bot and no failing write is assumed. `MonitoringContinues` is about a scheduler
that lives; of one that a failing write has ended, `DeadTaskShows` says that the health file tells.

What the runs allow, and a reader of the code may not expect (no document says otherwise, so no run
refutes one):

* The waiter of a cancelled login goes on taking notifications and may swallow the completion of the next
  one (`codex_rpc.py:297`); that login is then ended by its own time limit (`SwallowedOnlyByStale`,
  `PendingEnds`). The commit of a logout clears a login that was started meanwhile (`LogoutAnswered`).
* A login without a waiter stays pending and blocks every new one until its button, a logout or a restart: one
  whose message could not be sent, whose message was taken by Telegram and the answer lost, or whose
  `attach_message` or `_clear` could not be written (`telegram_ui.py:753-783`, `login.py:132,143`). These logins are
  `abandoned` in `PendingIsWatched` and `PendingEnds`.
* A completion without a `loginId` is taken by whichever waiter comes first (`login.py:112`). That of a login
  the server still waited for after a failed cancel ends the next login, and is reported as its success
  (`UnnamedFor` in `EndedForAReason` and `ToldTheTruth`). Nothing in the repository says whether the App Server
  sends such completions for device logins.
* An early reset is dropped without a notice when the server was signed in to another account at some time during
  the second read: the read is discarded with the verdict (`monitor.py:99-105`) and the first snapshot is
  recorded, also when the server is back at the first account by then (`SecondReadDoubtful`).
* A `settings.json` damaged right after a claim is restored from a backup that has no owner yet and whose claim
  link may still be valid. `NeverReset` says only that no boot creates files; `BoundIsOwner` is checked of
  files that are not damaged.
* A caller that finds the child running is not made to wait for the handshake (`codex_rpc.py:150`), and
  `StartersFollowHandshake` exempts it; a late
  exit watcher fails the requests of the next child (`codex_rpc.py:281`), which costs a check and not more;
  one start may slip past `close` (`LateStarts`).
* Two changes of limit status to the same value have one id, so the second is silent (`LimitEvents`).
* A plan changed and changed back between two readings looks like a reset (`NoFalseRelief`).
* When the first check of a new installation fails before an account is recorded, no later pass of the
  scheduler checks (`monitor.py:254`): a manual check or a login has to (`Eligible`).
* A check by hand does not wake the scheduler, whose sleep was computed from the older snapshot.

Each property of a passing run has a mutant, an operator beside the definition it changes the way a
slip in the code would (a check that is never joined, an outbox that is not cleared, an unsynced
directory, a backup written without being decoded), and TLC finds the property violated with it.

## 4. The proofs

TLAPS proves every invariant and every action property that a passing run checks, and the refinement to
`Mailbox`, for every value of the constants. The assumptions are the named ASSUMEs of the modules, and
two hypotheses that a theorem states itself: `DedupeLimit >= 2` in `ResetsAreRecorded`, and `Room` or
`DedupeLimit >= 2 * MaxChecks` in the last part of `NotifierProofs`; the code has 1000 places.

* `MonitorProofs`: `MonitorTypeCorrect`, `OneCheckAtATime`, `AccountsNeverMix`, `EventsRecordedOnce`,
  `CapturedStaysCurrent`, `OutageFieldsAgree`. The inductive invariant `IInv` has four parts. `Good`:
  every commit leaves a well-typed record, unique ids, one account and agreeing outage fields. `Control`:
  single flight, and a waiting caller has no result. `Captured`: what a paused check holds is what is
  recorded, and about one account. `Surroundings`: types. None is inductive alone: a commit of a paused
  check keeps the accounts apart only because what it captured is still current, that holds only because
  no other check is in flight, and events stay unique only because the lists stay aligned. The lemmas of
  `AppStateProofs` do the list work: appending fresh events keeps the ids unique and the history a tail
  of the deduplication list, and trimming keeps both (with `HistoryLimit <= DedupeLimit`).
  Three more theorems look at what one step records; the lemma `ChangesOfTheRecord` names the
  ways in which a step can change it. `EarlyIsSeenTwice` needs that a check pauses only over a window
  that has moved (`PausedOverMove`). `RecoveriesFollowOutages` needs that the list holds the announced
  outage as long as it was never trimmed (`Remembered`). `ResetsAreRecorded` needs no more than
  `IInv`: a check commits a later window without an event only as `Confirm` does when the second read was of
  another account, which the server then was signed in to while that read was under way.
* `NotifierProofs`: delivery changes the outbox while a check awaits, and a crash forgets every task.
  `ChecksStaySafe`, `RecoveriesFollowAcrossCrashes`, `CrashesForgetOneRead` and `CrashesLoseNoReset` show
  what `MonitorProofs` shows in spite of both (`Base`, `Watch`). `DuplicatesStayUnheard` and
  `PipelineIsMailbox` rest on deduplication, which forgets when its list is full. `Room` says that a
  check in flight finds room for the two events it may record; `RoomSuffices` proves it from
  `DedupeLimit >= 2 * MaxChecks`, and the run has 9 places for 4 checks. Without it an event could be
  posted a second time, which the code accepts after a thousand others. The invariant `MailInv`
  says where an event can be: an item of the outbox is about remembered events and shares none with
  another (`OutboxApart`); the item in hand is the one that was picked, or has gone with its account
  (`HandHeld`); the chat has remembered events only (`ChatKnown`); and each time an event stands in the
  chat went unheard, but for one once nobody has to say it any more (`Heard`). `Commits` is what a check
  does to the outbox: at most one new item, about events not yet remembered. The refinement goes by
  steps: a commit is `Post`, `Switch` or `Rename`, `Accept` is `Deliver`, a crash is `GiveUp`
  (`NotifierStepIsMailbox`). `OwedNoticesArrive` says what follows for the owner: a notice leaves the
  outbox only when it stands in the chat or its account has gone, and does not enter it again after that.
* `ObserverProofs`: `ObserverTypeCorrect`, `ReliefIsReal`, `GrantsAreReal`, `GrantsAreTold`, for any number
  of credits, resets, ticks and remembered grants. The properties compare an event with counts that the
  code does not see; the invariant relates these counts to what the code keeps. Of two readings of
  the window with the same counts the later has no less usage (`Later`, `WindowsInOrder`); denied usage stays
  denied while the count of restorations stands (`UsageInOrder`); every credit that a known reading
  covers was granted by the time of that reading, the number available has not grown while nothing
  was granted, and recorded grants are about credits already read (`CreditsInOrder`). That the
  newest `GrantLimit` of a set exist is an induction over numbers, done with a least element
  (`NatLessThanWellFounded`, `WFMin`).
  Two more theorems are about what no run lists. `ConfirmationDecides` is a fact about `analyze_changes` for
  any two readings: taken as confirmed, a reading announces the same and, exactly if
  `NeedsConfirmation`, early resets besides. `UnchangedStaysQuiet`: the reading that is kept announces nothing
  when it is read again. For the credits that needs `Covered`: the baseline a known reading leaves is as
  new as every credit it lists, so a grant that is forgotten is still too old to be fresh.
* `RpcProofs`: `RpcTypeCorrect`, `PendingStaysExact`, `AnswersComeFromTheirChild`, `OneChildAtATime`,
  `NobodyIsForgotten`, `GreetedFirst`, `CloseStopsTheStarts`, for any number of callers and calls.
  `CallsInv` has what relates requests: a number names one caller and the child it asked, in
  `_pending`, in what a child has read and in what the caller remembers. `StartInv` has what relates
  children: the holder of the start lock is the one caller that spawns, greets or ends a child
  (`LockHeld`), children are numbered as they are spawned, and one that lives has its exit watcher
  while the adapter is open (`Ordered`); after `close` has begun, a caller that is about to spawn has
  seen no child since the one `close` found (`Closing`). `Budgets` shows that the bound on the calls is
  never what keeps a child or a request number from being had.
* `StorageProofs`: `StorageTypeCorrect`, `NeverResetHolds`, `DamageIsSurvived`, `AckedUpdatesSurvive`, for any
  number of updates, failures, kills and power losses. That a boot finds a primary says nothing of
  what a power loss leaves, nor of what a recovery has moved aside; `IInv` adds that, once an update has
  succeeded, at most one damage leaves one file valid both on disk and in what a power loss leaves, and
  that no recovery works on it. That starts with the first successful update, whose `fsync` makes durable
  all that the boot has loaded; so the invariant also follows the files a boot has accounted for
  (`LoadedHeld`). `DataInv` adds the contents: what one damage can have spoiled (`Spoiled`), how the
  callers' knowledge goes with the copy in memory (`Told`), how much of it primaries and backups hold
  on disk and after a power loss (`Primaries`, `Backups`), and what a write or a recovery carries
  from one file to another (`InHand`).
* `LoginProofs`: `LoginTypeCorrect`, `LoginsEndForAReason`, `PendingStaysWatched`, `OnlyTheTruthIsTold`,
  `OnlyStaleWaitersSwallow`. The properties need to know who may touch the pending login: the holder of the
  lock is the one task in a request and starts a login only while none is pending (`LockHeld`); one handler
  shows a login, and the waiter does not exist before that handler is done (`Showing`); a waiter is about the
  login it is named by (`Waiters`); a request to cancel is about a login somebody wanted to end (`Cancels`); and
  what a notification says of the login it names is true (`NotesTrue`). `LoginInv` is their conjunction with
  `PendingIsWatched`. `EndingSteps` and `TellingSteps` then look at the one step that ends a login or
  tells the owner. Each action changes the turn of one task; `TurnsInv` and `WorkerTurnsInv` say once what
  that leaves alone.
* `ServiceProofs`: `ServiceTypeCorrect`, `OwnerStaysBound`, `SleepsByCurrentPlan`. The type invariant ties the
  lock to the copies in memory: the bot has one only while it runs, a command only while it holds the lock.
  `Bound` adds that whoever was told to be the owner is the owner in every copy in memory too, so that
  no process can write anybody else over it.

Only model-checked: liveness (`NoticesLeave`, `CheckReturns`, `RequestsEnd`, `PendingEnds`,
`MonitoringContinues`, `DeadTaskShows`), which TLAPS cannot prove, and the four violations. The
prover knows nothing of `SelectSeq`, so `WithoutItem` of `Delivery` says by counting which item stands
where.

## 5. Where the code and its documents disagree

1. `docs/installation.md:57` promises that logout clears the comparisons and queued notifications. A
   check in flight commits after the logout (`monitor.py:126`) and restores the account, its snapshot and
   its notices.
2. `auth_required_notified` (`models.py:215`) is set by the second sign-out of an account although
   deduplication has swallowed its notice (`monitor.py:169-175`, `208-211`).
3. `README.md:72` promises that monitoring starts after a sign-in. `check_now(manual=True)` answers
   "recent" within five seconds of another manual check (`monitor.py:62-63`), and the status stays
   disconnected, which the scheduler skips (`monitor.py:252`).
4. `docs/installation.md:70` promises that a valid `.bak` restores a corrupt primary at startup. A kill
   between `storage.py:83` and `storage.py:96` makes the next boot refuse at `storage.py:160`.

## 6. Plan

The modules of the first plan are written, but for the scripts. What is left, in order:

1. Proofs: the safety of `Login` and `Service` under one composition with `Monitor`, whose requests and
   outcomes they take as given; a `Mailbox` whose hypothesis on the deduplication list is a
   part of the abstract specification.
2. `Release`: `lib-production.sh`, `deploy.sh`, `rollback.sh` and the hooks, with a kill between any two
   commands.
3. The length of the scheduler's delays: retry delays, the wake-up after a reset.

## 7. Not modelled

Release scripts: shell programs around Docker and git, outside the running system; most of the state they
change is Docker's. Presentation, texts and time formatting carry no property of the system.
Configuration, entry points and `update_status.py` read their input once. `status.sh`, `restore-json.sh`,
`change-token.sh` and the smoke tests are operator tools that run outside the bot. Of the Telegram UI, menus
and form input that write one setting each are left out; of the adapter, stderr and the version of the child;
of the scheduler, the length of its delays, and with it two things its arithmetic does: a reset that is near
shortens a delay below a `Retry-After` (`monitor.py:266-278`), and `post_reset_checks`, which would
keep a reset from being waited for a second time, is never written. Of the account's identity, the change of key when an
account id appears in or disappears from the replies.
