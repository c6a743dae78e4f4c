# The Codex broker, in TLA+

These modules model the broker in `src/broker/src/codex_broker`, a multi-threaded
HTTP service that runs Codex turns for host applications through pooled
`codex app-server` children and keeps threads, turns and events in one SQLite
database: its scheduler, its pool of children, its dialogue with a child and with
the host, its accounts, the event streams it serves and the bundles it mounts.
Line numbers below are those of the source files; `PROJECT.json` maps every
definition to the lines it translates.

## The system

### Components, their state and operations

| Component | Source | State | Operations |
|---|---|---|---|
| Turn scheduler | `scheduler.py` (`TurnScheduler`) | `_gates` (a `ThreadGate` per thread: `running`, `queue`, `active_context`), `_outstanding_turns`, the executor and its futures, `_shutdown`, `_shutdown_mode` | create a turn (`reject`, `queue`, `steer`), run it (`_run_turn`), hand the gate on (`_advance_queue`), steer, interrupt, shut down |
| Turn context | `scheduler.py` (`BrokerTurnContext`) | `completed_event`, `final_status`, Codex thread and turn ids, the terminal event | `register_thread`, `register_turn`, `handle_notification`, `finish`, `fail` |
| App Server client | `app_server.py` (`AppServerClient`) | waiters, contexts by thread and by turn, buffered notifications, pending interactions, the child process | `request`, `send`, register and unregister, `_read_stdout`, `close` |
| App Server pool | `app_server.py` (`AppServerPool`) | `_clients`, `_leases`, `_creation_locks`, `_pending_creations`, `_closed` | `get`/`checkout`, `release`, `_sweep`, eviction, `close_profile`, `close_client`, `close_all` |
| Host interactions | `app_server.py` 543-699, `interactions.py`, `scheduler_interactions.py` | an in-memory event and a `pending_interactions` row per server request | create, resolve, time out, cancel, recover |
| State store | `state.py`, `state_transactions.py`, `state_schema.py` | profiles, threads, turns, events, interactions, audit | one short transaction per operation; recovery; pruning |
| Auth | `auth.py`, `auth_api.py`, `account_api.py` | profile rows with instance ids, Codex homes, device-login sessions | login, probe, logout, delete, device login and its watcher thread |
| Thread registry | `scheduler_threads.py` | thread rows bound to a profile instance | create, archive, check the binding |
| HTTP, event streams, OpenAI-compatible API | `http_api.py`, `openai_api.py`, `openai_protocol.py` | the read position of each stream | routes, SSE loops, cancel loop, response chains |
| Normalization and sanitizing | `events.py`, `security.py` | the held-back tail of each text stream | convert, redact, flush |
| Bundles and hosted tools | `bundles.py`, `tool_adapter_mcp.py` | records of bundles, inline manifests, overlay directories | resolve, upload, materialize, clean up, sweep |
| Start and stop | `services.py`, `__main__.py` | none of its own | recover, serve, shut down |
| Configuration, policy, probes | `config.py`, `scheduler_config.py`, `identity.py`, `openai_auth.py`, `runtime_errors.py`, `sandbox_probe.py`, `util.py` | none | parsing, policy checks, a start-up probe |
| Tooling | `client.py`, `src/client.py`, `src/init_suite.py`, `src/test_suite.py` | none | an HTTP client and scripts |

### How they interact

An HTTP handler thread calls the scheduler, which inserts the row and either queues the
turn in the thread's gate or submits it to the executor. A pool thread runs `_run_turn`:
it checks a child out of the pool, makes a context active in the gate, registers it with
the child's client, and waits for the context's event. The client's reader thread routes
the child's notifications to contexts; those that come too early are buffered, and
replayed by whichever thread registers the turn's id, the reader or the worker. An
interrupting handler thread, the shutdown procedure and whoever closes the child finish
contexts too. All of them write the turn's row. When the worker is done it gives the
child back, clears the gate's context and hands the gate to the next queued turn.

### What is hard

- Decisions under one lock and effects under another: gates, futures, context
  events and rows have a lock (or a transaction) each.
- Five parties may end one turn: the worker, the reader thread, an
  interrupting caller, the shutdown procedure, a closing client.
- Replies and notifications race with the registration of what they refer to, and
  two threads may handle notifications of one turn.
- A row is read in one transaction and written back in another.
- A shutdown begins while callers are inside a create and workers hand over.
- A crash at any moment; the recovery sees nothing but the rows.
- Children start and end slowly, outside the pool's lock.
- An account may be logged out, deleted and made again while its turns are queued,
  its children run and a login process writes its credential file.
- Text is held back until it is known to hold no secret, and flushed by whoever ends
  an item or a turn; streams read rows and events separately from all that.
- Uploads and overlays are plain files, written in place; their removal may fail.

### What makes each component correct

- Scheduler: one turn of a thread at a time, in the order of acceptance; no
  accepted turn is forgotten; the limits hold and no slot leaks; a key makes one
  turn; a shutdown ends.
- Context and client: a turn gets one terminal row and one terminal event; the
  worker's wake-up is not lost; a notification reaches the turn it is about.
- Pool: the cap holds; a leased child is kept; no child is started twice for a
  key, forgotten, or left behind when the pool closes.
- Interactions: one answer, the same in the row, on the wire and to the host.
- Auth: a queued turn never runs with an account it was not bound to, a logout
  leaves nothing that could bring the credential back, and a profile is reported as
  authenticated only if somebody has logged in to it.
- Streams: a client misses no event and sees no text twice, a completed turn has its
  whole answer, and every stream of a turn that has ended ends.
- Bundles: a turn runs on a whole manifest and a whole snapshot within its limits,
  and its overlay exists for as long as the turn needs it.

`PROJECT.json` lists the hazards line by line with the properties that cover them.

## The modules

### `ThreadQueue`: what the scheduler promises

The abstract specification: each thread has a current turn and a queue; a turn is
accepted into one or the other, the longest waiting turn takes over, and a turn is
accepted and run at most once. Only when work is cut short (`stopping`) may turns
leave without a successor. It knows neither workers nor futures nor gates.

### `TurnScheduler`

State: the rows (`row`, `threadOf`, `keyOf`), which survive a restart, and the
process: `running`, `queue` and `active` (the fields of `ThreadGate`),
`completed`, the executor (`work`, `backlog`), `outstanding`, the create request
of each handler thread (`call`) and the shutdown procedure (`mode`, `stage`,
`todo`). `held` are the contexts that interrupting and steering callers have taken from
a gate and not acted on yet, and `stale` the rows that `update_turn` has read and not
written back yet; `MaxLate` bounds both together. `delivered` and `lost` are history:
the inputs Codex was sent, and the turns whose final row was overwritten. A turn's
`work` goes

    none -> pending -> enter -> prepare -> attached -> executing
         -> cleanup -> advance -> returned -> over

where `none` is absent or queued in its gate, `pending` waits in the executor,
`attached` has an active context, `executing` has sent `turn/start`, `returned`
is a future that is done and whose callback has yet to run. A future that the shutdown
cancels goes `pending -> cancelled -> settled -> over` instead: cancelled, its row
settled, its gate opened.

| Action | Code |
|---|---|
| `BeginStart`, `AcceptTurn`, `RefuseTurn` | `_start_turn`: the checks without a lock, then the decision and the insertion under `_gates_lock` |
| `FindActive`, then `Steer` or `InterruptTurn` | `_active_context`, and what `_steer_active`, `steer_turn` and `interrupt_turn` do with what it returned |
| `ReadRow`, `WriteRow` | `register_turn`: the two transactions of `update_turn` |
| `TakeWork` ... `Cleanup` | the executor and `_run_turn` |
| `ReleaseGate`, `StartNext`, `WorkDone` | `_advance_queue`, `_work_done` |
| `RequestShutdown` ... `ShutdownExecutor` | `shutdown`, one action per lock section or loop iteration |
| `CancelFuture`, `SettleCancelled`, `OpenGate` | the three steps of `_cancel_pending_futures` for one future |
| `Exit`, `Crash`, `Recover` | the end of `serve`, the loss of memory, `recover_incomplete_turns` |

Simplifications. Terminal statuses are one value, `final`. What `interrupt_turn` does
with the context it holds (the request to Codex, `finish`, the row) is one step here;
`TurnExecution` has it in three. The same goes for the shutdown's interrupts. The
parameters of Codex requests, archiving of threads and metrics are left out. Turn ids
are never reused, as `random_id` makes them.

A `WriteRow` that comes after the row was settled opens it again, and nothing settles
it before a restart. `SettledBeforeHandOver` and `AcceptedTurnsSettle` except such
turns (`lost`), and no property says that there are none: there are.

### `TurnExecution`

The inside of `attached` and `executing`, for the turns of one thread one after
the other: the worker from the activation of its context to its detachment, the
reader thread, one interrupting caller and the child. `register_turn` is two
steps, the read and the write of `update_turn`, with the context's lock held in
between. Codex (external) answers in the order of the pipe, may send
`turn/started` before or after its reply, completes a turn at any time, and may
die at any time. A closed client is part of `ChildDies`, because a request that
times out closes its client.

Simplifications. `handle_notification` sets status and event in one step. The
routes that `thread/started` makes are left out, since the reply makes the same.
`ChildDies` waits until no registration is in progress. The interrupts of the
shutdown procedure differ from the caller's only in that they ignore errors;
they are in `TurnScheduler`. Delta events, audit and error texts are left out.

Turns whose row `register_turn` has overwritten after it was final are recorded
in `lost`; `ClosedOnce` and `LeftClosed` except exactly these.

### `AppServerPool`

State: the fields of the pool under their names, and for each user (a thread that
calls `checkout`) how far it has come, its key, its child and the creation gate
it has joined. `closing[a]` is what thread `a` has removed from the map under the
lock and has yet to close outside of it; `alive` are the children that run. A key
is a profile and a variant: variants stand for the auth fingerprint and the MCP
secrets, of which a newer one retires the idle children of an older one.

| Action | Code |
|---|---|
| `Request`, `SweepFirst`, `Retire`, `Find`, `Miss` | `get` up to the creation gate |
| `JoinGate`, `EnterGate`, `LeaveGate` | `_creation_gate` |
| `FindAgain`, `MissAgain`, `Reserve`, `Exhausted`, `Spawn`, `StartFails`, `Publish` | `get` inside the gate, `_reserve_child_slot`, `_release_child_slot` |
| `Register`, `Unregister`, `Release`, `CloseClient` | a turn's or an account request's use of the child |
| `SweepLater`, `CloseProfile`, `CloseAll` | the sweeper, an administrator, the shutdown |
| `Close`, `Dies` | `AppServerClient.close`, the end of the process |

Simplifications. Which idle child is the least recently used, and which are idle
for longer than the TTL, is nondeterministic. The key of a turn with hosted tools
is used by one turn at a time, because it holds the turn's overlay path. Closing
a child is one step. A child whose `initialize` was refused runs on outside the
pool, since the constructor raises without closing it; such children are recorded
in `strays` and excepted from `NoOrphan`.

### `Interactions`, implementing `AnsweredOnce`

A server request that the host decides is an object in the client's memory, whose
event wakes the thread that answers Codex, and a row that the host reads. State:
`row`, the object (`answer` is its response with its source, and its event is set
when there is one; `listed` is `_pending_interactions`; `recorded` is
`completed_in_state`), the stage of the serving thread, the resolve calls, and how
far `close()` has come. `sent` is what Codex was told.

| Action | Code |
|---|---|
| `Ask`, `AskUnrouted` | `_handle_server_request`, with and without a context |
| `CreateRow`, `Enlist`, `Wake`, `TimeOut`, `Record`, `SendAnswer`, `Leave` | `_handle_interaction_request` and what it calls |
| `Check`, `Settle`, `RecordForHost` | `resolve_interaction`, `resolve_pending_interaction` |
| `BeginClose`, `CancelPending`, `CancelOne`, `RecordCancelled` | `AppServerClient.close`, `_cancel_pending_interactions` |
| `EndTurn`, `Exit`, `Crash`, `Recover` | the turn's end, the child's, the broker's; `recover_pending_interactions` |

`AnsweredOnce` is the promise: a verdict is recorded once and never changed, and
Codex is told the verdict on record, or a refusal for a request of no turn.

`HostResponses` has what a host may answer to each kind of request: the fields of a
response are "absent", the word the code compares them with, or the form it looks
at. `Valid`, `Validated` and `SafeResponse` are `validate_host_response` and
`safe_response_for_method`; `Grants` says which responses let Codex go on. `Check`
refuses a response that is not valid, and what is recorded and sent is the validated
one. `OnlyHostsGrant` relates the two: what grants something comes from a host.

Simplifications. One turn runs in each life of the broker, and one thread is in
`close()`. The events that announce and resolve a request are left out. Each resolve
call carries a response of its own (`BodyOf`), so that responses tell callers apart.

### `AuthProfiles`

One profile of one principal. State: its row with the instance id, the credential
file (a credential is a number, which is also its fingerprint), who holds the
profile's guard and what it has read, the device logins with their processes, the
instance each thread is bound to, the turns, and the pooled child of each
fingerprint. `madeIn` is history: for which instance a credential was made.

| Action | Code |
|---|---|
| `BeginStatus` ... `EndProbe`, `BeginApiKey`, `EndApiKey`, `Invalidate` | `status`, `probe`, `login_api_key` and the invalidation of children in `auth_api.py` |
| `BeginAccountRequest`, `EndAccountRequest` | `account_api.py` |
| `BeginLogout`, `Terminate`, `RemoveCredential`, `DeleteProfile`, `RecordLogout` | `logout` and the deletion of a profile |
| `StartLogin`, `SubmitCode`, `Settle` | `start_device_auth`, `submit_device_code`, the watcher thread |
| `CodexAnnounces`, `CodexStores`, `CodexExits`, `Refresh`, `ChildExits` | what the login process and a child do (external) |
| `CreateThread`, `ArchiveThread`, `CheckTurn`, `InsertTurn` | the thread registry and the checks of a create request |
| `BeginTurn`, `StartChild`, `EndTurn`, `ReadFailed`, `MarkFailed`, `CloseFailed` | the part of `_run_turn` that binds a turn to its account, and what it does about an authentication error |
| `Crash` | the end of the container, which ends every process in it |

Simplifications. The statuses unknown, missing, present_unverified, invalid and
failed, which no code reads back, are one value, `other`. The fingerprint in a row is
kept only for `refresh_failed`, where it is read. A login process that is killed is
dead within the wait for it. `AppServerPool` has how a child is found and leased; here
a child of a fingerprint is there or not.

### `EventStream`

The events of one turn and one client. State: the events table of the turn (`low` is
the newest id that was pruned, `log` what follows it), the row, what Codex has sent,
the text `StreamingSecretSanitizer` holds back, what the reader thread, the worker and a
finisher have yet to do, how far `turn/start` has come (`stage`), the client's buffer of
notifications whose turn was not known when they came (`early`), what a thread has taken
out of it to replay (`replay`), and the client with its page and cursor. The text of an item is a
number of pieces, and a delta event carries an interval of them. A flush takes what is held
back of all its items at once and appends the texts one by one, in any order. How much
of the end is held back at each delta is left open, so that the results hold for any set of
secret patterns.

| Action | Code |
|---|---|
| `ReceiveDelta`, `ReceiveItem`, `ReceiveUsage`, `ReceiveEnd` | the reader routes a notification to its context: `_handle_notification`, `handle_notification` |
| `ReceiveNameless` | a notification that names the turn alone finds no context and is buffered, the last `BufferSize` of them (`app_server.py:536-541`) |
| `TurnStarted`, `TurnAnswered` | `register_turn_for_context` by the reader for `turn/started`, and by the worker for the answer to `turn/start`: the buffer is taken under the lock |
| `Replay` | the loop after that lock, in the reader or in the worker, while the other may handle newer notifications |
| `Finish` | `finish` and `fail`, by an interrupt, a timeout or the end of the child |
| `Perform`: `RememberItem`, `FlushText`, `AppendEvent`, `SettleTurn` | one step of those that a handler goes through: an item's identity, one text out of the sanitizer, one `append_event`, the status |
| `WorkerPersists`, `Persist`, `RunFails`, `Detach` | `_persist_context_terminal` by the worker or another thread, and the exceptions of `_run_turn` |
| `Crash`, `Recover` | the restart with its prunings |
| `List`, `SendEvent`, `WriteFails`, `Reconnect` | the `/events` stream |
| `List`, `Forward`, `GoesOn`, `EndResponse`, `EndChat` | the two OpenAI-compatible streams |
| `AnswerObject` | a request that waits for the object of its turn |

Simplifications. Events that carry no text and from which no answer is built are left
out; so are keep-alive lines. Usage is reported when the items it counts are whole; a
raw item comes next to its `item/completed`, and the two count as one in the buffer; the
requests of `_run_turn` that may raise end with the answer to `turn/start`. The broker is
restarted at most once.

What is claimed depends on the routing. A notification that names the Codex thread goes
to its context at once, in the reader's order. One that does not may be buffered, and
then the code keeps neither order nor completeness: worker and reader replay and handle
at the same time without a lock, the buffer keeps the last 50, and what is buffered after
the worker took the buffer is never read. `astray` records that this has happened, as it
records interrupts, failures and restarts. What is claimed of such a turn is that no
piece of text is recorded twice, that streams have no gaps and that they end; order,
completeness of the text and of the answer (`CompletedIsWhole`) are claimed of the
others.

### `Bundles`

State: what the host mounts, the table of bundles, the inline manifests on the volume
(absent, torn or whole), the calls of uploaders, and for each turn how far it has
come, what its bundle resolved to, its overlay directory and its hosted-tools child.
`closing` are the children that somebody has told to close, and `left` the turns whose
overlay was not, or not completely, removed.

| Action | Code |
|---|---|
| `BeginUpload`, `LookForFile`, `OpenFile`, `WriteFile`, `RecordUpload` | `accept_inline` |
| `Submit`, `Run`, `Load`, `RecordResolved` | `resolve`, from `_start_turn` and again from `_run_turn` |
| `BeginOverlay`, `CopyEntry`, `EndOverlay` | `materialize_with_provenance` and the limited copy |
| `CheckOut`, `Leave` | the part of `_run_turn` between them, in which the turn runs |
| `CloseTools`, `AwaitTools`, `CleanUp` | its end: `close_client` tells the child to close (or finds that another thread has), waits for it, and `cleanup_overlay` |
| `CloseElsewhere`, `ToolsExit` | another thread closes the child; the child ends |
| `Remount`, `Crash`, `Start` | the host, the loss of the process, the sweep of a start |

Simplifications. A manifest is a value with its digest, and a skill directory is a
sequence of entries in the order of the traversal, each with the properties that the
limits look at. The counts of entries and of bytes that the copy keeps are cardinalities:
of the positions of the entries of a kind, and of the pairs of a file and a byte of it.
A file may be read larger than it was when its size was checked.

Every removal of an overlay may fail (`LeftOver`): `rmtree` raises on what a child still
writes, in the clean-up as in the `except` branch of `materialize_with_provenance`, and
the clean-up is not reached if `close()` raises because the child survives `kill` for two
seconds. `OverlaysBelongToTurns` then allows the directory to stay, but no other. A start
whose sweep fails does not serve.

`close()` returns at once if another thread is closing already (`app_server.py:304`), so
the overlay may be removed while the child is still on its way out, and the tools server
is a child of Codex that nobody waits for. So `ToolsHaveTheirOverlay` is about children
that nobody has told to close: these have their overlay, whoever closes what meanwhile.

## The runs

| Run | Instance | Properties | What it shows |
|---|---|---|---|
| `gates` | 2 threads, 3 turns, 2 callers, 1 key, 1 pool thread, 2 queue slots | `OneTurnPerThread`, `NoStrandedQueue`, `OutstandingExact`, `OneTurnPerKey`, `ImplementsThreadQueue` | the gate protocol through both shutdown modes and crashes, one turn for a key, and the refinement of `ThreadQueue` |
| `progress` | 2 threads, 2 turns, 1 caller, 1 context held or row read at a time, fair | `TypeOK`, `ActiveIsCurrent`, `SettledBeforeHandOver`, `AcceptedTurnsSettle`, `ShutdownEnds` | rows and gates against late interrupts and late writes; every accepted turn settles; every shutdown ends |
| `steer` | 1 thread, 1 key | `KeyedInputDeliveredOnce`, violated | finding 1 |
| `drain` | 1 thread, 2 turns | `DrainKeepsItsTime`, violated | finding 2 |
| `races` | 2 turns, notifications with or without a thread id, fair | `TypeOK`, `ClosedOnce`, `LeftClosed`, `ExecutionsEnd` | one terminal row and event per turn; no wake-up is lost |
| `overlap` | 2 turns | `OneCodexTurn`, violated | finding 3 |
| `misrouted` | 2 turns | `OwnCompletion`, violated | finding 4 |
| `pool` | 2 users, 2 profiles, 2 variants, 3 children, a limit of 1 | `TypeOK`, `WithinLimit`, `NoOrphan`, `LeasesExact`, `OneCreationPerKey`, `ClosedStaysEmpty`, `HeldIsKept` | no slot, lease or running child is lost |
| `interactions` | 2 requests of different kinds, 2 resolve calls, one with a response that is not valid for both, fair | `TypeOK`, `HostTold`, `OnlyHostsGrant`, `ImplementsAnsweredOnce`, `RowsSettle`, `RequestsAnswered` | one answer to each request, on record before it is sent; only a host grants; none stays open |
| `auth` | 2 logins, 1 thread, 1 turn, 2 instances, 2 credentials | `TypeOK`, `TurnsRunOnTheirAccount`, `LogoutIsThorough`, `AuthenticatedWasLoggedIn` | accounts against logins, logouts, deletions, children and restarts in any order |
| `streams` | 1 item of 1 or 2 pieces, pages of 2, 5 events kept, a buffer of 1, 4 settings, fair | `TypeOK`, `TextPreserved`, `StreamHasNoGaps`, `CompletedIsWhole`, `StreamsServe` | text, pages and answers against interrupts, replays, restarts, prunings and broken connections |
| `bundles` | 1 id, 2 manifests, 2 uploaders, 1 turn, 8 skills at and beyond the limits, 2 remounts | `TypeOK`, `OverlaysBelongToTurns`, `ToolsHaveTheirOverlay`, `RunsWholeBundles` | whole bundles, and no overlay left but where its removal failed, against uploads, remounts, full volumes, closing children and a crash |

### Why these bounds

- Three turns: one that runs and two that wait in order, or one that arrives while
  the others change places; with two threads it may also compete for the one pool
  thread and for the outstanding limit. One pool thread and two queue slots make
  every limit bind, and two slots are the fewest that show the order of a queue. Two
  callers with one key and a third turn leave room for a duplicate.
- What is held or read too early matters for rows, not for gates: `MaxLate` is 0 in
  `gates` and 1 in `progress`, where two turns are enough for a context to be used, or a
  row to be written, after its turn has handed its gate to the other.
- Two requests let `close()` be between one and the other, and two resolve calls
  compete for one of them. One response is valid for both requests and grants them;
  the other is valid for one of them only.
- Two turns of a thread are all that `TurnExecution` needs for a turn to be hit
  by what its predecessor left behind. Codex ends them as completed (`Outcomes`) or
  interrupted; a failed one differs from these in no guard.
- With a limit of one, every second child needs an eviction or is refused, and
  two users are enough to wait on a gate that another leaves. A larger pool (a
  limit of two, four children) is also free of errors as far as it was explored.
- Two logins of which one replaces the other, two instances of the profile and two
  credentials: a login, a turn or a child of the first instance meets the second.
- The settings of `streams` (`MCSettings`): a host on `/events` and a compatible stream
  with one piece of text, and a request for the object with two pieces, or with one and
  notifications that lack the thread's id. Of two pieces one may be held back while the
  other is out. Reading does not depend on how events come about, so the longer texts and
  the nameless notifications are checked with the client that reads once. A buffer of one
  is at its limit with the second notification. Pages of two
  events, so that an answer takes several pages; five events are fewer than the most
  there can be, so that the limit prunes. One item is enough, because what is held
  back is kept for each item; after a restart the turn is
  over, and a second restart could only prune more.
- Two uploads of the same or of different manifests compete for one id, and each limit
  of a snapshot has a skill at the limit and one beyond it. A second turn would share
  only the table of bundles, which the uploaders change as well.
- Symmetry is used in `gates`, `pool`, `auth` and `bundles`, over identities that no
  definition orders, and in no run with a liveness property.
- `TurnExecution`, `AppServerPool`, `EventStream` and `Bundles` are checked without
  deadlock detection: their turns are finite, a pool stops when it is closed and
  everyone has left, and a stream ends. `TurnScheduler`, `Interactions` and
  `AuthProfiles` can always take a step and are checked with it.

### Fairness

`TurnScheduler`'s `FairSpec` is weakly fair to handler threads inside a call,
to the executor, to the steps of a worker that do not depend on Codex, to the
shutdown procedure and to the restart. These are threads that the code never
blocks for ever: waits have timeouts, and a request ends after
`request_timeout_seconds` because the client is closed. Nothing is assumed of
Codex (`turn_timeout_seconds` is 0 by default), so `AcceptedTurnsSettle` has the
premise that executing turns end; `ShutdownEnds` has none. New requests, crashes
and shutdown requests are never fair.

`TurnExecution`'s `FairSpec` is weakly fair to the worker, the reader thread, a
caller that has begun, Codex's replies (or their timeout) and Codex's completion
of a turn it runs. Turn timeouts and the death of a child are not fair: the worker
must wake up without them.

`Interactions`' `FairSpec` is weakly fair to the thread that serves a request and
to recovery. `_host_response_timeout` is never negative, and a timeout of zero means
not to wait, so every wait ends. Hosts, children, turns and `close()` owe nothing.

`EventStream`'s `FairSpec` is weakly fair to the threads of the broker, to recovery
and to a client that comes back, and strongly fair to writing: a connection may break
at any event, but not each time before an event has passed. Codex owes nothing, and a
turn that never ends keeps no property from holding: a host on `/events` catches up
with what there is, and a compatible client is answered if the turn has ended.

## What the runs found

1. `steer`: a create request in mode `steer` is sent to the active turn before its
   idempotency key is looked up (`scheduler.py:417`), so a retry sends the input
   again, against `broker/README.md:202`.
2. `drain`: `_wait_for_workers` waits for a snapshot of the futures
   (`scheduler.py:735`), and `_worker_count` then looks at those there are by now. A
   caller that was inside its create call when the drain began may have its turn accepted
   and submitted while the wait for an empty snapshot returns; the drain then cuts this
   accepted turn with "drain timed out" before its timeout. A queued turn that
   `_advance_queue` submits during the wait meets the same end.
3. `overlap`: an interrupt between the activation of the context and `turn/start`
   ends the broker's turn, but the worker sends `turn/start` all the same
   (`scheduler.py:1070`) and returns at once; Codex runs the turn on while the
   next one of the thread starts.
4. `misrouted`: a `turn/completed` that arrives after its turn was detached is
   routed by its Codex thread (`app_server.py:508`) and ends the next turn.

Further observations, which contradict no sentence of the documentation and have
no run:

- `update_turn` reads the row and writes its status back in two transactions
  (`state.py:343`, `357`). A registration that overlaps `finalize_turn` turns a
  terminal row back into a running one, after its terminal event, and nothing settles
  it before a restart. `ClosedOnce`, `LeftClosed`, `SettledBeforeHandOver` and
  `AcceptedTurnsSettle` fail without their exception for `lost`.
- A notification without a thread id can find no context, while the worker
  registers the turn and pops the empty buffer before the reader buffers it: the
  completion is never delivered, and without a turn timeout the worker waits for
  ever. `ExecutionsEnd` holds with `ThreadIsNamed = FALSE` only because it excepts
  such turns (`Overlooked`).
- A completion between the expired wait and `fail()` leaves a row `timed_out`
  with a `turn.completed` event.
- An error reply to `initialize` leaves a child running outside the pool
  (`LeftBehind`). `_reserve_child_slot` would also drop what it has evicted if it
  raised afterwards (`app_server.py:953`); that it never does is proved.
- The lock of a creation gate has no order (`app_server.py:858`), so a user may be
  overtaken while others fail to start a child. An exception of the database while a
  request is announced is outside the `try` block (`app_server.py:566`).
- Accounts: a plain logout keeps its login session, so a late watcher writes its result
  over the logged-out status. `mark_runtime_auth_failure` runs without the guard: it
  may stamp a newer credential as failed, insert the row of a deleted profile again,
  and close the children of the account that took its place. `status()` may write over
  a concurrent `refresh_failed`. None of this lets a turn run on another account.
- A turn may be accepted on a thread that was archived between the check of its status
  and the insertion (`scheduler.py:409`).
- Streams: a compatible stream ends at the first look that finds a terminal row, also
  when a later page is unread, since what completes the answer is read again from the
  events. That reads the oldest `max_events_per_turn` events, while pruning keeps the
  newest: `CompletedIsWhole` holds up to that limit. An interrupt or a timeout flushes
  in a thread other than the reader's, so that the pieces of such a turn may be out of
  order or missing, and the exception path of `_run_turn` does not flush.
- Notifications that name the turn and not the thread are buffered until its id is known;
  the reader and the worker replay them without a lock, and the last 50 are kept
  (`app_server.py:541`). The text of such a turn may be out of order, or lose pieces.
- Overlays: an overlay whose removal fails, or is not reached because closing the child
  raised (`scheduler.py:1141`), stays until the next start. While another thread closes
  the child, the overlay is removed under it.
- Bundles: `broker/README.md:122` says that the digest of a snapshot is verified before
  Codex starts; the code computes it and writes it to the audit. Two uploads of
  different manifests under one id are both accepted if they overlap
  (`bundles.py:360`), and the last record wins. A mount may change between the
  acceptance of a turn and its run (`scheduler.py:937`); what was mounted last counts.

## What is proved

Every theorem is about the `Spec` of its component, for all values of the constants
that satisfy the component's named assumption; nothing is assumed of fairness.

### The scheduler

`TurnSchedulerProofs`, from `SchedulerAssumption`:

| Theorem | Statement |
|---|---|
| `TypeCorrect` | `TypeOK` is invariant |
| `GateProtocol` | `GateInv` is invariant |
| `OneTurn` | `OneTurnPerThread` is invariant |
| `ActiveCurrent` | `ActiveIsCurrent` is invariant |
| `NoStranding` | `NoStrandedQueue` is invariant |
| `Refinement` | `Spec` implements `ThreadQueue` |

`OneTurnPerThread` is not inductive. A create or a hand-over submits a turn; that
it is the only live one of its thread follows from the gate: live work holds the
gate (`LiveHoldGate`), so a free gate has no live work. That the turn taken from
a queue is not live yet, and belongs to the thread, needs `QueuedAreNew`, and that
a new turn is not live needs `AbsentAreIdle`. The converse, `GateIsHeld` (a taken
gate has live work, and a non-empty queue a taken gate), holds until a shutdown
cuts work short and gives `NoStrandedQueue`. `GateInv` is the conjunction, and
`TypeOK /\ GateInv` is inductive.

The proof does not go through all actions for each conjunct. Every step is
first classified by what it does to the gates (`StepsAreGateSteps`): it leaves
them as they are, accepts a turn, starts the next, lets one leave, stops, or
forgets everything. Each class is then shown to preserve the protocol once. The
refinement uses the same classes: each maps to a step of `ThreadQueue` or to a stutter.
The current turn of a thread is defined from the live turns; `OneTurnPerThread` makes
that one turn, before and after the step.

`TurnAdmissionProofs` adds what rests on the rows and the counter:

| Theorem | Statement | Invariant |
|---|---|---|
| `OneTurnForAKey` | `OneTurnPerKey` is invariant | `KeysMakeOne`: two rows of a thread with one key are one |
| `SettledFirst` | `SettledBeforeHandOver` is invariant: settled before the gate goes, but for overwritten rows | `Settled`, which says it from the clean-up on |
| `CounterExact` | `OutstandingExact` is invariant | `Counted`, on the stages in which slots are still returned |

`CounterExact` needs the gate protocol: a hand-over moves one turn from the queued to
the unreleased and leaves the sum alone only because the turn was in no queue twice
and not live. `SettledFirst` is about every turn outside `lost`: a late `WriteRow` either
leaves the row as it is or puts its turn there. That a cancelled future opens its gate
only when its row is settled is `Settled` for the stage `settled`.

### The execution of a turn

`TurnExecutionProofs`, from `ExecutionAssumption`:

| Theorem | Statement |
|---|---|
| `ClosingInvariant` | `ClosingInv` is invariant |
| `OneClosing` | `ClosedOnce` is invariant |
| `WorkersLeaveClosed` | `LeftClosed` is invariant |
| `TypeCorrect` | `TypeOK` is invariant |
| `RepliesAreAwaited` | `RepliesAwaited`: a reply on the pipe is awaited, and the only one to its request |

`ClosedOnce` alone is not inductive, because `register_turn` writes back a status it
read earlier. `RegistersAgree` says what saves it: one thread of control at a time is
inside for a context, and a terminal status it has read is still that of the row; so
what it writes is either the row as it is or an unfinished status, which is the
exception (`lost`). `HeldAreBegun` says that nobody, not the reader, the caller or the
tables, holds the context of a turn that has not been attached. Of Codex this part
uses only that its messages name turns.

`TypeOK` is not inductive either: `ReadReply` wakes whoever a reply names, and would
make an attached turn of a caller that has long been idle. So the second part shows that
whoever a reply on the pipe names still waits for it (`Waits`), and that there is never
a second one: Codex answers a request when it takes it up, and its asker waits from then
on until the reply is read or the child dies with the pipe. `TypeInv` adds that what
a thread of control has in hand is a turn, and a message it has read one of Codex's.

### The pool

`AppServerPoolProofs`, from `PoolAssumption`:

| Theorem | Statement |
|---|---|
| `OneCreation` | `OneCreationPerKey` is invariant |
| `ClosedPool` | `ClosedStaysEmpty` is invariant |
| `PoolInvariant` | `PoolInv`, which contains `TypeOK`, is invariant |
| `ChildCap` | `WithinLimit` and `SlotsExact` are invariant |
| `NoLostChild` | `NoOrphan` is invariant |
| `TypeCorrect` | `TypeOK` is invariant |
| `LeaseInvariant` | `LeaseInv` is invariant |
| `LeasesCount` | `LeasesExact` is invariant |
| `HeldChildStays` | every step satisfies `HeldIsKept` |

The creation gates exclude because whoever has joined a gate finds it in the table
under its key (`JoinedIsListed`): the last to leave takes a gate down, so that two
users of a key never join different ones. `NoOrphan` rests on two more facts. A
child that is being started finds no other under its key (`KeyClear`), which follows
from the gates, so publishing it overwrites nothing. And `_reserve_child_slot`, which
drops what it has evicted when it raises, has then evicted nothing
(`NothingEvicted`): within the limit one eviction is enough, so it raises only when
none was possible. Hence the cap (`WithinLimit`, from the exact count of the reserved
slots) is part of the invariant.

The leases of a child are counted in one place and its users are spread over many, so
`LeasesExact` needs to know who can have which child. `Ownership` says it: who is in
no stage that owns a child knows none (`Unheld`), so that a failed `get` has nothing to
release; a child that is being started is known to nobody else (`Fresh`), so it enters
the pool with the one lease of its starter; a child is pooled once and under the key it
was asked for (`PooledOnce`, `UnderItsKey`), so that taking the child of a key out of the
pool touches no other user's; and the key of hosted tools has one user (`OneOfHosted`),
who alone closes what he has used. With that, each step changes the lease of at most
one child by the number of users it gains or loses, or takes a child out of the pool
with all its leases. `HeldChildStays` follows step by step: a sweep, a retirement and an
eviction look at the lease count, which is zero only if nobody holds the child, or take
what is dead; the end of a hosted turn closes the child of its own key. The exceptions,
named by the property, are an administrator and the shutdown.

### Host interactions

`InteractionsProofs`, from `InteractionAssumption` and `ResponseAssumption`:

| Theorem | Statement |
|---|---|
| `AnswerInvariant` | `AnswerInv`, which contains `TypeOK`, is invariant |
| `TypeCorrect` | `TypeOK` is invariant |
| `HostDecides` | `HostTold` is invariant |
| `FailClosed` | `OnlyHostsGrant` is invariant |
| `Implementation` | `Spec` implements `AnsweredOnce` |

The invariant says that memory and row never disagree (`MemoryAgrees`): an answer is
settled in memory once, under the lock, and only while the request is listed, and
everybody who writes the row writes that answer; and that the thread sends after it
has recorded (`RowByStage`), so that a restart finds the rows of all that was sent
decided. Every step is then a step of `AnsweredOnce` or a stutter; the recovery is
one that decides many requests at once.

`FailClosed` rests on two facts about responses, that a safe response is valid and
grants nothing (`SafeResponses`) and that a validated one is again valid and decides
what the host decided (`ValidatedResponses`), and on an invariant of its own: no
response of a host is taken, kept or sent that is not valid for its request (`FitInv`).

### Accounts

`AuthProfilesProofs`, from `ProfileAssumption`:

| Theorem | Statement |
|---|---|
| `ProfileCorrect` | `ProfileInv`, which contains `TypeOK`, is invariant |
| `ProfileTypes` | `TypeOK` is invariant |
| `OldTurnsFailClosed` | `TurnsRunOnTheirAccount` is invariant |
| `LogoutLeavesNothing` | `LogoutIsThorough` is invariant |
| `ReportsAreTrue` | `AuthenticatedWasLoggedIn` is invariant |

All three properties come from one idea: whatever could carry a credential (the file,
a child, a login process) carries one that was made for the instance there is
(`FileIsOwn`, `ChildrenAreOwn`, `LoginsAreOwn`). That survives the change of the
instance because nothing is left by then: a logout takes it apart in a fixed order
under the guard (`LogoutSteps`), and without a row there is nothing
(`NothingWithoutRow`). The steps that do not hold the guard are the ones to look at: a
child that renews its credential, a login process that stores one, and a worker that
records an authentication error.

### Event streams

`EventStreamProofs`, from `StreamAssumption`, for any number of items, pieces, events
and any size of the pages:

| Theorem | Statement |
|---|---|
| `NothingIsMissed` | `StreamHasNoGaps` is invariant |
| `TypeCorrect` | `TypeOK` is invariant |
| `StreamInvariant` | `StreamInv` is invariant |
| `NoTextIsLost` | `TextPreserved` is invariant |
| `AnswersAreWhole` | `CompletedIsWhole` is invariant |

Reading needs of the producers only that they append, and of pruning that it takes the
oldest events; a page that is being written begins where what was sent ends
(`PageContinues`).

Writing is harder, because a text that has left the sanitizer is for a while only in
the hands of a thread, which appends it later and may be overtaken. `Coming` are the
texts that a thread has yet to append. Texts are intervals of pieces, so that "recorded
once" is an order of intervals: all that is recorded or coming lies within what has left
the sanitizer (`Bounds`), recorded texts of an item follow each other (`Recorded`) and
what is coming follows what is recorded (`Order`). When something has gone `astray` (an
interrupt, a timeout, a failure, a crash, or a notification that does not name the
thread), two threads may swap two texts, and following weakens to being apart. Until then
the reader thread is alone (`Alone`) and nothing was ever buffered or replayed (`Prompt`).

That nothing is missing needs the end of the turn. `TurnInv` says that as long as
nothing has gone astray the status is set only by the last step of `turn/completed`
(`Ended`), after everything was flushed, and that whatever is flushed still has its
item's identity (`OnTrack`): an item without one is dropped by the code. `Covered` then
says that every piece outside the sanitizer, every finished item and the usage are
recorded or coming to the reader, as long as nothing has gone astray or been pruned.
When the row is closed nothing is held back and nothing is coming, so all of it is
recorded: that is `TextPreserved`, and for the notes from which an object is built
`CompletedIsWhole`. `Results` remembers for a client that was told an error why it was
right.

### Bundles

`BundlesProofs`, from `BundlesAssumption`:

| Theorem | Statement |
|---|---|
| `BundlesInvariant` | `BundlesInv` is invariant |
| `TypeCorrect` | `TypeOK` is invariant |
| `OverlaysCleaned` | `OverlaysBelongToTurns` is invariant |
| `ToolsKeepTheirOverlay` | `ToolsHaveTheirOverlay` is invariant |
| `RunsOnWholeBundles` | `RunsWholeBundles` is invariant |

The overlay of a turn exists from the copying to the clean-up, or after it if its removal
failed (`OverlayInPlace`); a child that nobody has told to close belongs to a turn before
its clean-up (`ToolsServe`), which is why its overlay is whole whether or not removals
fail; a
snapshot that has been ended stays whole until then (`SnapshotsWhole`), and what has been
copied is within the limits at every moment (`SnapshotsFit`). The last is not the check
of the code: it looks at an entry before it is read, and again at what has been read. A
lemma shows for each kind of entry that whatever passes both checks leaves the copy
within every limit, the sum of the bytes included.

## What is only model-checked

- Liveness (`AcceptedTurnsSettle`, `ShutdownEnds`, `ExecutionsEnd`, `RowsSettle`,
  `RequestsAnswered`, `StreamsServe`): the prover has no fairness or `ENABLED`.
- The four violated properties of the findings need no proof; their counterexamples
  are the evidence.

Every other property of a passing run, type invariants, refinements and the action
property included, is a theorem.

## Not modelled

- `sandbox_probe.py`: a sequential script under one lock that keeps its last verdict;
  a turn reads the verdict once, and any verdict is `PreflightFails` in `TurnScheduler`.
- `config.py`, `scheduler_config.py`, `identity.py`, `openai_auth.py`,
  `runtime_errors.py`, `util.py`: parsing, policies and classification without state.
- Of the compatible API: the parsing and resolution of requests, the listing of models,
  the chain of previous responses (`_previous_history`) and the cancel request, whose
  effect on a turn is `InterruptTurn`.
- `tool_adapter_mcp.py` beyond its life time: it answers one request after the other.
- Audit entries, metrics, the processes table and the schema.
- The patterns of `security.py` and the syntax of manifests: text, of which only the
  decisions are modelled.
- `client.py`, `src/client.py`, `src/init_suite.py`, `src/test_suite.py`: clients and
  scripts, which run one request after the other.

## What could follow

1. The chain of previous responses with its checks of completeness, and the loop of the
   cancel request, beside `EventStream`.
2. Proofs of how components depend on each other: that the lease a turn has in
   `AppServerPool` is the child its context in `TurnExecution` is registered with.
