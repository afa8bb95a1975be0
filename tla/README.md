# A verification project for codex-auth-wrapper (CAW)

CAW puts several terminal windows in front of one shared Codex app-server and
lets the user switch the account behind all of them. One **broker** process
owns the account; one **host** process per window owns that window's Codex
child. The broker's hard part is that one switch is visible everywhere: files,
the app-server, every window, every running turn.

This directory holds TLA+ models of the broker and the host, the TLC
configurations that check them, and theorems proved with TLAPS. Paths below
are relative to `src/`.

## The system

| Part | Source | State | Operations | What makes it hard |
| --- | --- | --- | --- | --- |
| Switch coordinator | `internal/broker/switchflow/coordinator.go` | none: records in, decision out | RequestSwitch, Reconcile, Force, Cancel, ClearStaleOnStartup | works on records loaded earlier |
| Session manager | `internal/broker/sessions/manager.go` | runtime map (memory), `sessions.json` | RegisterHost, HandleHostDisconnect, Unregister, UpdateState, ReturnHome, PrepareLaunch, RecordThread, SetGatewayConnected, NoteTurn..., Readiness | two writers of "is it connected"; file writes without a lock |
| Service | `internal/broker/service.go` | `switchMu`, `refreshing` | IPC methods, gateway callbacks, reconcile | handlers with and without the lock interleave |
| Runtime controller | `internal/broker/runtime/controller.go` | `state.json`, `broker.json`, vaults, live `auth.json`, app-server fields | CommitProfileSwitch, EnsureActiveProfile, ReconcileStartup, Shutdown | several files, a process, failures and crashes in between |
| Gateway | `internal/broker/gateway/server.go` | connections, pending requests, observation queue | proxying, inspection, dispatch, teardown | goroutines, a bounded queue, two inspections of each frame |
| IPC | `internal/ipc` | pending calls, one pipe per window | Request, readLoop, Close, handleConn, SendEvent | concurrent callers, late answers, a bounded pipe written under the mutex that delivery needs |
| Host runtime | `internal/host/runtime.go` | `SignalBuffer`, the launch loop | EnterCodex, reloadAfterExit | notices, exits, Ctrl+C and commits race |
| Store | `internal/store` | the files | load, save (rename), auth copies | load-modify-save without a lock |
| Status refresh | `internal/broker/service.go`, `internal/codex/profile_usage.go` | profile files, vault tokens, `refreshing`, `refreshRunMu` | homeSnapshot, startBackgroundRefresh, runProfileRefresh, addProfile | a flag without a lock, rotating tokens, contexts that expire while waiting |
| Command line, broker processes | `cmd/caw/main.go`, `internal/broker/service.go` | the processes, the pipe | ensureBroker, start, stop, restart, idle shutdown | brokers that overlap share all files; only the pipe keeps them apart |
| Home screen | `internal/homeui/app.go` | shown snapshot, cursor, timers | Update and its keys, refreshCmd | answers come in any order and may outlive the program |
| ConPTY, control client | `internal/host/conpty`, `internal/codex` | terminal and websocket I/O | | not modelled: only their effects are |

Interaction: a window calls the broker over its IPC connection, which serves
one call at a time in the order they were sent; the broker pushes
`reload.notice` and `switch.notice` events back. A Codex
child talks to the app-server through the gateway, whose dispatcher calls back
into the service. The service serialises switches with `switchMu`;
`launch.prepare`, `settings.update` and the session calls do not take it.

## Modules

| Module | Models | Depends on |
| --- | --- | --- |
| `Coordinator` | the coordinator's decisions, as operators | |
| `SessionManager` | one session's runtime entry, as operators | |
| `ProfileSwitch` | **abstract**: what the broker promises about the one account | |
| `SwitchFlow` | the switch protocol: lock, requests, reconciles, windows, gateway callbacks, launches | `Coordinator`, `SessionManager`, refines `ProfileSwitch` |
| `AuthRuntime` | the controller step by step over files and processes | |
| `Gateway` | the connections of one session: proxies, queue, dispatcher, teardown | `SessionManager` |
| `HostReload` | launches, notices and exits of the windows while switches commit | |
| `BrokerLifecycle` | broker processes: startup, the pipe, stop, restart, idle shutdown, crashes | |
| `SessionRecords` | records of `sessions.json` and what each operation makes of one | |
| `SessionStore` | **abstract**: what the manager promises of `sessions.json` | `SessionRecords` |
| `SessionsFile` | the manager's load, change and save, and `writeJSONAtomic` | `SessionRecords`, refines `SessionStore` |
| `StatusRefresh` | background and forced status refreshes, `profile.add` | |
| `RemoteCalls` | **abstract**: what a caller is promised of a call to the broker | |
| `Ipc` | one IPC connection: callers, `readLoop`, `Close`, `handleConn`, events | refines `RemoteCalls` |
| `HomeScreen` | the Home screen's program: messages, keys, requests, timers | |
| `MC...` | symmetry for TLC | the module of that name |
| `...Proofs` | theorems | the module of that name |

### SwitchFlow

A handler under `switchMu` is two steps. The first takes the lock, reads
`state.json`, `broker.json` and the readiness and decides (`RequestSwitch`,
`Reconcile`, ... of `Coordinator`); the second saves or commits the decision
and releases the lock. Everything that needs no lock happens in between, so
the record a handler saves is as stale as it is in the code. Each IPC handler
and gateway callback that ends in `reconcilePendingSwitch` puts its caller in
a queue (`hostQ`, `gatewayQ`), and a caller in the queue does nothing else:
that is the "one call at a time" of an IPC connection and of a gateway
dispatcher. `launch.prepare` is three steps (pending check, EnsureActiveProfile
whose `markActiveProfile` stores a cleared switch context, PrepareLaunch),
none with the lock. `CommitProfileSwitch` is one step with four outcomes: how
far it got before a step failed.

### AuthRuntime

One action per step of `CommitProfileSwitch`, `EnsureActiveProfile`,
`ReconcileStartup`, `launch.prepare` and `settings.update`. A handler (`job`)
remembers the records it loaded, so stale writes are stale. The broker may
crash between any two steps, an app-server may exit at any time, steps may
fail. A credential is its owner and how often it was refreshed. `Overlap`
names the lock-free handlers that may interleave with others and `Events` the
further events (an unreadable vault copy, a token refresh by the app-server
that is about to be replaced, a usage refresh of a vault).

### Gateway

A connection (`handleWebSocket`) is announced, open, cancelled, leaving and
closed. `proxyFrames` inspects each frame, writes it and inspects it again.
An observation waits for room in the queue or for the cancellation; the
dispatcher calls the manager and then waits in the callback's reconcile. The
app-server (external) sends any order of turn, thread and status frames that
its turns and requests allow, answers requests with a thread or an error, and
sends requests of its own (approvals), whose ids it chooses. `trackResponse`
matches by id alone, so a request of the app-server with the id of a noted
request (one unanswered, or one the second inspection noted again after its
answer) takes the entry and, having no result, is an observation of the
thread that request named. `crossed` remembers that this happened. The client
(external) numbers its requests and uses no number twice on a connection.

### HostReload

A commit saves the epoch, shuts the old app-server down (children are cut
off), marks the epoch active and broadcasts it one connection after the
other. A window's notice goes from its IPC connection to the one-place buffer
and from there to the loop of `EnterCodex`. `launch.prepare` reads the epoch
in one step and starts the child in another, so a commit can fall anywhere.
After the grace period the child is killed, once for a notice (`killed`); with
`"kill"` in `Failures` that may fail, and its error is ignored.

### BrokerLifecycle

A broker process resets the sessions, ensures the profile, listens, serves and
goes down; `stage` is how far it is. `records` and `server` are the shared
`sessions.json` and `server.state` of `broker.json`; `app` is each process's
own app-server. Callers (windows, and the commands stop and restart) go
through `ensureBroker`: a probe that another broker may answer, a start, a wait
and a second dial. A stop (told or idle) is a goroutine that shuts gateway and
app-server down while the pipe still accepts calls, then closes the pipe.
`maybeScheduleIdleShutdown` puts the caller's idle check in `timers`; it looks
once, and looks no more when it cannot read `sessions.json` (the broker is in
`unread` until a call makes another check). Each call that loads or saves
`sessions.json` may fail, and so may the reset of a startup, after which the
broker serves with the records that are there; a window that quits although
its unregister failed has "left". Any process may crash at any point, and its
app-server with it or not: no other broker ever looks at that.
`EnsureActiveProfile` is one step here and many in `AuthRuntime`, which in turn
knows one broker at a time.

### SessionsFile

Each handler of the session manager is five steps: it is asked, loads the
file, opens and truncates `sessions.json.tmp`, writes it, renames it. A job
keeps the mirror it loaded and changed, so what it saves is as old as it is in
the code. Nothing is locked there, and `Overlap` says whether handlers of
several connections (a host's, a gateway's dispatcher) may be inside at once;
`DiskFails` lets any step fail. Without `Overlap` handlers still run at once
and only the stretch from load to rename is one handler's at a time: that is
what a lock would have to cover. A startup whose reset fails goes on serving
with the file it found. Files behave as on Windows, the only system
the program runs on: what somebody holds open can be truncated but not
renamed. `SessionStore` is the promise: an update is done whole or not at all,
and the caller is told which. `MirrorsLiveSessions` ties the file to the
windows that are there.

### StatusRefresh

A `home.snapshot` reads the flag in one step and sets it in another; the
goroutine it starts waits for `refreshRunMu`, lists the profiles, starts one
goroutine for each that is due, and clears the flag at the end, whoever set
it. A forced snapshot does the same inside its request, for all profiles, and
so does `profiles.refresh`, for all or for those that are due (`Callers` are the
connections that send it; the windows of this repository do not). A refresh
that fails is an error of `profiles.refresh`; a forced snapshot only records a
degraded reason (`degraded`), and answers.
`profile.add` makes the directory, then `profile.json`, then refreshes without
lock or flag. A background context may expire at any time from its start on, a
file may fail in any goroutine. Whether the usage service answers or fails is
no difference here: both are saved as a check. Nothing in the code disables a
profile, so all are enabled.

### Ipc

A call takes the mutex, enters the table of pending calls, writes into the pipe
while it holds the mutex, and waits for its answer, its deadline or the end of
the connection; in the end it leaves the table under the mutex. `readLoop`
takes the mutex to look an answer up, releases it, and delivers into the
call's channel of one. `handleConn` reads, handles and answers one request at
a time; handlers of other connections write events into the same pipe. Either
end may go at any time; `Close` looks at `closed` in one step and closes it in
another, and `crashed` is the panic of a second close. The abstract
`RemoteCalls` says what callers rely on: at most one execution, and an answer
only to one's own call.

### HomeScreen

The messages and keys of `Update`, one at a time. Each request is a slot:
asked, carried out by the broker (with the changes that `profile.select`,
force, cancel and `settings.update` may make), answered, and handed to the
program, or dropped when that has ended. Other windows change the broker's
state, with and without notices; the two timers re-arm themselves. A snapshot
is its number of profiles, the selected one, whose switch is pending and the
setting.

## What the runs check

Properties that hold:

| Run | Property | Meaning |
| --- | --- | --- |
| `SwitchFlow` | `NoLostWakeup` | a pending switch nothing will look at again waits for a session that is really busy |
| | `BlockingCountCurrent` | the stored busy count is the true one once nothing is on its way to refresh it |
| | `OwnerKeepsPending` | a pending switch never changes its initiator |
| | `ImplementsProfileSwitch` | refinement of `ProfileSwitch`: one commit per request, one epoch per commit, no take-over |
| | `SettlesWhenIdle` | an idle system does not sit on a pending switch |
| | `NoZombieEntry` | the runtime map keeps no entry that nobody will clear |
| `AuthRuntime` | `VaultsPure` | no vault ever holds another account's tokens |
| | `ReusedServerIsSelected` | an app-server a launch would reuse runs with the selected account's tokens |
| | `ActiveMatchesSelected` | between handlers, a usable app-server is the selected profile's, in its epoch |
| `AuthRuntimeEpochs` | `EpochNamesOneProfile` | an epoch stands for one account, for launches too |
| | `ActiveEpochCurrent` | a record of the selected profile that a launch would reuse has the selected epoch, whatever launches interleave |
| `Gateway` | `RecordedThreadIsOpened` | failed requests, early answers and double inspection leave the right thread recorded, unless a request of the app-server was taken for an answer |
| | `IdleSessionIsFree` | without status frames, the busy count returns to zero with the last turn |
| `GatewayStatus` | `RunningTurnCounts` | a running turn counts once its frames are dispatched |
| | `NoTurnsAfterTeardown` | nothing counts after a disconnect |
| | `TeardownCompletes` | a cancelled connection ends, with both proxies, whatever its queue holds |
| `HostReload` | `NoLostNotice` | a window with an old child has a newer notice coming, wherever its launch was |
| | `EachReloadAdvances` | no trip round the launch loop is for nothing |
| | `StaleWindowReloads` | no window sits for ever on a stale child that can be killed |
| `BrokerLifecycle` | `LaunchHasServer` | a launch gets a running app-server of its own broker, whatever a crashed or second broker left in `broker.json` |
| | `LoserLeavesNoServer` | a broker that finds the pipe taken leaves no second app-server |
| | `NoLostIdleCheck` | a broker whose last window has quit stops or will look again, whatever earlier checks and other brokers' startups did, unless its check could not read `sessions.json` |
| `SessionsFile` | `MirrorsLiveSessions` | outside a window's own calls the file has a record for it just while it is connected, whatever fails or crashes in between, as long as load-to-rename sections do not overlap |
| | `ImplementsSessionStore` | refinement of `SessionStore`: no update is half done, none is done and reported as failed |
| `StatusRefresh` | `OneRefreshAtATime` | no two refreshes use a profile's rotating token at once, `profile.add`'s apart |
| | `FlagMeansWork` | the unlocked flag never stays behind, or no background refresh would start again |
| | `ForcedChecksAll` | a forced `profiles.refresh` without error, and a forced snapshot without a degraded reason, follow a check of every profile made since they were asked for |
| | `DueProfilesGetChecked` | a profile that is due is checked in the end, through expiring contexts and failing files |
| `Ipc` | `ImplementsRemoteCalls` | refinement of `RemoteCalls`: late answers, timeouts and closing never give a call another's answer |
| | `CallsEnd` | every call returns, without a deadline too |
| | `EventsGetThrough` | no late answer stops the reading of events, and with it the handler that sends them |
| `HomeScreen` | `HomeTypeOK` | the cursor is on a profile that is shown, with stale snapshots too |
| | `ScreenCatchesUp` | a window that stays at Home shows the broker's state in the end |

A disagreement between the code and its documents, shown by a run that expects
a violation:

| Run | What happens | Document |
| --- | --- | --- |
| `SessionsFileOverlap` | two handlers inside `sessions.json` at once lose an update or leave the file unreadable: a window's record is gone or stays | `docs/caw-storage-and-auth-spec-v1.md:237` |

Further disagreements seen while modelling, for which no run is kept: a launch
that passed its pending check clears the switch that became pending since
(`controller.go:198`, pending switch document lines 21-22); with `Overlap =
{"launch"}`, `AuthRuntime` violates `ActiveMatchesSelected`: a launch restarts
the app-server under the profile it read before a switch (`service.go:488`,
broker-runtime.md:63); with `Events = {"copy_in_fails"}` it violates
`VaultsPure`: after a switch that failed between its save and its copy, the
next one saves the old account's tokens as the new one's
(`controller.go:97`); `restart` probes before the broker it told to stop has
stopped, and ends with none (`main.go:57`, command surface document line 164);
with `Overlap = {"settings"}`, the epoch of `AuthRuntime` goes back, and both
properties of `AuthRuntimeEpochs` are lost: a settings update writes back the
whole of an older `state.json` and undoes a switch (`service.go:530`, lifecycle
spec 376); with `Overlapping = TRUE` and two
connections, `Gateway` violates `RunningTurnCounts`: the late teardown of a
reloaded child's old connection zeroes the busy count of the new one
(`manager.go:222`, pending switch document line 55); a request of the
app-server whose id is a noted request's is taken for its answer, and the
recorded thread is missing or an old one (`gateway/server.go:419`; without
`~crossed`, `Gateway` violates `RecordedThreadIsOpened`); a child whose kill fails
is not killed again (`host/runtime.go:210`, broker-runtime.md:68); a window that dies leaves
its record, and the broker never becomes idle (`service.go:852`); an idle check
that cannot read `sessions.json` is the last one (`service.go:853`), and a
failing `session.unregister` schedules none although the window quits
(`service.go:542`); a broker whose startup cannot reset `sessions.json` serves
with the records of the last one (`service.go:68-70`, 91); a forced snapshot
whose refresh failed answers with the old statuses and no error, and only says
so by a degraded reason that an earlier failure may have left
(`service.go:228-231`);
a turn counted between a reconcile's read and its commit is cut off
(`service.go:452`, broker-runtime.md:65); a failed app-server restart leaves
`reloading_sessions`, not `degraded` (`service.go:453`, lifecycle spec 357);
with `Events = {"refresh_in_switch"}` an app-server about to be replaced can
write its tokens over the copy made for the target (`controller.go:73`); a
usage refresh of the active profile's vault is overwritten by the next
copy-back (`controller.go:97`); a full observation queue holds frames
(`gateway/server.go:242`, broker-runtime.md:33); an idle status does not
repair a busy count (`manager.go:258`, pending switch document line 57);
observations queued at teardown are dropped (`gateway/server.go:222`); a child
that gives up before the new epoch is marked goes Home (`host/runtime.go:236`)
and Ctrl+C during a reload relaunches (`host/runtime.go:181`). In the status
refresh, the flag may be cleared by the refresh before one that waits, so that
`RefreshInProgress` is false while one runs; the 20 seconds of a background
refresh start before its wait for the lock, and an expired context is saved as
`auth_failed` (`service.go:705`, 738); `profile.add` refreshes without the lock,
so that it and a background refresh may spend the same refresh token, and one
saves a failure over the other's result; a profile directory without
`profile.json` makes every snapshot fail; `setDegraded` saves a `broker.json` it
loaded without `switchMu` and nothing ever clears its reason (`service.go:839`,
lifecycle spec 360-362). In IPC, two closers of one client may both close
`closed` and panic (`client.go:48`), and connection ids are taken from the
clock (`server.go:170`): two connections accepted within one tick of it share
one. On the Home screen every snapshot moves the cursor back to the selected
profile, and a `profile.select` under way when Enter is pressed is carried out
after the launch.

### Bounds, and why they are enough

- `SwitchFlow`: two windows (one that asks, one that is busy, or both both),
  two profiles (a retarget may go back to the selected one), one connection
  per window, one counted turn, requests at epoch 0 only (so at most two
  commits: a stale one would show as the second). `MaxTurns = 1` because
  readiness only asks whether the count is zero. The theorems cover every
  number of each, and `NoZombies` more connections and failing commits.
- `AuthRuntime`: three profiles, so that the previous, the current and the
  next account of two switches differ; two process ids (an old app-server and
  its successor); one refresh per credential. `MaxEpoch` bounds switches, not
  startups, crashes or launches.
- `Gateway`: a queue of 1 or 2 is full as early as the code's 64 would ever
  be; two requests and two threads make an answer that belongs to the other
  request, and an id of each that a request of the app-server may have;
  `MaxCount` only stops a cancelled connection from counting for ever.
- `BrokerLifecycle`: two processes are enough for an overlap and for a
  successor, two windows for one that quits while another comes, one command.
  The idle checks due for one window are one: only the latest matters to
  `NoLostIdleCheck`, and any of them may stop the broker. The theorems cover
  every number of each.
- `SessionsFile`: two windows, each with a host and a gateway dispatcher, and
  the broker's startup are five writers of the one file; a lost update needs
  two of them. One thread is enough to tell a record with one from one
  without.
- `StatusRefresh`: two windows and two background refreshes, so that one waits
  for the lock while the flag of another is cleared; a known profile and one
  that is added; a pool of one goroutine, so that one waits for it; one fault.
  One of the windows also sends `profiles.refresh`, the other only snapshots.
- `Ipc`: three calls over a pipe with room for one message fill it in both
  directions; one has a deadline, one an error. `CallsEnd` needs the room: with
  `Capacity + 3` calls at once (here four) it fails, because a sender holds the
  mutex on a full pipe, `readLoop` waits for the mutex, and the broker waits for
  room for its answer. The pipe takes 64 KB each way and a window has a handful
  of small calls under way, so the bound is below what a real pipe holds.
- `HomeScreen`: two requests at once overtake each other; two profiles, two
  changes of the broker's state and one fault. Profiles are added at the end of
  the list, which is sorted by id in the program.
- `HostReload`: two windows (one notified before the other), two switches (a
  notice replaced by a later one), failing commits, status checks and kills.

`CHECK_DEADLOCK FALSE` appears in the `SwitchFlow`, `BrokerLifecycle`, `Ipc` and
`HomeScreen` runs only: with every window gone, every call over and the
connection closed, or the Home screen quit, those systems stop.

### Fairness

`SwitchFlow`: the holder of `switchMu` finishes (its waits have timeouts); of
the senders blocked on the `switchMu` channel one gets it, since they queue in
arrival order; a host inside `launch.prepare` goes on. Nothing is assumed of
users, turns or connections. `Gateway`: goroutines run, and `select` does not
pass over a ready case for ever; sockets of a closed connection fail; nothing
is assumed of open ones. `HostReload`: a commit in progress goes on, events
travel, and the 150 ms loop runs. `StatusRefresh`: windows poll and go on with
their requests, and a background goroutine that waits for a channel used as a
lock gets its turn (Go serves them in order), hence its strong fairness; for
windows weak fairness is enough. `Ipc`: goroutines run, handlers return, a mutex
is not withheld for ever; no deadline has to pass and nobody has to close.
`HomeScreen`: requests end by their timeouts, messages are handled, and the
timer fires; its fairness is strong only because the model has so many slots
for requests, which the program has not.

## What is proved

For every value of the constants (any windows, profiles, connections, turns,
epochs); `tlapm` checks each proof to its last leaf.

`SwitchFlowProofs`
- `TypeCorrect`: the type invariant.
- `WakeupNeverLost`, `BlockingCountTrue`: assuming `Failures \subseteq
  {"ensure"}` (a commit that fails before clearing the switch leaves it
  pending with nobody to retry it). `NoLostWakeup` is not inductive: the
  strengthening says what a holder of the lock has decided, and that each busy
  count it carries is true unless a reconcile is already queued.
- `OwnerKept`: with any failures.
- `SwitchRefinement`: every step of the broker is a step or a stutter of
  `ProfileSwitch`, under the same assumption on failures.
- `NoZombies`: an entry has a connected host, or a flag that an open
  connection will clear.

`AuthRuntimeProofs`
- `TypeCorrect`; `EpochsNameProfiles` and `ActiveEpochsCurrent`, assuming only
  that settings updates do not overlap with other handlers: launches may. The
  strengthening of the first follows the pair (profile, epoch) through what each
  job has loaded. For the second, a record of the selected profile that a
  launch could reuse has another epoch than the selected one only while some
  handler, a switch that has saved `state.json` or a launch, is on its way to
  mark the selected profile with the new epoch.
- `VaultsStayPure` and `ReusedServersAreSelected`, assuming that no two handlers
  overlap, that copying a vault to Codex home does not fail and that a process
  about to be replaced refreshes no tokens (`Serial`).
  Both need one invariant: whenever the broker serves and no handler is at
  work, the live `auth.json`, the app-server and `broker.json` belong to the
  selected profile; a switch has all of that until it has saved `state.json`,
  and from the copy on. A crash in between leaves another profile's live
  `auth.json` under the new selection, and is harmless because a new broker has
  no process to reuse and copies in before it serves.

`WindowProofs` (about `HostReload` and `HomeScreen`)
- `TypeCorrect`; `ReloadsAdvance` from "a window goes round the loop only for
  an epoch newer than its child's"; `NoticesReachWindows`, for which the
  invariant adds that notices queue in the order of their epochs (the buffer
  may drop the one it holds) and that launches under way are informed too.
- `HomeTypeCorrect`: types, both timers, and the cursor on a shown profile. The
  invariant follows the lists: no snapshot, shown or on its way, is longer than
  the broker's list, each names one of its own profiles, and a `profile.select`
  on its way names one the broker has. It rests on profiles being only added;
  the broker has no operation that removes one.

`BrokerLifecycleProofs`
- `TypeCorrect`; `LaunchesHaveServers`, `LosersLeaveNothing` and
  `IdleChecksNotLost` from one invariant: records belong to windows that have
  registered and not quit, nobody is connected to a broker that has not
  listened, and a caller that calls has a broker. `NoLostIdleCheck` needs the
  first: a check that runs after the last window has quit finds no record, or
  cannot read, and then the broker is in `unread`.

`SessionsFileProofs`
- `TypeCorrect`; `MirrorsTrue` and `StoreRefinement` of every behaviour in which no
  two handlers are between load and rename at once (`[]OneSection`). The code has
  no lock that ensures it and the run `SessionsFileOverlap` refutes the first
  without it: the theorems say what exactly such a lock would have to cover and
  that it would be enough, whatever fails and whenever the broker dies. The
  invariant says that at
  most one writer is inside, that the mirror of its job is the file with its
  own update applied, and what the temporary file holds at each of its stages:
  a rename then replaces the file by exactly that.

`StatusRefreshProofs`
- `TypeCorrect`, `RefreshesExclude`, `FlagCleared` and `ForcedRefreshComplete` from
  one invariant: who is between lock and unlock holds the lock, only those and
  `profile.add` have goroutines, and each known profile of a forced refresh is
  still to be listed, in a goroutine, or checked, or the refresh has failed and
  its error or the degraded reason says so.

`IpcProofs`
- `TypeCorrect`; `CallsRefine`, from the invariant that follows a request on its
  path: a request is in the pipe or with the handler, once, and not executed
  yet; an answer, wherever it is on its way, belongs to a call that was
  executed.

`GatewayProofs`
- `TypeCorrect`, with the bound of the queue.
- `TeardownCountsNothing`, for connections that overlap too: a connection that
  is closed, closing or not open yet has no dispatcher, so nothing of it
  reaches the manager after the disconnect that clears the count.
- `RecordedThreadCorrect`, for one connection at a time. The invariant follows
  request ids (an id names one request, an unanswered one is noted, a response
  in flight is to a used id that nothing else waits for) and the thread opened
  last: it is in the frame at hand, or else the last one queued, or else the one
  recorded. That is what the two inspections of a frame and the second
  noting of a request cannot break; a request of the app-server that is taken
  for an answer can, and from there on the connection is excepted (`crossed`).
- `RunningTurnsCounted` and, if the app-server announces no status "active",
  `IdleSessionsFree`, for one connection at a time. The invariant (`Counts`)
  balances an open connection's books: the manager's count, taken through the
  observations still queued and with what is left of the frame at hand, is
  twice the number of running turns (each frame is inspected twice), or more if
  a status was taken for a missed start. The count a queue leads to is a sum
  over it; `LeadsTo` states it as the existence of the partial sums, which can
  be extended at the end of the queue and shortened at its head without an
  induction. A connection begins with a count of zero because of
  `TeardownCountsNothing`.
- `GatewayIsFlow`, for connections that overlap too: `SwitchFlow` knows the
  connections only as events (announced, counted, gone, each with a callback
  that may wait for `switchMu`), and `Gateway` has the goroutines behind them.
  `Flow` is `SwitchFlow` with the gateway's session as its only window, running
  Codex while no switch is pending; every step of `Gateway` that changes the
  entry, the announced connections or the callbacks under way is one of
  `SwitchFlow`'s gateway events or a reconcile. It needs that nothing is
  dispatched before a connection is announced or after it is gone
  (`Undispatched`), and that no callback takes the host out of the entry. The
  theorem speaks of states below `MaxTurns`, the bound `SwitchFlow` sets on a
  started turn. A thread observation changes the record's thread only, which
  `SwitchFlow` does not have: there it is an idle status. What runs while a
  switch is pending, or on the host's side, is `SwitchFlow`'s alone.

Only model-checked are `ActiveMatchesSelected`, which holds of one handler at a
time and which launches without a lock violate (`service.go:488`), and what holds
under fairness (`SettlesWhenIdle`, `TeardownCompletes`, `StaleWindowReloads`,
`DueProfilesGetChecked`, `CallsEnd`, `EventsGetThrough`, `ScreenCatchesUp`): the
proof system does not reason about fairness and ENABLED. The other invariants,
action properties and refinements of passing runs are proved.

## Not modelled

Terminal I/O and the pseudo-console, the Home screen's layout and input
fields, flag parsing, argument lists, JSON-RPC to the app-server (`control.go`,
built like `ipc.Client` with a mutex of its own for writing), bearer tokens and
URL rewriting of the gateway, a client that reuses a request id on one
connection, timestamps, usage figures, the orphaned
app-servers of dead brokers, malformed IPC envelopes. Of `setDegraded` only
whether there is a reason is modelled (`StatusRefresh`): the state it sets is
only shown, and what it may undo is named above. IPC
calls do not time out in the modules that use them (the host waits 10 seconds
for `launch.prepare` and goes Home); `Ipc` has the timeouts. The other JSON files
are written by the function that `SessionsFile` models for `sessions.json`; the
models of the switch and of the account treat each of their writes as one step.

## Order of the work

The switch and the account came first (`Coordinator`, `SessionManager`,
`ProfileSwitch`, `SwitchFlow`, `AuthRuntime`), then what the account's users see
(`Gateway`, `HostReload`), the broker's processes (`BrokerLifecycle`), and then
the layers around them: `SessionsFile`, `StatusRefresh`, `Ipc`, `HomeScreen`; the
proofs about the account, the gateway and the Home screen came last, and with
`GatewayIsFlow` the first theorem that relates two components which share state.
What would come next: the same for `SessionsFile`, whose changes to a record are
single steps of `SwitchFlow`.
