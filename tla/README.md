# TLA+ models of Fernrohr

Fernrohr is a desktop Kubernetes client written in Rust on the GPUI toolkit.
Its windows show lists of resources kept up to date by watches against one or
more clusters, some of them reached through tunnels (an `ssh -L`, a command, or
the user's own VPN). GPUI handlers run to completion on the main thread; the
cluster I/O, the forwards and their supervisors run as tasks on a tokio
runtime, and report to the main thread over channels. What goes wrong in such a
program goes wrong between a handler and a task, between two tasks, or between
two windows that share a session. These modules model that part.

All paths below are relative to `src/app/src/` of the repository.

## The system's parts

| Part | State | Operations | Talks to | Modelled |
|---|---|---|---|---|
| Session registry, `k8s/cluster/session` | context -> session: connection, recorded client, watches, holders | ensure, retry, hold, release, release_window, subscribe and unsubscribe per kind, health transition, 401, refresh | connection, watch registry, health follower, panels, windows | ClusterSessions |
| Watch registry, `k8s/cluster/watch_registry.rs` | key -> count, pause reason, task | subscribe, unsubscribe, pause, resume | owned by a session | ClusterSessions |
| Health follower, `k8s/cluster/health.rs` | last state seen, edges in a bounded channel | observe, send edge | reads the forward's `watch` channel, writes the session | ClusterSessions |
| Connection, `k8s/cluster/connection` | state, the forward handle | connect, wait for the forward, probe, drain | registry of forwards, session, picker, panels | ClusterSessions, ManualTunnels |
| Picker, `ui/picker` | the attempt it observes | select, connected, dismiss | session registry, window | ClusterSessions |
| Windows and list panels, `util/shell`, `k8s/resource/*/panel.rs` | held contexts, open panels, whether subscribed | restore, enter, disconnect, close; open, close | session registry | ClusterSessions |
| Manual tunnels, `tunnel/manual` | pending prompts, waiting contexts, the event queue | acquire, ask, resolve, withdraw, settle | supervisor, connections, status bar | ManualTunnels |
| Forward registry and supervisor, `forward/` | weak entries; state, attempt, failure | acquire, drop; connect, check, back off, give up | transports, connections | SharedForward and the three modules of tunnels |
| SSH tunnels, `tunnel/ssh` | process group, key file, pid file | connect, health check, drop | supervisor, operating system | SshTunnels, ForwardProcesses |
| Command tunnels, `tunnel/command` | process group, pid file, a stop under way | connect, stop, drop | supervisor, operating system | CommandForwards |
| Pid files, `util/pidfile` | files per live process | write, drop, sweep at start and at quit | operating system | ForwardProcesses, CommandForwards |
| Token renewal, `k8s/cluster/oidc` | tokens in the kubeconfig, two locks | lock, re-read, ask, save | issuer, kubeconfig, other copies of the app | OidcRenewals |
| Watch streams and stores, `k8s/cluster/watch_stream.rs`, `k8s/resource/*/store.rs` | rows and their index, relist in progress, load phase, what flashes | Init, InitApply, InitDone, Apply, Delete; poll, refuse, 401, pause | API server, session, panels | ResourceIndex, ObjectStores |
| Agents' actions, `mcp/approval.rs`, `mcp/foreground.rs`, `ui/agent_approval.rs` | the turn, the jobs for the main thread, the open question | call, ask, answer, time out, hang up, withdraw | windows, agents | AgentApprovals |
| Label-following logs, `util/logs/labels` | a stream per container, where each stopped, the lines shown | pick, filter, sync, read, resume, show | Pods watch, API server | LabelLogs |
| User port forwards, `port_forwards.rs`, `forward/k8s` | one held handle per request | start, stop | forward registry, API server | no: a handle per request; the forward is SharedForward's |
| Bulk and delete flows, `ui/bulk`, `delete_flow.rs` | outcome per object | start, answer | API server | no: one task, no cancellation |
| Exec, single-pod logs | byte streams | open, read, close | API server | no: I/O |
| Layouts, settings, tunnel store, discovery, rendering | files, caches | read, write whole | disk, keyring | no: sequential, or formatting |

What makes each modelled part correct:

- **Sessions and watches.** The count of a watch is the number of panels that
  use it. Its task runs exactly while somebody wants it and nothing paused it. A
  session that a window's panels depend on is not dropped under them. A watch
  paused by the tunnel is resumed when the tunnel is back; one stopped by a 401
  has a refresh under way. A panel that waits for a connection gets its watch.
- **Shared forwards.** Whoever needs the same forward shares one, from its first
  user to its last; it is never Connecting again once it was Up, and ends under
  its users only if its transport may give up.
- **Manual tunnels.** A forward that asks is in front of the user exactly once.
  A prompt does not outlive its forward, nobody connects before the forward is
  confirmed, one answer reaches everyone who waits.
- **SSH tunnels.** A connection goes through a forward to its own API server and
  shares it with the others to that server; a forward in use comes up again
  after every break; the key is on disk while it is needed (the code does not keep
  this one, see `ssh_key`) and no longer.
- **Processes.** Every ssh and every command the app started is some transport's
  or is recorded where the next sweep finds it; a stop kills the whole of a group it
  can signal; no stop ends anybody else's process, and no sweep but by the risk its
  source accepts. (The exceptions are listed under "Weaker than the docs".)
- **Token renewal.** No two renewals spend one refresh token, whatever the issuer
  rotates; no write loses the newest tokens; nobody waits for ever.
- **Live tables.** A table shows the server's objects of one moment outside a
  list, goes from version to version through every relist, pause and error, and
  catches up in the end.
- **Agents' actions.** One question is open at a time, and it is the one asked;
  the end of a call leaves every other question to its user (but not every other
  dialog); every agent hears back.
- **Logs.** The streams are the ones the panel picks; a stream that comes back
  goes on where it stopped, if the clocks agree; a line that is due is shown.

The hazards, each at its line of code with the properties that cover it or the
reason why none does, are listed in `PROJECT.json`.

A few properties are conjunctions: two halves of one statement
(`PauseIsTended`: of the tunnel's pauses and of a 401's), or a module's types
with the invariant that says how its variables fit together.

## ClusterSessions

| Variable | Code |
|---|---|
| `session[c]` | `ClusterRegistry::sessions`, with the `ClusterConnection`, the `WatchRegistry` and the health task of the session; `conn = "none"` where the map has no entry |
| `panel[p]` | a list panel: closed, waiting for its connection, subscribed; "orphaned" when the session it observes was dropped under it |
| `picker[w]` | the `Attempt` of a window's picker; `orphan` when the connection it observes is no longer the session's |
| `refresh[r]` | a detached credential refresh; `stale` when its session is gone (another of the same name may exist) |

A GPUI handler with the observers it notifies is one action: `PickerSelect`,
`Restore`, `Disconnect`, `CloseWindow`, `OpenPanel`, `ClosePanel` and so on.
The notification of a successful connect, `ConnConnected`, moves the pickers
that observe it into their workspace and subscribes the waiting panels in one
step. Tokio tasks are separate actions that interleave: `ConnWaits`,
`ConnProbes`, `ConnFailed`, `HealthObserve`, `RefreshProbes`; what they put in a
channel is applied by an action of its own (`HealthApply`, `RefreshSucceeds`).
The forward is seen through tokio's `watch` channel, which keeps only the latest
value, so `HealthObserve` may miss a flap. `Expire` is the API server's
decision to reject a client.

A client is "valid" or "expired": no property distinguishes two valid ones.
`Dropped` and `PickersAfter` say what survives a dropped session: the pickers'
handle on the connection, detached refreshes, and panels that later unsubscribe
by name.

Bounds: `Slots` limits the refreshes in flight at once (the code has no limit).
`EdgeCapacity` is the health channel's capacity: 4 in the code, 1 in the run, so
that the full channel is reached with few edges. The proofs hold for any capacity
and any number of refreshes. Counts are bounded by the number of panels.

| Run | Instance | Shows |
|---|---|---|
| `sessions_shared` | 2 windows, 3 panels on 2 keys, 1 tunnel-bound context, 2 refreshes: 77,743 states | counts, task-runs-iff-wanted, held panels, pauses and refreshes survive every interleaving of two windows with flaps and 401s; a waiting panel gets its watch, a watch paused by a flap runs again when the tunnel is back, a watch on expired credentials is replaced |

Two windows are enough for every sharing case (holder and other holder, holder
and picker, closing window and bystander); three panels give a second
subscriber on one key and a subscriber on another; two refreshes overlap and
outlive their session. Sessions of several contexts share no state; the proofs
cover any number of them.

Fairness: the runtime polls its tasks and the main thread drains its channels, so
the steps of the connect path, the health task and a refresh are weakly fair.
Nothing is assumed of the user, of the API server's verdicts or of the forward's
coming up: a connect probe ends, with success or failure, but a wait for the
tunnel may last for ever.

## SharedForward

What `forward/` promises a connection, with nothing of how: per registry key, the
connections that hold the forward (`users`) and what its `watch` channel shows
them (`state`). `Join` and `Leave` are acquire and the drop of a handle, `ComesUp`,
`Breaks` and `GivesUp` what a supervisor may publish. Acquire and drop both need
`&mut App`, so they happen on the main thread one after the other; that is why
they are single steps here and below.

SshTunnels implements it with its API servers as keys (`ImplementsSharedForward`,
checked in `ssh_shared` and proved); ManualTunnels with its one tunnel, which is
the one that may be given up (checked in `manual_shared`). Attempts that are torn
down while the next one starts, several forwards under one key for a while, and
locally joined, broken or cancelled ones are all invisible in it.

## ManualTunnels

| Variable | Code |
|---|---|
| `conn[c]` | the `ClusterConnection` of context `c`, its connect task, and the `RegistryHandle` it owns; "answered" and "refused" are a last state in the task's channel, not drained yet |
| `fwd[f]` | a `ManualTunnel` with its supervisor task and transport; "Proceed" and "Cancel" are an answer in the oneshot channel |
| `queue` | the unbounded `ConfirmationEvent` channel |
| `pending`, `waiting` | the fields of `ManualConfirmations`, for one tunnel |

The registry keeps a weak reference, so a forward lives while some connection
holds it (`Held`); when the last handle goes, `TransportDropped` is the aborted
task being dropped *later*, on another thread, while a new connection may have
started a new forward (`Acquired`). An aborted task may finish the poll it is
in, so an unheld forward may still ask or settle. Forwards are told apart by
the id of their confirmation, which the code never reuses; the model reuses a
name when nothing refers to it (`Fresh`), so `Forwards` bounds only how many
attempts overlap. Tunnels share no state but the prompt list, in which each
operation looks for its own tunnel, so one tunnel is modelled. Not modelled:
the wording of the prompt, the desktop notification, and two connections of the
same context at once (an orphaned picker's).

| Run | Instance | Shows |
|---|---|---|
| `manual_shared` | 2 contexts, 2 forwards: 23,219 states | no prompt is lost or doubled for its forward, an abandoned one has its withdrawal coming and goes, nobody connects unconfirmed, a lone retry asks again, a waiting context is prompted, one answer reaches all; to its contexts the tunnel is one shared forward |

Two contexts give every sharing case (holder and joiner, failed and not yet
failed); two forwards are a live attempt and one whose end is in flight. Fairness:
tasks are polled and channels drained. Nobody has to answer a prompt.

## SshTunnels

| Variable | Code |
|---|---|
| `hold[c]` | the `RegistryHandle` a connection owns |
| `fwd[f]` | an `SshTunnel`: the target in its registry key, the stage of its supervisor's loop, `has_been_up` |
| `keyfile` | the file of `TransientIdentityFile`, one path per tunnel and process |

One tunnel, several API servers. `Acquire` and `Release` are main-thread
handlers; the registry's weak entries make a forward live while somebody holds
it. The supervisor's steps interleave; an aborted one is dropped later
(`Dropped`). `Ready` needs the key if the tunnel has one. Left out: the backoff's
delays, a key file that cannot be written, a tunnel reconfigured meanwhile.
A session's handles are modelled as held and dropped at any time; when that
happens is ClusterSessions' and ManualTunnels' matter.

| Run | Instance | Shows |
|---|---|---|
| `ssh_shared` | 3 connections, 2 API servers, 3 forwards, with and without a stored key: 143,000 states | right server, one forward per server, the key never outlives the tunnel's use; without a key, a forward in use comes up, and again after every break; each server's forwards are one shared forward |
| `ssh_key` | the same, 2 forwards | violated: a second connection to the same server removes the key the running forward needs to reconnect; so does the end of a forward to another server |

Two connections to one server and one to another give a joiner, a lone holder
and a bystander; the third forward is one whose abort is pending. Fairness
(`ssh_shared`): tasks are polled and timers fire (weak); ssh, launched again and
again, succeeds in the end (strong) - the assumption is about the network, since
the loop itself never gives up. With a stored key recovery is not promised:
`ssh_key` shows why.

## ForwardProcesses

| Variable | Code |
|---|---|
| `run[r]` | a copy of the app: off, on, or swept and about to exit |
| `transport[r]` | its `SshTransport`: the child is a local of `connect` ("spawned", "connecting") or `self.child` ("up") |
| `group[p]` | a process group: its leader, its jump hop, its parent, and `<p>.pid` in the shared directory |

A step is what happens between two points where another process or thread can
act: the spawn, the write of the pid file, the end of `connect`. `Ends` is a
crash, a kill or the end of a quit, at any of them. The kernel may hand a pid
out again once no process, no group and no parent that has not waited for it
uses it (`Unused`). A sweep is one step, though the code shells out to `ps` and
`kill` between reading a file and acting on it; a pid file is always written; a
check of a child's status always answers; the user has no orphaned `ssh -N -L`
of their own, which the code could not tell from a forward. One forward per
copy is modelled: two of one copy share nothing but the directory.

| Run | Instance | Shows |
|---|---|---|
| `processes_shared` | 2 copies started again and again, 3 pids | every ssh of a running copy is its transport's; a recorded ssh stays recorded as long as it runs, but for the other copy's sweep; no sweep ends another's process, of the other copy or of somebody else at a reused pid |

`FileOutlivesSsh` has an exception, `SweptByOthers`, because a sweep removes
every pid file whoever wrote it: the start of one copy takes the record of the
other's live forward, and if that copy then crashes no sweep finds its ssh. The
doc of `sweep_stale`, for which any file left is a crashed run's, has one copy
in mind.

Three pids are an orphan, a live forward and a stranger. Runs and pids are
symmetric. There is no liveness here.

## CommandForwards

| Variable | Code |
|---|---|
| `run` | the app: off, on, or quitting |
| `fwd` | a `CommandTransport`, with the `Running` it has: `failed` keeps the command of a failed attempt or health check until its stop, `stopping` and `finishing` are a stop it awaits, before and after the kill |
| `termed` | the groups a stop has sent SIGTERM: within the grace period |
| `late[p]` | stops nobody awaits (the tasks of `stop_in_background`) that are past the kill of `p`'s group and still read its output: each has `<p>.pid` still to drop |
| `group[p]` | a process group: the wrapper that leads it, whether anything else is in it, and its pid file |

A stop is three steps with awaits between them: the polite signal (`Terms`), the kill
once the wrapper has exited or the grace period is over (`KillGroup`), and, up to a
second later, the removal of the pid file (`StopEnds`, or `StopReturns` where the
transport awaits it). The wrapper may obey, ignore the signal, or exit and leave its
child, at any time. Stops of dropped transports run beside the next attempt's command,
and the app may crash or quit at any step.

After the kill the pid is anybody's, the next command's too: the stop then removes
*its* record, since pid files are named by pid. `NoCommandIsLost` is
about the commands for which no such stop was under way when they were spawned
(`alone`, which no guard reads). A stop whose leader was reaped before has
nothing to signal (`Reconnect`, `Dropped`): the rest of the group stays, and its record
goes. `SignalsReachTheirGroup` is about the stops that could signal.

The sweeps go by the name of the program and the parent (`Matches`). A process of
somebody else's that runs a program of that name is a `namesake`, and a sweep that
finds one at a recorded pid with the right parent kills it: the residual risk
`util/pidfile/command.rs:100-104` accepts and `TakenForCommand` excepts. Nothing else
ends a stranger. A kill and the reap before it are one step, so that a pid is not
handed out between them; a sweep is one step, as in ForwardProcesses. One tunnel is
modelled: two share only the directory.

| Run | Instance | Shows |
|---|---|---|
| `commands_stops` | 2 pids, at most 2 late stops of each: 96,672 states | a running command is recorded, a group that was signalled is killed whole, nobody else's process is, but for the exceptions named above; a dropped command ends whatever it does with the signal |

Two pids are a command being stopped and the next one, or a command and a stranger at
a reused pid. `MaxLate` bounds how often one pid may come back to the tunnel within
the second its stops take (the code has no bound); 2 lets a late stop drop the record
of a command that is itself stopped late. The proofs hold for any `MaxLate`.
Fairness: the steps of a stop (its timer fires).

## OidcRenewals

| Variable | Code |
|---|---|
| `issuer[u]` | the identity provider: the tokens it issued for a user, the refresh token it takes, which id-tokens have expired (external) |
| `file[u]` | the tokens of the user in the kubeconfig |
| `task[t]` | a call of `refresh_expired`: where it is, the tokens it has, the file it read to replace it |
| `locks[p][u]`, `flock` | the in-process lock per user, and the lock on the kubeconfig's lock file |
| `lost[u]` | the issuer rotated a token and nobody could save the new one (a crash or a lost answer between) |

Between its steps a task awaits: a lock, the issuer, the disk. `Rereads` is the
second look at the file under the locks; a kubeconfig that cannot be read then
falls back on the tokens read before (`blind`), as the code does. The file is read
whole and written whole, with every user in it. A copy of the app may be killed
at any step; the operating system then frees its `flock`.

| Run | Instance | Shows |
|---|---|---|
| `oidc_shared` | 3 renewals: two of one user in one copy, one of another user in another copy; at most 3 and 2 id-tokens: 40,000 states | nobody asks with a spent token unless its successor was lost, the newest tokens are in the file or about to be, every renewal ends |

The pairs of the three renewals contend for the in-process lock, for the file's
lock, and for neither. Fairness: tasks run (weak), and a lock that is free again
and again is handed on (strong: tokio's mutex is fair, and `flock` is waited for on
a blocking thread). Left out: kubectl, which writes the same file without this
lock, several kubeconfigs, a user no file defines.

## ResourceIndex, LiveView and ObjectStores

`ResourceIndex` is `util/resource_index.rs` as pure operators: rows, uids and
positions, with the removal that swaps the last row into the gap. `LiveView` is what
a live table promises: each row shows a version of its object, a newer one each
time, and goes only when the object was deleted.

| Variable | Code |
|---|---|
| `log` | the API server's changes, numbered as `resourceVersion` does (external) |
| `kind` | how the kind is kept current: Pods (403 is retried), watched (403 ends it), without a `resourceVersion`, polled |
| `feed` | the kube_runtime watcher inside `run_with`, or the poller: where it is in its list, and after which version it watches |
| `chan` | the bounded channel to the main thread |
| `table` | `ObjectsTable`, `PodsTable`: index, relist in progress, uids seen, `LoadPhase`, refusal, and the journal of what flashes |

Every send of the feed and every receipt (`Takes`) is a step. A watch may break at
any point, also within a list, and starts again with a new list; a pause drops the
task with what is in the channel, and a resume starts over against the table as
it is. A list comes in any order. `ObjectStores` implements `LiveView` (`ImplementsLiveView`) with `shown` the
version each row shows.

| Run | Instance | Shows |
|---|---|---|
| `stores_relists` | 2 objects, all four sorts of kind, 3 changes, a channel of 2: 129,435 states | the index stays consistent through sweeps, a loaded table is the server's objects of one moment and skips none of its watch's changes, only what happened flashes, rows only move forward, the table catches up |

Three changes are an object that comes, changes or goes while another does;
the channel (64 and 4 in the code) fills with two. Fairness: the main thread
receives, timers fire (weak); a request succeeds now and then (strong), since the
watcher retries for ever and without that nothing would ever arrive. Left out: a
panel's request to poll at once, the counter of rows received, lookups by name.

## AgentApprovals

| Variable | Code |
|---|---|
| `call[c]` | an agent's call of an action tool in its handler: waiting for the turn, asking, writing, over |
| `turn` | the gate's mutex and who waits for it, in order |
| `jobs` | the bounded queue of closures for the main thread |
| `dialogs`, `window` | the dialogs of the main window, which may be closed and opened anew |
| `open_question`, `shown_in`, `answer` | `OpenQuestion`, the window the question was put in, the oneshot of the answer |

A call waits at every await and may be dropped there (the agent hangs up, or the
timeout fires). The `Withdraw` guard exists only from the await's return on
("asked"), so a call dropped between the dialog's opening and that return leaves
its dialog: `approvals_hangup`. A Drop cannot wait for room in `jobs` (`try_send`).
A withdrawal whose question is still taken to be open closes the window's top dialog.
That may be a dialog of the app's own, opened above the question, which then stays;
it is never another agent's question.

| Run | Instance | Shows |
|---|---|---|
| `approvals_turns` | 3 calls, 2 connections, a queue of 2, 1 other dialog, 1 reopened window: 630,000 states | the open question is the one asked, no call that is over keeps the turn, none waits for a dialog that is gone, a withdrawal leaves every other question alone and, once its own was answered, every dialog, an agent that waits hears back |
| `approvals_hangup` | 2 calls, no other dialog | violated: a call dropped before its handler has the question leaves its dialog open, which the doc of `approval.rs` excludes |

Three calls are one asked, one waiting and one whose jobs are still queued; the
queue is full with two. Fairness: handlers, the timeout and the main thread; nothing
of users or agents. Left out: the plan a call reads before it asks and its
write, and the frame protocol.

## LabelLogs

| Variable | Code |
|---|---|
| `server[c]` | a container at its node: instance, state, and the log of each instance (external) |
| `table[c]` | the container as the shared Pods watch shows it, perhaps late |
| `panel` | selector, namespaces and container filter |
| `stream[c]` | a `LabelStream` with its task and its bounded channel |
| `second` | the clock of the nodes, which stamp the lines |
| `stopped` | `Following::stopped`: when the stream of an instance was dropped, by the app's own clock, the nodes' plus `Skew` |
| `view` | the lines shown, and the colour each tag's last line left on |

Each handler on the main thread ends in the sync that drops the streams no longer
picked and starts the new ones, up to the cap, and the sync is part of its action.
The API's `sinceTime` has whole seconds, and a resumed stream must drop what the
view has of that second. The panel is modelled from its connection on. By design
(`follow.rs:313-315`) lines still in the channel of a dropped stream are lost; a
stream that failed is not retried; a request that is late reads the next instance.

Two things repeat lines. The request names the container only, so a late one of an old
instance's stream shows lines of the new instance, and that instance's own stream, of
which no stop is recorded, shows its tail again. And the second to
resume from is the app's `now()`, which the API compares with the node's stamps: a
clock that is slow by a second repeats what was shown before; a fast one
loses lines instead. `ViewInOrder` therefore says that instances are shown one after
the other, whatever the clocks say, and that what the streams of one instance show is
in order and once where the app's clock is not behind (`Skew[c] >= 0`). The run has
clocks that agree, the tightest case; the proof covers any.

| Run | Instance | Shows |
|---|---|---|
| `logs_follows` | 2 containers, one of which restarts, cap 1, 2 lines, a tail of 1, a channel of 1, 2 seconds, clocks that agree: 339,770 states | exactly the picked containers are streamed, instances come one after the other and the lines of one's streams in order and once, over drops and resumes, a full channel leaves none out, a line that is due is shown |
| `logs_colour` | two pods of one name in two namespaces: 14 states | violated: the colour of one pod's line is carried over to the other's, since the style is kept by tag |

A cap of one makes the two containers compete; one line more than the tail and
two instances are enough for each resumption. Fairness: streams are polled and
the channels drained.

## Proofs

The modules `*_proofs` prove with TLAPS, for every value of the constants, every
invariant, every action property and every refinement that the passing runs check;
liveness stays with the runs. They use nothing but the named assumptions of the
component's module (for instance that `None` is no forward and that the objects of
a kind are finitely many), which TLC evaluates on every run. `UserPrompts_proofs`
extends ManualTunnels and AgentApprovals, the two components that ask the user; the
names of AgentApprovals' specification begin with `Gate` so that the two fit in one
module.

| Theorem | Says |
|---|---|
| `ClusterSessions_proofs`: `SpecTypeOK`, `SpecRunningIffWanted`, `SpecRefcountMatchesPanels`, `SpecPanelsAreHeld`, `SpecPauseIsTended` | types; in every session, a watch task runs exactly if the key has subscribers and is not paused; the counts are the panels; no panel loses its session; every pause has its end under way |
| `SshTunnels_proofs`: `SpecTypeOK`, `SpecForwardsAreShared`, `SpecKeyGoes`, `SpecImplementsShared` | the sharing invariants, and that SshTunnels implements SharedForward |
| `OidcRenewals_proofs`: `SpecTypeOK`, `SpecAsksWithTheValidToken`, `SpecNewestIsKept`, `SpecRenewsOnlyExpired`, `SpecLocksAreHandedOn` | no token is spent twice, none is overwritten, who waited renews only what still needs it; no lock is left taken, and the renewals never all wait for each other |
| `UserPrompts_proofs` on ManualTunnels: `SpecTypeOK`, `SpecPromptsAreSound`, `SpecConfirmedFirst`, `SpecLoneRetryPromptsAgain`, `SpecImplementsShared` | no prompt is lost or left over; nothing connects unconfirmed; a lone retry asks again; the tunnel implements SharedForward |
| `UserPrompts_proofs` on AgentApprovals: `SpecQuestionIsTracked`, `SpecWithdrawalSparesOtherQuestions` | one call asks at a time, no call that is over keeps the turn, and the question is the one taken to be open; a call that waits has its job queued, its dialog on screen, or the outcome sent; a withdrawal leaves every other question alone and, once its own was answered, every dialog |
| `ObjectStores_proofs`: `AppliedPuts`, `DeletedDrops` | what an insertion and a removal do to a well-formed index of any size, and that it stays well-formed |
| `ObjectStores_proofs`: `SpecTableIsSound`, `SpecShowsOneMoment`, `SpecFlashesWhatHappened`, `SpecImplementsLiveView` | a loaded table shows the server's objects of one moment, which is the watch's own once the channel is empty; only what happened flashes; the table implements LiveView |
| `CommandForwards_proofs`: `SpecTypeOK`, `SpecNoCommandIsLost`, `SpecSignalsReachTheirGroup` | a command keeps its record unless a late stop of its pid had it to drop; what a stop signals it kills whole; nobody else's process is killed but by a sweep that takes it for the command |
| `ForwardProcesses_proofs`: `SpecNoSshIsLost`, `SpecSignalsSpareOthers`, `SpecFileOutlivesSsh` | no running copy loses its ssh, sweeps end only what the app started, and a record goes first only by another copy's sweep |
| `LabelLogs_proofs`: `SpecStreamsAreWanted`, `SpecLinesInOrder` | a panel's streams are those it wants, of the instances shown; instances are shown one after the other, the lines of one's streams in order and once unless the app's clock is behind, and they wait without a gap |

Of the invariants only `StreamsAreWanted` is inductive with little more than its
types: every handler of a Logs panel ends in a sync, which restores it whatever it
changed. For the others:

- `RunningIffWanted`: a resume restarts the watch with the client the session
  recorded, and a subscribe starts one with the connection's, either of which
  could be missing. `SoundInv` adds that each entry is sound (idle, running with a
  client, or paused without a task), that a session with a subscribed entry has
  recorded a client, and that a connected connection has one.
- `RefcountMatchesPanels` and `PanelsAreHeld` rest on each other: a session is
  dropped when nobody holds it, and then it must have no panel. `AllTended` joins
  them, with panels subscribed only on a connected session; the lemmas count the
  subscribers of one key as panels come and go.
- `PauseHasItsResume` needs that every pause still in the channel has a resume
  behind it or the tunnel still seen as down, and `RefreshIsPursued` that no
  refresh changes its session but by a mark when that is gone (`AllPursued`).
- The sharing invariants of SshTunnels: a new forward takes over the name of one
  that is gone, and only routing says that nobody holds a forward without a target
  (`GoneIsFree`). The refinement maps a server to the holders of its forward and to
  what that forward shows.
- `AsksWithTheValidToken`: whoever is past both locks has re-read the file, and
  nobody else is between re-reading and writing; the file's lock is one for all
  users, because the file is written whole.
- `SpecLocksAreHandedOn` is what `RenewalEnds` rests on, without fairness: each of the
  two kinds of lock is held exactly by the task that is past it (`LockIsHeld`,
  `ProcLockIsHeld`), through failures and crashes. Whoever has the file's lock waits for
  none, and it is taken after the other, so some renewal can always move
  (`NotAllWait`).
- `NoCommandIsLost` and the rest of CommandForwards: a group under a polite signal is
  still the app's child, and a recorded command that was spawned with no late stop of
  its pid has none (`GroupOK`); the group of a transport that is not stopping is under no
  stop, and what it finishes stopping is empty (`HeldOK`).
- The same of ForwardProcesses: a transport's child belongs to its own run and is no
  stranger, and an ssh of a run is its transport's child (`GroupOK`). Without that, a
  transport that ends could kill what took over its pid.

- `PromptsAreSound` needs an account of every forward (`Accounted`) by the places in
  the event queue of its request and its withdrawal: who asks has one request
  queued or one prompt, never both, and what a forward that is gone left there has a
  withdrawal behind it. The main thread's steps move those places up by one. Removing
  a prompt keeps the order of the others, so that an answer finds its own.
- `QuestionIsTracked`: jobs to open a question outlive their calls, so the invariant
  orders them. None is queued behind the one of the call that asks, none is left once
  that one is shown, and no question is opened twice (`JobsOK`); a
  question taken to be open is shown, with no other question above it, or its window
  is gone (`TrackOK`). The second part is why a withdrawal closes no other call's question. That
  the calls in the turn's queue are those that ask or wait (`TurnIsLive`) says which
  call each end of a handler takes out of it. `NobodyAsksInVain` is inductive beside
  that: a job leaves the queue and a dialog the window only with the step that says
  what became of them, which a timeout need not be waited for.
- `ShowsOneMoment` and `ImplementsLiveView` have one invariant. What is on its way to
  the table is explained by a path: points in the server's history, one per outcome in
  the channel, that never go back and lead from the point the table is at to the one
  the feed is at. A list begun again starts a new stretch of the path, and the sweep
  at its end leaves exactly what that list had. The sweep and a poll's list
  take in sets and lists of any size: the lemmas on them go by induction over how many
  were taken in.
- `LinesInOrder`: the table is never ahead of the cluster (`TablesOK`) and does not go
  back, so the stream of a later instance comes after those of earlier ones. What a
  stream has in its channel, and what it reads next, comes after what is shown of its
  instance, and while it asks, all of that is older than the second it asks from, if the
  app's clock is not behind (`StreamsAhead`). A line shown whose stream is gone was
  written by the second of its drop, after which the next stream begins (`LinesOK`);
  logs are in the order of time, which joins the two. Its second part, `NothingSkipped`, needs no
  more than that a stream that asks has an empty channel.

Only model-checked is liveness, whose fairness and `ENABLED` are out of the prover's
reach: `StoppedWatchRecovers`, `PanelGetsItsWatch`, `PromptFollowsItsWaiters`,
`AnswerReachesEveryWaiter`, `ForwardComesUp`, `RenewalEnds`, `CatchesUp`,
`DroppedCommandEnds`, `AgentHearsBack` and `DueLineIsShown`.

## Weaker than the docs

Three disagreements between a doc and the code are runs that are violated, each a
finding in `PROJECT.json`: `ssh_key`, `approvals_hangup`, `logs_colour`. Elsewhere a
property here is weaker than a comment would have it, because the code does not
keep the stronger one:

- A watch subscribed, or resumed by a refresh, while the tunnel reconnects runs
  unpaused beside paused ones (`session/pause_resume.rs:28`).
- Closing a window drops every session nobody holds, also one that another window's
  picker is connecting through (`session/holds.rs:58`).
- The client a session records may be another than the one its Pods watch was
  started with (`session/kind_watch.rs:38`).
- A tunnel may have two prompts while one attempt is torn down and the next asks
  (`tunnel/manual/confirmations.rs:284`; line 8 says one), and a prompt may not
  name all its waiters, since the end of an old attempt clears the whole waiting
  set (line 304).
- A retry joins a cancelled forward another context still holds and fails at once
  (`connection/connect.rs:178`); `LoneRetryPromptsAgain` excepts it.
- An ssh forward aborted while it connects leaves its jump hop (`tunnel/ssh/mod.rs:271`).
- The pid file of a command may go before its group does
  (`tunnel/command/process.rs:25` says once the group is gone): when an abort cuts a
  stop short (lines 98-108; `SignalledGroupsAreKilled` excepts it), and when the leader
  was reaped before the stop, which then signals nobody (line 99, after
  `tunnel/command/transport.rs:83` or 133, whose line 49 says that a stop waits for the
  group to be gone).
- The pid file of a running command may be removed by a late stop of an earlier command
  with its pid (`tunnel/command/process.rs:107-108`; `util/pidfile.rs:106` says that two
  forwards never collide); `NoCommandIsLost` excepts it by `alone`.
- A sweep may take a process at a recorded pid for the command it was, as the source
  says itself (`util/pidfile/command.rs:100-104`); `TakenForCommand`.
- A withdrawal closes the dialog on top, which may be one of the app's own above the
  question (`ui/agent_approval.rs:102`; line 92 says it closes the question's dialog),
  and a withdrawal that finds the queue full is lost (`mcp/foreground.rs:49`).
- A line may be shown twice (`util/logs/labels.rs:289-291` and
  `util/logs/labels/follow.rs:312` say that none is): by the stream of an earlier
  instance and the container's new one, and by one stream that comes back while the
  app's clock is behind the node's (`follow.rs:45` and 56).

## Not modelled, and why

Kubeconfig resolution, exec plugins and the version probe are one
nondeterministic outcome of a connection. Rendering, filtering, formatting,
themes and command lines have no shared protocol state. Files written whole by
the main thread (layouts, settings, the tunnel store) have no concurrency. The
byte streams of exec, single-pod logs and port forwards are I/O. A user's port
forward is one held handle, supervised like the others. A bulk operation is one
task that nobody cancels. Most of the repository's lines are user interface, so
the models cover a small share of them: the part where handlers, tasks and
processes meet. `PROJECT.json` lists every component with its reason.

## What could come next

1. What a fair run rests on, as safety, for the other liveness properties too: that
   whoever waits always has a step that is enabled, so that only fairness itself is
   left to TLC. `SpecLocksAreHandedOn` is that for the renewals.
2. `LiveView` with the filter and the sort of a list panel above it, once a panel's
   requests to poll at once are modelled.
