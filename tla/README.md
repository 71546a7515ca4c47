# Leave in TLA+

Leave runs on a developer's computer. It supervises a coding agent (Devin, over
the Agent Client Protocol), keeps what the agent does in a local SQLite store,
and serves a web application through which the owner's devices prompt the agent,
approve its operations, read its events and edit files. A phone reaches the host
over a private Tailscale network or through a blind relay that only sees
ciphertext.

The modules beside this file model the concurrent parts of that program. Each is
translated from the source (the paths below are relative to the repository),
model-checked by TLC on small instances, and its safety properties are proved for
every value of its constants. `PROJECT.json` maps every
definition to its lines, lists the runs, gives for every checked property a
plausible bug that breaks it, and lists the hazards the properties are aimed at.

## 1. The system

| Component | Source | State | Operations | Modelled by |
|---|---|---|---|---|
| ACP worker: commands and turns | `apps/leave/src/acp.rs`, `crates/leave-core/src/event_store.rs` | agent state, command channel (64), session rows, claimed command ids, one task per prompt | create, resume, cancel, prompt; host start, stop, crash | `AcpTurns` |
| ACP worker: permissions | `acp.rs`, `local_server.rs` | the map `pending_permissions`, a task and a oneshot channel per request | request, decide, expire, sweep on cancel | `AcpPermissions` |
| Event log and live events | `acp.rs`, `event_store.rs`, `local_server.rs`, `apps/web/src/lib/api.ts`, `screens/session-screen.tsx` | event log, broadcast ring (512), a cursor per socket, the page a device shows | append, broadcast, forward, lag, reconnect, reload, merge | `EventStream` |
| Guarded files | `crates/leave-core/src/guarded_fs.rs`, `local_server.rs` | the files of the workspace, a writer mutex | read, save with the hash of the base | `GuardedWrites` |
| Relay | `apps/relay/src/{routes,lib}.rs` | route table, a broadcast channel per route (256), two tasks per connection | register, revoke, attach, publish, write | `RelayRoutes` |
| Setup wizard: sign-in | `apps/leave/src/setup_server.rs` | the slot that keeps the child, the report of its output | sign in, poll, stop after ten minutes, shut down | `DevinLogin` |
| Setup wizard: launch, Tailscale | `setup_server.rs`, `main.rs`, `service.rs`, `away.rs` | the slot of the host process, the slot of `tailscale up`, the service's unit, the record of each folder | launch, wait for the port, `leave connect`, install, uninstall, shut down | `WorkspaceLaunch` |
| Relay tunnel, pairing, group session | `relay_tunnel.rs`, `crates/leave-crypto`, `crates/leave-transport` | device registry, MLS group and epoch, one pairing code; a phone's session | pair, open, dispatch, revoke, seal; begin and complete a pairing | `RelayTunnel` |
| Roles and requests | `crates/leave-protocol`, the router of `local_server.rs` | none (functions) | `authorize`, `action_for`, `validate` | `RemoteRequests` |
| Workbench: terminals | `terminal.rs`, `local_server.rs`, `terminal-panel.tsx` | shells, a writer mutex and a broadcast ring per shell, sockets | create, attach, type, copy output, fall behind | `Terminals` |
| Workbench: previews | `preview.rs`, `local_server.rs`, `preview-panel.tsx` | browsers, loopback ports, a task and a control channel per preview | create, find the page, navigate, intercept, end | `Previews` |
| Workbench: Git | `git.rs`, `local_server.rs`, `files-panel.tsx` | the repository, the panel's list and selection | status, stage, unstage, commit, push, switch | `GitPanel` |
| Workbench: customization | `customization.rs`, `local_server.rs`, `customization-panel.tsx` | the grants of the host, the form with its review and phrase | list, show, review, change | `Customizations` |
| QR code | `apps/web/src/lib/qr.ts` | none (algorithm) | encode | not modelled |
| Screens, offline shell, packaging | `apps/web`, `infra` | query caches | rendering | not modelled |

How they interact. HTTP handlers of `local_server.rs` check that the agent is
ready and push a command, with a oneshot channel for its answer, onto the
worker's channel. The command loop takes one at a time and awaits the store and
the agent; a prompt it has accepted becomes a task of its own. The agent calls
back for permissions: the handler publishes the request, enters it into
`pending_permissions` and leaves a task behind; a device's decision and a cancel
both take entries out of the map and send on the task's channel. Everything
observable goes through `publish_event`: appended to the log, then broadcast to
the WebSocket handlers, which forward to the screens. File saves share nothing
with the worker but the disk, which the agent writes too. The relay knows none
of this and forwards frames. The setup wizard is a server of its own, which
starts the host as a child process or installs it as a service. Over the relay a
phone reaches the same HTTP router: the host's tunnel task opens its frames one
at a time, classifies each request, checks the device's grant and hands it to the
router. The workbench is four more groups of routes, each gated by a grant of the
host's command line, over external programs that the agent uses as well.

What is hard in it, and what makes each part correct:

- *Turns.* Store and agent are awaited between the steps of one handler, task
  ends race new commands, any write may fail, the process may crash between two
  steps. Correct means: a command id reaches the agent once, only after it is
  in the log; turns of a session do not overlap; no session stays "working"
  without a turn; the loop never wedges.
- *Permissions.* A deadline races a decision and a cancel, and the answer to the
  device is sent from another task than the answer to the agent. Correct means:
  one decision, from the offered options, the device told the truth, the log
  showing what the agent got, every request answered.
- *Events.* Publishers overtake one another between append and broadcast, a slow
  socket skips events, a reload replaces the page under live events, the link
  drops. Correct means: shown is logged, shown in log order, nothing lost in
  silence.
- *Saves.* Two checks of one hash, a mutex dropped with the request, a blocking
  job that outlives it, an agent that takes no mutex. Correct means: no unseen
  work is replaced.
- *Relay.* A subscription before the upgrade, a ring that overflows, a
  revocation under attached peers. Correct means: a peer misses nothing as long
  as it is connected.
- *Sign-in.* Slot and report have a mutex each and are used in several steps;
  readers and watchdogs of successive attempts share the report. Correct means:
  no process out of reach, every request answered, no sign-in past its ceiling.
- *Launch.* The slot is read, released and filled in several steps, the folder's
  record is read, changed and written by another process, and all hosts want one
  port. Correct means: nothing started in the foreground outlives the window but what
  races and dropped requests lose, no host exposes what nobody asked for, every
  launch is answered.
- *Tunnel.* A phone's frame may have been sealed in an epoch, or a group, that is
  gone; the code stays on the screen while frames of several phones arrive; what
  a request needs is decided from its path, and what it does by its handler.
  Correct means: one device per code, a revoked device is cut off, a grant bounds
  what its holder causes as far as requests are classified by what they do, every request that opens is answered.
- *Workbench.* Two sockets share a writer, a slow page shares a ring, two previews
  may find one port, the agent uses Git between a look and a command, a form may
  change under its review. Correct means: no hole in what a tab shows, no mixed
  input, no unapproved origin in the page of a preview, no orphaned browser, no
  changed file of the working tree replaced by a button, no change whose kind,
  action and name were not reviewed, and none without its grant.

## 2. Modules

Each action is the code between two points at which another task may run (an
await, an unlock, a process boundary); its guard is the code's condition, and
the error paths are disjuncts or actions of their own. Definitions keep the
source's names where the source has one. Definitions that begin with the
comment "Variant" are the broken forms named in `PROJECT.json`; no
specification uses them.

**`AcpTurns`** The three kinds of task of the prompt path. `Call` is the HTTP
handler (readiness, full channel) and `TakeCommand` the head of the loop. `JobStep`
is the loop's handlers step by step: `AgentCreates` and `StoreCreated` of a
create, `AgentResumes`, `NotifyCancel`, `FreeSession` of a resume and a cancel,
`CheckSession`, `ClaimCommand`, `MarkWorking`, `RecordAndSpawn` of a prompt, and
the error paths `AgentRefuses` and `JobStoreFails`. `TurnStep` is the spawned
task: `SendPrompt`, `AgentAnswers`, `FinishTurn`, `PublishTurn`. `row`, `claimed`, `prompted` and
`registered` are the durable tables and survive `Crash`; `inbox`, `at`, `turn`
do not. `RemoveWorkspace` is the owner's command beside a serving host: it
deletes the sessions and events with the workspace, and leaves the claims. `delivered`, `overtaken` are history variables: how often
the agent was given a prompt, and under which prompts somebody else wrote the
session to idle.

**`CommandLedger`** What the prompt path promises, without its sessions, calls,
channel and tables: a command id is claimed, is started once it is in the log, is
given to the agent at most once while it runs, and is over for good; several may
be cut off at once, as a crash does. `AcpTurns` implements it: `Stage` maps
the claim, the acceptance in the loop and the task of a command to the ledger's
stages (a task that has freed its session and not yet published its end counts as
running), the log to `recorded` and the deliveries to `effects`.

**`AcpPermissions`** One life of the worker. `phase[q]` follows the handler and
the task of request `q`; `pending` is the map's key set, `inHand` what a client
has removed and not yet sent, `channel` the oneshot. The deadline is two steps,
because the timeout is noticed before the receiver is dropped and a send in
between succeeds; `late` remembers that. A cancel sweeps a snapshot of the keys,
one lock at a time. Map entries that survive a stopped worker are kept, as in
the code, where a decision for one is refused as expired.

**`EventStream`** One log, one device. An event is its sequence number. `sent`
is what the current process has handed to its broadcast channel, `from` and
`pos` are the socket's receiver, `wire` what travels to the device, `page`,
`fetch`, `snapshot` its query cache (the library's behaviour, taken from how the
screen uses it: a first load is joined, a later one is cancelled and restarted,
a result replaces the page). `lost` remembers what a reload left out although it
had been forwarded.

**`GuardedWrites`** `write_text` on one file, the agent writing the same file
directly. `step[r]` goes from waiting for the mutex through the first check, the
blocking job's second check, the replacement, to the answer; `Disconnect` drops
the future and its guard, but not a job that has been spawned (`detached`).

**`RelayRoutes`** The route table, and per connection a reader and a writer.
`channel[r]` is what has been published on a route, `pos[c]` the receiver of the
writer, `got[c]` what the peer was given.

**`DevinLogin`** The guided sign-in. A request, its attempt, its child, its
reader and its watchdog share one name, since a request starts at most one
attempt; `generation`, `link`, `finished` are the shared report. The children
are external and exit when they like.

**`WorkspaceLaunch`** A launch request and the process it starts share a name; a
background launch starts the helper that installs the service. `Test`, `Spawn`,
`Ready`, `SeesExit`, `GivesUp` are the steps of the `launch` handler between its
uses of the slot; `Look`, `Register`, `Bind`, `Install` are what `leave connect`
does in the child; `ServiceBinds`, `ServiceFails`, `Uninstall` the unit;
`ConnectTailscale`, `KeepTailscale`, `TailscaleEnds` the other slot; `Shutdown`
and `Leave` the end of the window. A page may disconnect, which drops its handler
and kills nothing (`PageLeaves`, `AbandonTailscale`). `excused` remembers the
requests that were between a look at a slot and its use when another one, or the
shutdown, came by, or when they were dropped.

**`RemoteRequests`** Operators only: the routes and methods the API serves
(`Serves`), what an access over the tailnet or the tunnel may reach
(`access_allowed`, `Dispatches`), `validate`, `action_for` and `authorize`; and,
from the handlers and from the doc comments of the roles, what a handler touches
on a host with every grant (`Touches`) and what a grant stands for (`MayTouch`).
Global and project customization, destructive and ordinary approvals are kept
apart, and `Misclassified` names the requests for which `action_for` goes by
something else than the handler does.

**`RelayTunnel`** The loop of `serve_route` takes one frame of `toHost` at a time:
`Pair`, `RefusePairing`, `Ignore`, `Revoke`, `Handle`. `roster[e]` is the group in
epoch `e`, so the last element is `WorkspaceSession` and its operations
(`create`, `add_device`, `remove_device`, `epoch`) are appends to it; `grants` is
`DeviceRegistry`. A phone begins a pairing, tries every pairing frame as its
welcome (`Complete`), seals requests in the epoch it is in and opens answers of
that epoch only. `RouteEnds` and `Restart` leave the phones with sessions of a
group that is gone. `acted` and `read` are history variables.

**`Terminals`** `create`, the socket's subscription, its input (handed to a
blocking thread that holds the writer for the whole frame) and its output (a
broadcast ring; a socket that lags is closed), the reader thread, and a shell
that reads, prints and exits as it likes over a pseudo terminal of bounded room.

**`Previews`** `ReservePort` finds a free port and gives it up; `StartBrowser`,
`BrowserListens`, `FindPage` are the start, the browser's own bind and the poll
for whoever answers there, so that a preview may find another's browser. Orders
run in sequence; what is loaded into a page is paused for every preview that has
enabled interception there and decided by each. A page opens windows
(`OpenWindow`, `CloseWindow`): interception is enabled page by page, so what a window
loads is not asked about, and a later preview that finds the browser may attach
to a window instead of its first page.

**`GitPanel`** The working tree, the index and the tips of branches as functions
from paths to contents; `parse_status` as it reads porcelain records, with the
extra field of a rename; the buttons of the panel with their selection and the
armed push; an agent that writes files, commits and merges at any moment, and
through the two steps of a switch. Paths may be ignored: status does not list such a
file, a stage that meets one adds the others and fails, and a switch overwrites it.

**`Customizations`** The form with its box and phrase, what each change of the
form resets, the host's checks of its grants, and a host that is connected again
under other grants while the panel stays open.

`MCWorkbench` composes the four tools. They share no state but the host, so its
variable `tool` picks one for each behaviour: a run of one module is a run of
each, without the product of their states.

The `MC...` modules give the constants finite values. The `...Proofs` modules hold
the theorems, each about the module of its name, but for two: `SetupProofs` is about
`DevinLogin` and `WorkspaceLaunch`, the two halves of `setup_server.rs`, and
`WorkbenchProofs` about the four tools of the workbench. Where a component's
inductive invariant is not its property itself, it stands, in named parts, at the
end of the component's module.

## 3. Runs

| Run | Instance | Asks | States |
|---|---|---|---|
| `MCAcpTurns` | 2 sessions, prompts c1, c2 for s1 and c3 for s2, channel of 2, 5 calls, 1 crash, 1 store fault | `AtMostOnce`, `RecordedBeforeDelivery`, `ClaimedIsAccountedFor`, `OneTurnUnlessOvertaken`, `WorkingHasTurn`, `ImplementsLedger`, `QueueDrains`, `WorkingEnds` | 383 526 |
| `MCAcpPermissions` | 2 requests of one session with different options, 2 cancels, 1 store fault | `AckedUnlessRaced`, `PendingHasTask`, `SweptIsNeverApproved`, `LogMatchesAnswer`, `NoSecondDecision`, `RequestsAreAnswered` | 39 638 |
| `MCEventStream` | 3 events, ring of 1, pages of 2, 1 drop or restart, 1 reload | `ShownIsLogged`, `PageInLogOrder`, `NoSilentLoss`, `LiveEventsAreShown` | 145 598 |
| `MCEventStream_reconnect` | 2 events, ring of 2, pages of 3, 1 drop or restart, no reload by the user; a history variable for a screen that was whole when its link went down | `RecoversAfterReconnect`: violated | |
| `MCGuardedWrites` | 2 saves, 3 contents, 2 agent writes, 1 disconnect | `SavesAreSerial`, `AgentWorkIsChecked`, `SavesAreAnswered` | 158 210 |
| `MCGuardedWrites_second_saver` | 2 saves, no agent write, 1 disconnect | `SecondSaverIsRefused`: violated | |
| `MCRelayRoutes` | 1 route, 3 connections, ring of 1, 2 frames | `NoGap`, `FramesArrive` | 100 816 |
| `MCRelayRoutes_revoke` | 1 route, 2 connections, ring of 1, 1 frame | `RevokedRouteEmpties`: violated | |
| `MCDevinLogin` | 2 sign-ins | `NoOrphanLogin`, `LoginsAnswered`, `CeilingHolds` | 82 152 |
| `MCWorkspaceLaunch` | 2 launches of 4 wishes over 2 folders, 1 Tailscale page, the service | `NothingOutlivesSetup`, `ExposesOnlyWhatWasAsked`, `LaunchesEnd` | 1 372 510 |
| `MCRelayTunnel` | 2 phones; a host open to the tailnet; a fresh group with a code, or one of an owner and an operator, or of a viewer and a maintainer; a prompt with the owner's login, a revocation and a malformed request; 2 starts, 2 pairings and 1 request per phone | `OneDevicePerCode`, `RevokedIsCutOff`, `GrantBoundsEffects`, `RequestsAnswered` | 589 365 |
| `MCWorkbench` | 1 terminal with 2 sockets, ring of 2, frames of 2 units, 4 printed units; 2 previews on 1 port, 1 window, 2 origins, control channel of 1; 2 paths, of which one may be ignored, 2 contents, 2 branches, 1 commit; 2 names, one a skill file and one a link | `TabShowsOnePiece`, `FramesArriveWhole`, `ShellNeverStalls`, `PageStaysApproved`, `NoOrphanBrowser`, `WorkSurvives`, `OnlyReviewedAndGranted` | 1 124 331 |

The runs check what several steps, mostly of several actors, could break. The
type invariants (`TypeOK`) and the inductive invariants are no part of the runs:
they are the base of the proofs, and are proved.

*Bounds.* The hazards are races of two: two prompts of a session and one of
another session beside them; two requests of which one is swept while the other
is decided; two saves; two sign-ins. Five calls let a prompt be retried under
its id after a crash with a cancel or a resume in between. A ring of one lags as
soon as two events are outstanding, and a page of two is full with three events,
so that the limits of 512, 256 and 1000 are reached and passed. Two launches
meet in every order of their looks and uses of the slot, with one Tailscale page
beside them. Two phones suffice for a second one at a code that has just closed,
a request under way while its sender is revoked, and a revocation by an owner
that stays; two starts for a phone whose group is gone. Of the requests the tunnel is
given, one is refused to some role, one revokes and one is malformed;
`GrantBoundsEffects` also ranges over all endpoints, with every category and
content, as a table. Two frames of two
units can interleave, four printed units overtake a ring of two, and two
previews on one port find each other's browser, or the window its page has opened.
The ignored path is tracked by the other branch. One crash and
one fault suffice for properties about what a crash leaves behind; a second
store fault in the recovery from a first one is not explored. All bounds are
constants (`Max...`), and the theorems hold for every value of them.

*Deadlock* is not checked (`CHECK_DEADLOCK FALSE`): a host nobody calls, and an
instance whose calls, crashes and events are used up, rightly does nothing. That
nobody waits for ever is what the liveness properties say.

*Fairness.* The runs with a liveness property use `FairSpec`, but for `MCWorkbench`,
whose `Spec` has the fairness of the terminals' reader threads only. Weak fairness
of the handlers, tasks, watchdogs and threads: the runtime polls what can run,
store operations and blocking jobs end. The agent is assumed to answer the calls
the command loop awaits (there is no timeout on them in the code, so a silent
agent would stop the loop), and to end a turn some day; nothing is assumed of
clients, peers, children, shells, browsers or the network. In the tunnel the
host's loop goes on and an attached page handles what it receives, but no phone has
to pair or ask. In the launch the spawn, the steps of the helper and the wait's
hundred polls go on; that a host ever listens is not assumed.
Strong fairness twice: on taking the writer mutex of the files, as
Tokio's mutex is a fair queue, and on giving up in the sign-in's polling loop,
whose deadline passes whatever the loop sees. Nothing has to crash, fail,
disconnect or be retried, but a closed socket is reopened (the retry timer).

## 4. What the runs found

Three statements of the repository do not hold of the code, each with a run:

- "Cursor recovery after reconnect" (`README.md`): a screen that shows the whole
  log loses its link, an event is published, `connectLocalEvents` opens a new
  socket, and nobody asks for the events in between.
- "Atomically write text when the caller still has the current base version"
  (`guarded_fs.rs`): a request dropped while its blocking job runs releases the
  mutex before the job has replaced the file, and a second save passes both of
  its checks. `SavesAreSerial` names the dropped request as the only way.
- "Forget a route and disconnect everything attached to it" (`routes.rs`): the
  attached connections hold the channel themselves and stay.

More disagreements are visible in the modules and their properties hold around
them; `PROJECT.json` quotes both sides of each:

- "One active turn per session" (`docs/compatibility.md`): `cancel_session` and
  `resume` write the session to idle while the cancelled turn's task still
  waits for the agent, and the next prompt is accepted beside it.
  `OneTurnUnlessOvertaken` is what does hold.
- A newly paired phone may "answer ordinary approvals" (`leave-protocol`), but the
  path of a decision is classified as an edit of files, which an operator may not
  make (`action_for`, `WriteAction`).
- "A capability cannot exist on one and be missing from the other"
  (`local_server.rs`): a tunnelled request has no `Host` header and no connection
  to upgrade, so sockets are out of reach, and with tailnet access so is everything
  that does not carry the owner's login header itself (`Dispatches`).
- A capability reserves global customization, and another destructive approvals
  (`leave-protocol`), but a change of customization is classified by its query while
  its handler reads the body, and no decision is ever classified as dangerous
  (`Misclassified`). `GrantBoundsEffects` says who gets that far.
- The commit of a removal moves "remaining members" to the new epoch
  (`session.rs`), but `revoke` drops it: the phones that stay open nothing
  further (`Revoke`; `RequestsAnswered` ends at the epoch for that reason).
- "Ephemeral Chromium previews restricted to an approved loopback origin"
  (`preview.rs`): a link with `target=_blank` or `window.open` opens a page whose
  requests nobody pauses, and a later preview may attach to it (`OpenWindow`,
  `FindPage`). `PageStaysApproved` holds of the page a browser starts with, and only
  of that one.
- A staged rename is listed under its similarity score, and unmerged paths are not
  listed at all (`parse_status` in `GitPanel`).
- A change of scope or source leaves the review box ticked and the phrase typed
  (`SetScope` in `Customizations`), though the box says they were reviewed.

Other things the models show, which their properties name instead of hiding:

- A decision sent between the deadline and the drop of the receiver is
  acknowledged to the device and denied to the agent (`late`, `acp.rs:378`).
- The agent's write between a save's last check and its replacement is lost
  (`raced`, `guarded_fs.rs:264-276`; `docs/threat-model.md:31` lists stale-edit
  detection without this gap).
- A page read before an event was appended may arrive after the event was shown
  live, and takes it off the screen; a page never holds more than the oldest
  1000 events of a session (`lost`, `PageLimit`).
- The end of one sign-in's output marks the report of the next one finished,
  whose watchdog then leaves it alone (`Misled`, `setup_server.rs:491`); and a
  watchdog stops whatever child is in the slot by the time it takes it.
- A status poll may find a sign-in's exit before the request that waits for it,
  which then reports, at its deadline, a sign-in that is still running.
- A launch that met another one between its look at the slot and its use of it
  leaves a host the shutdown does not know, and so does a page that disconnects
  while `tailscale up` has not yet been put into its slot (`excused`,
  `setup_server.rs`).
- A second background launch does not restart a service that runs: the host of the
  previous unit goes on (`Install`, `service.rs:132`).
- A switch of branches may overwrite what the agent writes between Git's look at
  the working tree and its writing of it (`touched`): beyond Leave. It also
  overwrites, in silence, an ignored file that the other branch tracks
  (`SwitchKeepsWork`; `git.rs:142` does not give `--no-overwrite-ignore`), and
  `WorkSurvives` names such files. It speaks of the working tree: content that is
  only in the index is lost when it is unstaged or staged anew.

## 5. Proofs

`tlapm` checks the proof modules from nothing; the constants' assumptions are
the `ASSUME`s of the modules, and no other fact is taken on trust.

- **`AcpTurnsProofs`**: `TypeCorrect`, `Invariance`, and from it `AtMostOnce`,
  `RecordedBeforeDelivery`, `ClaimedIsAccountedFor`, `OneTurnUnlessOvertaken`
  and `WorkingHasTurn`. None of them is inductive. That a prompt is delivered
  once needs that a claimed id is in acceptance only before it has a task
  (`AcceptanceInv`) and what each state of a task says about the tables
  (`TurnInv`); that turns do not overlap needs that the row says "working"
  under every turn nobody has overtaken (`BusyInv`), and that a prompt which
  has passed the check of the row meets only overtaken turns until it spawns its
  own (`CheckedInv`); `WorkingHasTurn` must hold from the moment the rows are
  marked offline, before the host is ready (`WorkingInv`). `Implementation` is the refinement for every number of
  sessions, prompts and calls: every step of `AcpTurns` is, under `Stage`, one step
  of `CommandLedger` or none; it rests on `AcceptanceInv` and `TurnInv`, which say
  in which stage the loop or a task finds its command.
- **`AcpPermissionsProofs`**: `TypeCorrect`, `Invariance`, `AckedUnlessRaced`,
  `OnlyOfferedOptions` (proved only, no run asks it), `PendingHasTask`, `SweptIsNeverApproved`,
  `LogMatchesAnswer` and the action property `NoSecondDecision`. The argument is
  the ownership of an entry: it is in the map, in one client's hand or consumed,
  never two of these (`EntryInv`), so that at most one value is ever sent on a
  request's channel (`ChannelInv`), and the task settles on that value or on a
  denial (`TaskInv`).
- **`GuardedWritesProofs`**: types, the inductive invariant, and the action
  properties `SavesAreSerial` and `AgentWorkIsChecked`. The mutex is held by
  every request between its checks and its answer that has not been dropped
  (`HolderInv`), hence the file changes under a job only by the agent's hand
  (`FoundInv`), and what a job has verified is still there unless somebody wrote
  since (`VerifiedInv`).
- **`EventStreamProofs`**: types, `ShownIsLogged`, `PageInLogOrder` and
  `NoSilentLoss`, inductive together once the page of a request under way is known
  to be of the session (`SnapshotInv`). The lemma they rest on is that sorting is
  possible: the rank of an element in a finite set of numbers is a bijection
  (`RanksAreUnique`), so that the increasing sequence `InOrder` speaks of exists and
  holds each element once (`Sorted`). `NoSilentLoss` goes over the steps by what
  has become of a forwarded event (`Kept`): a page read later holds it, if it is
  among the first ones, because an appended event never comes before it
  (`FirstOnesStay`), and a reload names what it leaves out (`InvalidateKeeps`).
- **`RelayRoutesProofs`**: types and `NoGap`. A receiver stands between its
  subscription and the end of what its route has published (`CursorInv`), its peer
  is given nothing before the upgrade (`UpgradeInv`), and was given just what the
  writer has passed and the peer did not send itself, in that order (`GivenInv`).
  What has been published stays where it is (`PublishedStays`), for the channel of
  a revoked route too.
- **`RelayTunnelProofs`**: types, `OneDevicePerCode`, `RevokedIsCutOff` and
  `GrantBoundsEffects`. `PermittedIsBounded` shows, over all requests and roles,
  that what `action_for` and `authorize` let through is served by a handler that
  stays within the grant, or is one of the misclassified requests in the hands of
  an owner, a maintainer or an operator with global customization. The other two follow from what a frame in flight may
  be (`Genuine`): its sender, or the one it welcomes, was in the group in the epoch
  in which it was sealed, and who had been revoked before an answer was not.
  Whoever opens it holds a session of that epoch, hence was a member of it
  (`MemberInv`), hence was not revoked. The group has not grown while the code
  shows and at most in one epoch afterwards (`CodeInv`).
- **`SetupProofs`**: of the sign-in, types and `NoOrphanLogin`, for any number of
  overlapping requests; inductive with the types, which relate a request's
  progress to its child and its reader. Of the launch, types,
  `NothingOutlivesSetup` and `ExposesOnlyWhatWasAsked`. A foreground host that
  nobody excuses is in the slot while the window is open. To show that of a launch
  which takes the slot, the hazard must be known one step earlier: of two launches
  that were tested at once, one is excused, and so is what sits in the slot of a launch
  that was tested (`SlotInv`; `TailscaleInv` for `tailscale up`, which runs before it
  has its slot, unless its page has left). A host serves only if it holds the port (`PortInv`), so that the
  shutdown frees the port of the host it kills and no other. A record is open only
  where a launch of that folder asked for it, and so is what a host has read of
  it, however the reads and writes of two hosts fall (`RecordInv`).
- **`WorkbenchProofs`**: of the terminals, types, `FramesArriveWhole` and
  `TabShowsOnePiece`: whoever is writing holds the shell's writer (`WriterInv`), a
  frame that waits for it has left no unit yet, and nothing follows the units of
  the frame being written (`FrameInv`). Of the previews, types, `NoOrphanBrowser`
  and `PageStaysApproved`: a live preview has found a browser that was started
  (`LiveInv`, through the listener of its port, `ListenerInv`), and intercepts or
  still has that order before it opens anything (`PausingInv`); the page a browser
  started with, once it is not blank, was approved for a preview that intercepts it
  (`PageInv`), and a window touches no other page. Of Git, types
  and the action property `WorkSurvives`: what a switch has looked at stays as it
  was until the switch writes, but for what the agent writes and what is ignored
  (`SwitchInv`). Of the customization, `OnlyReviewedAndGranted`: a ticked box, and a
  change under way, hold the phrase of what stood in the form, which is its kind,
  action and name and not its scope, source or arguments (`ReviewInv`, `PendingInv`).

*Assumptions.* Beyond the types of the bounds: the names of devices, requests,
processes and their null values differ; a terminal's frame has units and a ring has
room; a workspace the host starts with has grants of known phones with known roles
and capabilities, and the host does start; there is a folder. Each is an `ASSUME` that
TLC evaluates on the instances above.

*Only model-checked*: the liveness properties (`QueueDrains`, `WorkingEnds`,
`RequestsAreAnswered`, `LiveEventsAreShown`, `SavesAreAnswered`, `FramesArrive`,
`LoginsAnswered`, `CeilingHolds`, `LaunchesEnd`, `RequestsAnswered` and
`ShellNeverStalls`), which rest on fairness. Every invariant, every action
property and the refinement that a passing run checks is also a theorem. The three
violated statements of section 4 are counterexamples and have no proof.

## 6. Plan

What is left:

1. A composition of `AcpTurns` and `AcpPermissions` on the one thing they share,
   the cancel of a session, with what the two promise together: no permission of a
   cancelled turn is approved after its session was freed.
2. A lossy ordered channel as the abstraction of `RelayRoutes` that `RelayTunnel`
   assumes, and the refinement as a theorem: each step of a route is a send, a
   delivery or the end of a connection.
3. Theorems about the history variables themselves, so that what a property
   excuses is known to be rare: an `excused` launch had another one, the
   shutdown, or the end of its own request between its look at the slot and its use
   of it.

## 7. Not modelled

Cryptography is OpenMLS and XChaCha20, and is external: membership and epochs are
modelled, and that a frame opens in its own epoch only. Sealing and restoring a
saved session is left out because no program here saves one. The agent, Git, Devin's
command line, Chromium, Tailscale, the service managers and the query library of
the screens are external and modelled from how the code uses them; of the service
managers only systemd, as the others differ in wording. Of the workbench what only reads (diff,
branches, worktrees, frames of a preview) and what changes no shared state
(resize, clicks) is left out, and so are the checks of names and addresses,
which are functions of one string. The relay's database tables are created at
start and not used for routes. The QR encoder is a pure algorithm over matrices of
at least 21 by 21 modules and the tables of its standard: a model would be its
transliteration. Rendering, argument parsing, probes, logging, packaging and
the offline shell keep no state two actors share. Timing is abstracted: a timeout
may fire at any moment at which its task waits.
