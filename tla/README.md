# gridcontrol in TLA+

gridcontrol is a program that runs on every machine of a local network. The
instances find each other, connect, and form a grid. An operator posts an
application (a folder with *task* files) to the HTTP API of one node; that node
starts the tasks under PM2, spreads the application over the grid, and from then
on any task program may ask its local node to run a task "somewhere on the grid".

This directory holds TLA+ modules that model the program, TLC configurations that
check them on small instances, and proofs that TLAPS checks for every instance.
All paths below are relative to the root of the repository copy (`src/`), so that
`src/src/gridcontrol.js` is the `src/gridcontrol.js` of the repository.

## 1. Inventory

| Component | State it keeps | Operations | Talks to |
|---|---|---|---|
| GridControl `src/src/gridcontrol.js` | peer name, namespace and swarm, cached peer list, the parts below | `start`, `close`, `startDiscovery`, `stopDiscovery`; mounts the actions `sync`, `sync:done`, `ping` on every router; flags peers; loop over the peers (`askAllPeersToSync`); cached list every 500 ms | everything |
| TaskController `tasks_manager/task_controller.js` | none | `init_task_group`, `clear_all_tasks`, `list_tasks` | TaskManager, FilesManagement, GridControl |
| TaskManager `tasks_manager/task_manager.js` | port counter, task list, `can_accept_queries`, `can_local_compute`, task meta | `initTasks`, `deleteAllPM2Tasks`, `startTask`, `triggerTask` | PM2, task processes over HTTP |
| FilesManagement `file_manager/file_manager.js` | app folder, `is_file_master`, digest, link | `initializeAndSpread`, `downloadAndExpand`, `clear` | Compress, Archiver |
| Archiver `file_manager/archiver.js` | the link that is shared, and its swarm | `join`, `joinPool`, `archiveSolo`, `download` | Interplanetary, hyperdrive |
| Compress `file_manager/compress.js` | none (one temporary file, one folder) | `pack`, `unpack` | file system |
| SocketPool `network/socket-pool.js` | identified routers | `add` (both ends of the handshake), `getRouters`, `broadcast`, `close` | SecureSocketRouter |
| SecureSocketRouter `network/secure-socket-router.js` | callbacks of pending requests, ciphers | `send` with or without reply and timeout, `onmessage` | sockets |
| LoadBalancer `load-balancer.js` | round-robin index, statistics, processing list | `findSuitablePeer`, `route`, `broadcast` | GridControl's cached list, routers, TaskManager |
| Interplanetary `network/interplanetary.js` | addresses seen, retries, queue, the connection kept to each peer | `listen`, `join`, `leave`, `destroy`, dialing, reconnection with backoff, tie-break of double connections | DiscoveryChannel, sockets |
| DiscoveryChannel `network/discovery-channel/` | joined keys | `join`, `leave`, `update` | DNS and DHT discovery libraries |
| CryptoService `network/crypto-service.js` | none | `secure`, `verify`, key exchange | crypto library |
| API `api.js` | none | HTTP routes, among them the change of namespace | everything |
| TaskWrapper, Tools, grid-api, grid-cli | none of importance | the process of a task, helpers, clients | |

How they interact: a POST to the API runs `init_task_group`, which unflags all
peers, starts the tasks, answers the client and, in parallel with that answer,
packs and archives the folder and then asks the peers one after the other
(`async.forEachLimit(…, 1)`) with a `sync` message that carries the link. A peer
that hears `sync` deletes its tasks, downloads, unpacks, starts the tasks and
broadcasts `sync:done`; a `sync:done` flags the router at whoever hears it and
moves on every loop that waits for that router. The load balancer sends work
only to flagged routers.

Below that, every node has a swarm for its namespace (an Interplanetary object),
which hears of addresses, dials them, and keeps one connection per peer; each
connection goes through the handshake of `SocketPool.add` into the pool. The archive
itself is moved by a second swarm, which the archiver joins for the link.

What is hard about it:

* **Nothing serialises calls.** POSTs may overlap on one node or come to several
  nodes; two `sync` handlers of a peer share one archive file and one folder; two
  spreads share one temporary file; loops share routers and answers.
* **Answers carry no identity.** `sync:done` names a link that nobody compares,
  and a loop waits for *some* `sync:done` of a router.
* **Waits without timeouts.** The loop waits for an answer that a closed
  connection, a failed sync or a missed message never brings.
* **State that outlives what it describes.** Flags, `can_accept_queries`, the
  task list, the digest, the cached list of peers, and the files of older contents
  in a folder that is never emptied.
* **Failures half-way.** Every step of a spread, a sync or a start may reject
  after the ones before it have changed something.
* **Timeouts racing answers** in requests with replies, in the handshake and in
  reconnection.
* **Two ends that decide for themselves**: which of two crossing connections stays,
  from which message on a key is used, whether the other is in the pool yet.
* **Swarms that are closed before they listen**, or while another call waits for them.

What makes the components correct: no loop stalls without a cause
(`StallHasCause`, `LoopMovesOn`); a flagged peer runs what the master runs
(`RoutedPeersAreCurrent`); the digest and the link agree (`LinkFollowsDigest`);
damaged files never run (`OnlyWholeTasksRun`), nor two contents side by side
(`OneContentRuns`); a spread takes down one peer at a time (`IsRollout`); the grid
converges (`Converges`);
a port never passes from one task to another (`RightTask`) and is the one that is
listed (`ListedPortRuns`); queries reach a process or give up (`EveryQueryEnds`);
a request of a router runs its callback as it promises (`RouterKeepsPromise`);
nobody who waits for a peer is forgotten (`NoCallIsForgotten`), broadcasts are
complete (`BroadcastComplete`), peers take turns (`TurnsAreEven`); a node keeps one
connection per peer (`OnePerPeer`), the same at both ends (`SameConnection`), gives up
nobody without a cause (`NobodyIsForgotten`) and gets connected (`PairConnects`); a handshake changes over to the key at one point
(`NobodyMisreads`), admits nobody without the password (`KeepsAdmission`) and ends
(`HandshakeEnds`); a node is in one swarm (`OneSwarm`) to which its pool belongs
(`PoolIsOfNamespace`), which it can change (`ChangeIsAnswered`) and leave
(`CloseEnds`); a master gives up what it tells of for nothing but another master's
archive (`MastersShare`), downloads end
(`FetchEnds`), and who got no link gets one (`EmptiedIsRefilled`).

## 2. Modules

| Module | What it is |
|---|---|
| `Rollout` | abstract: what a spread does to the tasks of the grid |
| `GridSync` | provisioning over the grid: connections, POSTs, spreads, loops, sync handlers, failures, restarts; implements `Rollout` |
| `MCGridSync` | values of `TasksOf` and the symmetry set for TLC |
| `GridSyncProofs` | type correctness of `GridSync`, `StallHasCause` and `LinkFollowsDigest`, for every instance |
| `GridSerialProofs` | the other safety properties of `GridSync`, and that it implements `Rollout`, for every instance in which they hold |
| `TaskManager` | the calls of one node's task manager step by step, with PM2, ports and queries |
| `TaskManagerProofs` | type correctness, `RightTask` and `ListedPortRuns` for every instance |
| `Rpc` | abstract: what a request over a router promises its sender |
| `Routing` | how a node has its peers run tasks: the load balancer over requests with replies and timers, and the cached list of peers; implements `Rpc` |
| `MCRouting` | the symmetry set for TLC |
| `RoutingProofs` | every property of `Routing`, and that it implements `Rpc`, for every instance |
| `Interplanetary` | how the nodes of a swarm find, dial and keep each other |
| `MCInterplanetary` | values of `HostOf` for TLC |
| `InterplanetaryProofs` | every safety property of `Interplanetary`, for every instance |
| `Admission` | abstract: what `SocketPool.add` promises of the two ends of a connection |
| `Handshake` | the handshake of `SocketPool.add` with keys, password, identities and timers; implements `Admission` |
| `HandshakeProofs` | type correctness, `NobodyMisreads`, and that it implements `Admission`, for every instance |
| `Namespaces` | the swarms of one node from `start` to `close`, and changes of the namespace |
| `NamespacesProofs` | type correctness, `OneSwarm` and `PoolIsOfNamespace` for every instance |
| `Archives` | how an archive gets from its master to the peers |
| `MCArchives` | the grids that TLC looks at |
| `ArchivesProofs` | type correctness and `MastersShare` for every instance |

The layers meet at what one module takes as an event and another explains.
`Interplanetary` hands a connection to both ends (`Handshake!Add`); what `Handshake`
puts in the pool is `AcceptPeer` and `ClientConfirm` in `GridSync` and `Connect` in
`Routing`; `Namespaces` has of a swarm what its owner waits for; `Archives` says when
the `Download` of `GridSync` comes. They are checked apart: together they would be out
of TLC's reach, and the only state that two of them share is the pool.

### Rollout

A peer has at most one order at a time, and in the whole grid at most one peer has one
(`Take` waits for `Quiet`). It stops all its tasks (`Stop`), and then starts all tasks of
that content (`Start`), or gives up before or after (`GiveUp`); a node starts what is
posted to it (`Own`) only while nobody has an order. There are no
connections, messages, loops, archives or folders in it. `GridSync` implements it with
an order for each handler of `sync` (`Orders`), stopped once it is past
`deleteAllPM2Tasks`: that each ask waits for the answer of the peer before it has to
follow from the messages. The state that it does share with `GridSync`, the tasks that
run, must change as `Rollout` says, from one whole content to another.

### GridSync

One action per turn of the event loop of a node, between two awaits:

| Code | Model |
|---|---|
| `SocketPool.add`, identity of the client at the server, greeting of `mountActions` | `AcceptPeer` |
| identity of the server at the client; handlers mounted a promise later | `ClientConfirm` (what the same chunk carried may meet no listener) |
| `close` and `error` of a socket | `Close` |
| process death and start (`FilesManagement`, `TaskManager.start`) | `Restart` |
| `init_task_group` to its first await | `InitRequest` |
| `initTasks` resolved or rejected | `InitStarted`, `InitFail` |
| `Compress.pack`, digest test, `archiveSolo`, rejections | `PackDone`, `Archived`, `SpreadFail` |
| `joinPool`, `askAllPeersToSync`, `askPeerToSync` | `Joined`, `ReceiveDone` |
| `sync` handler: start, deletion, download and unpack, start of tasks, catch | `ReceiveSync`, `SyncDeleted`, `SyncDownloaded`, `SyncBroken`, `SyncStarted`, `SyncFail` |
| `clear_all_tasks` | `ClearTasks` |

A connection is a number with two ends; a router of the code is an end of a
connection, and `pool`, `gone` and `synced` are sets of connections per node.
Messages between two ends arrive in order; those written to a connection that is
closed at either end are lost. The content of an application is a `Version`; a
folder, and what PM2 runs, map each task to the version of its file, to `None`, or
to `Torn` (mixed or unfinished). What overlapping writers leave in a file or in
the folder is any mixture (`Mixtures`, `Archives`, `Packed`). `lost`, `crossed` and
`astray` are history variables that only properties read: asks that nobody will answer;
calls whose spread overlapped another one of their node; and nodes with such calls, or
with a spread that failed, and where no other call has archived since. When a task does
not start, the catch branch of the `sync` handler throws itself, as its `e` is undefined
(`src/src/gridcontrol.js:348`): `BreakUp` is the end without a `sync:error`.

Abstractions: an `initTasks` takes effect in one step when it resolves (the
deletion, the ports and the single starts, those too that go on after the call has
rejected, are in `TaskManager`); an archive
is downloaded and unpacked in one step, with every result other handlers can
cause (when it comes at all is in `Archives`); messages that have a reply,
and what the load balancer reads, are in `Routing`.
`Allowed` says what the environment may do in an instance, so that a run can
separate what goes wrong with failures from what goes wrong without.

### TaskManager

`InitTasks` and `DeleteAll` begin calls, which then read the folder, list the
processes, delete them one at a time, and launch the files, `Concurrency` at a
time. A launch takes the listed port of the task or advances the counter; PM2
starts (or restarts) the process; its answer lists the task. Every step of PM2
and of the file system may fail, also after PM2 has started the process. A query
reads the list, connects later, is refused and retried, as `triggerTask` does. PM2
and the HTTP server of a task are external: `Pm2Start` and `Connect` are what the
code relies on. File names are assumed distinct up to their extension (two files
of the same stem would be one PM2 process). The model is about one lifetime
of the process: a restart with requests to PM2 still in flight is out of it.

### Rpc and Routing

`Routing` is one node with its calls of `POST /tasks/lb_trigger_single` (`Single`)
and `POST /tasks/lb_trigger_all` (`Multi`). The grid around it is reduced to what the
load balancer can notice.

| Code | Model |
|---|---|
| routers come, leave, are flagged; `initTasks` unflags them and stops computing for a while | `Connect`, `Close`, `PeerSynced`, `TasksInit`, `TasksStarted` |
| `cachePeerList`, every 500 ms | `CachePeerList` |
| `route`, `broadcast` up to the first look | `Route`, `Broadcast` |
| one turn of `findSuitablePeer`, and what `route` does with the peer | `Look`, `LookNone`, `GiveUp` |
| one turn of `findSynchronizedPeers`, and what `broadcast` does with the peers | `LookAll`, `GiveUp` |
| the task of the node itself is over | `LocalDone` |
| `Actor.send` with a callback and a timeout | `Ask` |
| `onmessage` with a reply, the callback of `route` or `broadcast`, `processResponse` | `Reply` (`RunGood`, `Die`) |
| the timer of a request | `Timeout` |
| the interval of `broadcast` | `TheEnd` |

An answer is a JSON object (`good`), or one on which `processResponse` throws: an
error, a string or null (`bad`). Thrown in a reply, it ends the process: the
handler of a socket is in no promise and in no domain, and nothing handles
`uncaughtException`. Thrown in a timer, it may meet the domain of the HTTP request,
which depends on the version of Node (which domain a continuation of a promise
has): `Timeout` has both outcomes. A reply may come after the timeout; its
entry is still in the table, and its callback runs a second time. A router that closes
takes its answers with it, but neither its callbacks nor its timers, and stays
in the cached list until that is made again.

`Init` is any moment at which the node has no call to answer, since the process
may have been up for a while: any routers, flags and index. `MaxSafe` stands for
2^53 - 1. `ran` and `looks` are history variables that only properties read. A
router that comes back is another router, hence another `Peer`. The first look at
the list is a step of its own, with the same effect as in the turn of
`route` that makes it, or more interleavings. Left out: the statistics of tasks,
and the exact delays between two looks (only their order matters to the properties).

`Rpc` counts the runs of each request's callback. Its steps say what the router
promises: once for the reply, once for the timeout, never for the timeout after the
reply. That a caller may be run twice is part of it, and the reason why `res.send` may
throw in `route`.

### Interplanetary

Any number of nodes with one swarm each. A connection has two ends with a stage
of their own, and every step is an event at one end.

| Code | Model |
|---|---|
| `listen`, `_listenNext`, `_ondiscover`; `destroy` and `onserverclose` | `Listen`, `Listening`, `Destroy`, `Closed` |
| `onpeer`, `onwhoami` | `Discover`, `WhoAmI` |
| `_kick`, its `onclose` and `onconnect` | `Kick`, `DialFail`, `Connect` |
| the server's `connection` | `Accept` |
| `_requeue`, its timer, `_dropPeer` | `Requeue`, `Retry`, `DropPeer` |
| `onhandshake`, with the tie-break | `Handshake` (`Loses`, `Replace`) |
| errors, `ontimeout`, the other end's close | `Fail`, `HearClose` |
| `onclose` of a connection | `CloseEvent` (`Holds`, `Leave`) |

An id is a number, since ids are compared. A restarted node has another id and port and
is another node. The queue is empty between two events: every push is followed by a
`_kick`, and `maxConnections` is never set; `totalConnections`, which is compared with
nothing else, is left out. Backoff is the order of `Retry` and
everything else: any. `fate` is a history variable. `MaxTroubles` bounds what goes wrong:
failed dials and connections, destroyed swarms, announcements that are out of
date or a node's own.

`NobodyIsForgotten` has one exception, `Severed`, which is a real weakness: a dial that is
closed between connect and handshake is not queued again, so one failure separates a
pair for good when one of two crossing dials has yielded and the other is cut. The
exception is narrow: it is the dial of the node with the *smaller* id that has to be cut,
and the larger one must have been cut or have yielded as well.
`PairConnects` is for nodes with one address. With two (`TwoForSecond`), the rule of
`onhandshake` prefers each new connection to the one the same node has dialed before, and
TLC finds two dials that replace each other for ever.

### Admission and Handshake

One connection with its two ends, `client` (dialed) and `server`. Each end has the place
in the chain of promises of `add` (`at`) and the continuation that is due (`todo`). A
chunk may carry several messages: a continuation runs when the chunk has been read, so
messages behind the one that resolved the promise may find no listener. A message is
written with the key or without; read in another state of the key it throws in `verify`
or has no name (`Drop`), which `misread` remembers.

| Code | Model |
|---|---|
| `add` up to its first await | `Add` |
| `key:exchange`, `key:final` | `KeyMessage` |
| `auth`, `auth:status`, `identity` | `AuthMessage`, `StatusMessage`, `IdentityMessage` |
| `.then`: `setSecretKey`, password or identity; `.catch` in GridControl | `Continue` |
| `sendAgain` | `Repeat` (at most `MaxAuth` times) |
| the timers of `auth` and `identity` | `Timeout` |
| `error`, `close` of the socket | `Fail`, `HearClose`, `Closed` |

Three waits have no timer: both sides of the key exchange, and the client's for the
status. `HandshakeEnds` holds as the other side's timer closes the connection, or both
know the key. It speaks of the connection: the promise of `add` may stay pending after a
close, and `sendAgain` goes on writing to a closed socket (`Repeat` has no guard on it).

`Admission` says what this is for: the pools are entered with equal passwords only, by the
server first, and not after `close`.

### Namespaces

One node: `Start`, calls of `change_namespace` (`Change`, `Restart`), `Close`, and what the
swarms report (`Listening`, `ListenError`, `Closed`). Connections of a swarm are being
`added`, `pooled`, or closing, with the namespace that the node told with its identity.
`overlapped` and `late` are history variables that name the two exceptions: two calls
that wait for one swarm to close start two, of which one can never be closed, as
`command_swarm` names the other; and `close()` comes when the old swarm is about to be
replaced, or before a call over a connection that the API has kept open, so that a new
one listens afterwards. Two more are named in `ChangeIsAnswered`: after a listen error
`destroy()` waits for ever, and so does a call that comes after `close()` when the swarm
has reported its `close` already. A router that is being closed stays in the pool until
its `close` event (`src/src/network/socket-pool.js:35`), which is the state `closing` up to
`Gone`; `PoolIsOfNamespace` speaks of the others, as nothing can be sent over it.

### Archives

A grid with its operators, the link that each node announces, the server of the swarm it
has joined last, who replicates what with whom (`wired`), and the messages of a spread.

| Code | Model |
|---|---|
| `initializeAndSpread`: `is_file_master`, `pack`, `archiveSolo` | `Pack`, `PackFail`, `Archived` |
| `Archiver.join`: leaves the link of the moment, and joins another | `Join` |
| `listening` and `error` of a server; `joinPool` | `Reports` in `Spread`, `ListenError`; `Deleted`, `DeletedDeaf` |
| `ondnspeer`: two nodes that announce a link get a connection | `Meet`; `Sever` takes it, or keeps them apart, for good |
| `mountActions`; `askAllPeersToSync`, which asks the next router at the answer of the last one | `Confirm`; `Spread`, `Hear` |
| the `sync` handler: `deleteAllPM2Tasks`, then `downloadAndExpand` | `Receive`, then `Deleted`, `DeletedDeaf` or `DeleteFail` |
| `Archiver.download` has all blocks; the handler's answer | `Fetch` |
| a connection of the grid closes; a process dies | `Part`; `Down` |

Between `Receive` and `Deleted` the handler awaits several requests to PM2: another
handler may overtake it, and a master may make and join an archive of its own that the
handler then leaves. A link that is left is only unannounced: its server and its
connections go on, so that `Join` takes nothing from `wired`. A server that cannot listen
is only logged: the `joinPool` that waits for it never resolves. Two nodes may lose each
other for good in the swarm of a link, as in any other (`Severed` of `Interplanetary`),
until one of them joins it again, which gives it another port (`cut`). A `sync` without a
link throws in the line that logs it, after the tasks have been deleted (`emptied`). Only
operators' pools are kept, since nobody else asks. `made` and `emptied` are history for the
properties (`made` also says which keys are used up). What fails after the download, and leaves a loop waiting, is in `GridSync`.

## 3. Runs

All configurations set `CHECK_DEADLOCK FALSE`: a grid that has spread its
application and gets no further call rests, and so do the other components.

| Run | Instance | Shows |
|---|---|---|
| `calm` | 3 nodes, 3 connections, 2 contents, 3 calls one after the other, no failure | flags mean what they should at every moment; all peers converge, one at a time (`RoutedPeersAreCurrent`, `Converges`, `IsRollout`) |
| `faults` | 2 nodes, 2 tasks, 2 calls one after the other, failing inits, spreads and syncs, closing and reconnecting, a restart, `DELETE /tasks/clear` | nothing torn is ever started, nor two contents mixed; flags do not lie, but after a failed spread; `Rollout` is implemented; the loop leaves every router, unless it is closed or its ask was lost (`OnlyWholeTasksRun`, `OneContentRuns`, `RoutedPeersAreCurrent`, `IsRollout`, `LoopMovesOn`) |
| `overlapping` | 2 nodes, two overlapping calls with two contents, failures, late join, close, loss, `DELETE /tasks/clear` | types; no stall without a cause; digest and link agree again at the next archive (`TypeOK`, `StallHasCause`, `LinkFollowsDigest`) |
| `tasks` | 2 tasks, 2 calls (each starts any subset of files, or deletes), 1 query with 1 retry, 1 start at a time per call | types; ports stay with their task; processes have the listed port; every query reaches a process or gives up (`TypeOK`, `RightTask`, `ListedPortRuns`, `EveryQueryEnds`) |
| `routing` | 2 routers, 2 calls for one peer, 1 broadcast, 1 retry, 1 change of the grid from any start, the index at its limit after 4 looks | types; even turns; what the process may die of; complete broadcasts; true `processing_tasks`; nobody forgotten; `Rpc` is implemented (`TypeOK`, `TurnsAreEven`, `CrashHasCause`, `BroadcastComplete`, `ProcessingIsTrue`, `NoCallIsForgotten`, `RouterKeepsPromise`) |
| `swarm` | 2 nodes with an address each, 3 connections, 1 retry, 1 trouble | types; one connection per peer, the same at both; nobody forgotten; pairs connect (`TypeOK`, `OnePerPeer`, `SameConnection`, `NobodyIsForgotten`, `PairConnects`) |
| `handshake` | any of 2 passwords or none at each end, `auth` up to twice | types; one changeover; `Admission` is implemented; the end (`TypeOK`, `NobodyMisreads`, `KeepsAdmission`, `HandshakeEnds`) |
| `namespaces` | 2 namespaces, 2 calls, 3 swarms, 2 connections, 1 listen error | types; one swarm; its pool; answers; close (`TypeOK`, `OneSwarm`, `PoolIsOfNamespace`, `ChangeIsAnswered`, `CloseEnds`) |
| `archives` | 2 masters with 2 archives and 1 trouble; 1 master, 2 peers, 1 archive, 1 trouble; 2 masters and a node with 1 archive | types; a master leaves its archive only for another's; downloads end; no peer stays without (`TypeOK`, `MastersShare`, `FetchEnds`, `EmptiedIsRefilled`) |
| `stale_done`, `leftover`, `uncaught` | the smallest instance that shows it | the disagreements of section 6 |

Why the bounds are enough to be of interest: three nodes give a loop with a next
router while one peer broadcasts to another that nobody asks; three calls over two
contents give new, changed and unchanged content, and a return to an older one;
two overlapping calls give a handler, an archive and a loop to race with; two tasks in
`faults` give a start that fails in between, and two contents to mix; one
connection at a time with `MaxConn` re-connections gives a router that closes under
a loop and comes back as another; two calls and one start at a time in `tasks`
give overlap between calls, which is where ports could collide (within a call the
task names are distinct), and one query gives every stale port. In `routing`, two
calls share the index, a broadcast has a second router to wait for after one has
answered or closed, one retry gives both a search that goes on and one that gives
up, and as `Init` is any state of the grid one change is enough for a list that
is out of date in each way. In `swarm`, two crossing dials and a third
connection give a tie-break while an older connection is being closed, and one
retry gives both a peer that is queued again and one that is dropped. In `handshake`
a second `auth` is the one too many. `namespaces` has a swarm for the start and one for
each call. `archives` has three grids in one run: two masters that ask each other, so
that a handler joins the other's archive before, between and after its node's own packs;
two peers, for a loop with a router behind the one that hangs; and a grid where either
of two operators takes the one POST, while the other, with a pool of its own, is its peer. Symmetry is used only where no liveness property is
checked.

Why some circumstances are left out. Four properties of `GridSync` hold only in some
circumstances, which the runs and the theorems (section 4) name as values of `Allowed`.
None of these conditions can be dropped: without any one of them TLC finds a behaviour of
the code that violates the property, with two nodes (three for a second master) and two
or three calls.

* `OnlyWholeTasksRun` fails when two `sync` handlers of a node unpack over each other and
  start what they find. Overlapping calls ("overlap") bring that about, and so does a peer
  that joins during a call ("join"): it is greeted by `mountActions` and asked by the loop
  at once. It fails also when contents differ in their files: what a failed unpack has
  damaged is overwritten only by a content that has the same file (the next call, after a
  restart of the master has ended the loop that the failure has stranded).
* `IsRollout` and `OneContentRuns` fail in the same three circumstances. With "overlap", two
  loops ask two peers at once, or one peer twice; with "join", `mountActions` asks a
  new peer while the loop has another one down. A node mixes two contents if a task that
  the new one lacks is still in the folder of the old.
* `RoutedPeersAreCurrent` fails with all of these: a call that posts an unchanged folder again
  before the first spread has reached the peers makes `setAllPeersAsSynced` flag them
  (`src/src/tasks_manager/task_controller.js:45`); a peer that joins during a call is
  greeted and asked by the loop, and its two handlers leave a torn task to the one that
  answers; a second master gives its own
  content to a peer that is flagged at the first one; and `leftover` shows what contents
  with different files do.

Other circumstances are in the properties themselves, as what the code does about them is
no secret of an instance. A spread that fails flags everybody (`task_controller.js:45`
again) and keeps its digest (`src/src/file_manager/file_manager.js:77`); overlapping spreads
may archive what neither of them has hashed. Such a node is `astray` until a call that
overlaps no other has archived, and neither `LinkFollowsDigest`, which needs nothing else,
nor `RoutedPeersAreCurrent` says anything of it till then. The latter leaves out two more:
a node that runs nothing (its tasks were cleared, or it was started again), and a router
whose other end has closed when that is not known yet.

Fairness. `LocalFairness`: a live process takes its own next step, reads what it
has received and notices that the other end has closed; that is the event loop and
TCP. `DownloadFairness`, used only by `Converges` and the liveness of the loops
in runs where no archive gets lost: a download ends; the master seeds the archive as
long as it lives. In `TaskManager`: PM2 answers every request in one way or
another, timers fire, and a query that is refused tries again or gives up; that a
task answers is not assumed. `Routing` has no fairness, as none of its properties is a
liveness property: `NoCallIsForgotten` says that something is always left to end
the wait. `Interplanetary`: servers report, sockets and timers fire, and announcements are
repeated, as the discovery does every second; a dial to a live server fails only by
trouble. `Handshake`: sockets deliver, promises go on, both swarms hand their end over, and
a timer expires unless what it watches is over; `Repeat` is an interval. `Namespaces`:
servers report, promises go on, and a socket that is destroyed, or has been sent a FIN
to which the peer's end answers, closes. `Archives`: a pack ends, servers report, PM2
answers, announcements bring nodes of a link together unless they have lost each other,
messages and blocks arrive. No failure,
call, connection to a master or message loss is ever fair.

## 4. Proofs

The proofs hold for every set of nodes, contents, tasks and calls, every bound
and every choice of `Allowed`. They rest on the named assumptions on the constants
(`GridAssumption`, `TaskAssumption`, `RoutingAssumption`, `InterplanetaryAssumption`,
`HandshakeAssumption`, `NamespacesAssumption`, `ArchivesAssumption`), which TLC evaluates in
each run.

* `GridSyncProofs!TypeCorrect == Spec => []TypeOK`. One lemma per action, with
  lemmas on `Least`, `Sent` and `Without`, which the actions are built from.
* `GridSyncProofs!StallCorrect == Spec => []StallHasCause`. `StallHasCause` says that
  a loop in phase `asking` waits for an ask, a handler or an answer that is under
  way, or for a router that is closed or whose last ask is known to be lost.
  It is not inductive alone: one must know that routers connect two different
  nodes, that what is in an inbox or a job came over a connection of that node, and that a
  router that is asked is one of the pool. `Wired` states this; the inductive
  invariant is `TypeOK /\ Wired /\ StallHasCause`. The interesting cases are those
  where evidence changes form (an ask becomes a handler in `ReceiveSync`, a handler
  becomes a broadcast answer in `SyncStarted` or a loss in `GiveUp`) and
  `ReceiveDone`, which consumes an answer: it moves on every loop that waits for
  that router, so that no loop is left with the evidence gone. (With "one of the
  loops" in its place, `overlapping` fails.)
* `GridSyncProofs!LinkFollowsDigestHolds == Spec => []LinkFollowsDigest`, whatever overlaps,
  fails, joins, closes or restarts. The exception for nodes that are `astray` ends with the
  next archive of a call that overlaps no other, so the theorem has to say why such a call
  archives what its node has hashed, on a node where others may have left anything in the
  temporary file. `Linked` does: of two spreads of a node each is `crossed` (`Apart`), a call
  that has not begun to pack is not (`Ahead`), what a call that is not crossed archives is
  the content of the digest and of the file (`OwnImage`), and the nodes of crossed
  spreads are `astray` (`Straight`).
* `GridSerialProofs!OnlyWholeTasksRunHolds`, for calls that do not overlap, peers that join
  before them, and contents with the same task files (`SameTasks`), with any number of
  operators. That nothing torn is started says nothing about what the folder of a node
  holds, and an inductive invariant has to: `WholeApps` says that a torn file has a task
  which the next content brings, and that a handler which starts the tasks does so from a
  whole folder; `WholeLinks`, that links and asks name sound archives. `Calls` says that one
  call is under way and that nobody writes the file it packs. Both need that a
  node has one handler, which is the conjunction `Traffic`: nothing moves before a call has
  asked its first peer (`Still`), nobody is greeted during a call (`NoGreet`), two nodes have
  one live connection (`OneLive`), a node has one ask to answer or one handler (`OneAsk`),
  and the peers that a loop has still to ask are idle (`Unasked`). The lemma `TrafficSteps`
  sorts the actions into five kinds, by what they do to the inboxes (`Hush`, `Greet`,
  `Tell`, `Listen`, `AskNext`), so that each conjunct is proved for five steps and not for
  twenty. `Serial` is the inductive invariant.
* `GridSerialProofs!RoutedPeersAreCurrentHolds`, for a `Steady` grid: one operator, whose
  calls do not overlap, no peer that joins during a call or after it ("join"), and the same
  task files in all contents. These are all its hypotheses: starts, spreads and syncs
  fail, connections close, messages get lost, nodes restart, tasks are cleared. What the
  property then leaves out is named in it (section 3). (Calls that do not overlap end with
  one that a failure has stranded, as its loop waits for ever; after that the flags
  that are set stay true, until a restart of the operator begins anew.)
  A flag outlives the answer that set it, and
  the next call may find its content unchanged and flag everybody without asking. So the
  invariant is about who *has told* the operator (`Told`): the routers that no loop has
  still to hear of. `ToldCurrent` says that their other ends, unless they have closed,
  run the content of the digest or nothing, and have nothing to do; `NotTold`, that a loop
  has none of them left to ask, over whatever connection; `LinksAreMd5`, that every ask
  under way names the content of the digest; `Runs`, what a call that has started its
  node's tasks knows of them, of the digest and of the link; `Level`, that a node of which
  something is left of an earlier call (`Used`) runs what it remembers; `Unmarked`, that
  nobody is flagged up to the end of `joinPool`; `OpIdle`, that the operator is asked
  nothing. `Routing` is their conjunction, with `Serial`. A failed spread sends the
  operator astray with flags that lie, and the interesting step is `Archived`, which calls
  it back: the flags must have been taken away before (`Unmarked`), and no ask or answer of
  an earlier call may be left. TLC checked the invariant before it was proved.
* `GridSerialProofs!SpreadIsRollout`, that `GridSync` implements `Rollout`, under the same
  assumptions as `OnlyWholeTasksRun`, with any number of masters and all other failures.
  `Serial` says that *one* node has no two things to do; what the refinement needs is that
  two nodes have not. `OnePeer`: while a node has an ask to answer or a handler, all others
  are idle. `AnswerLast`: a loop that can hear the answer it waits for finds all peers
  idle, so that its next ask is the only one; this is where a spread depends on an
  answer being the last thing that its peer does. `Named`: asks and handlers name a
  content, not a null link. TLC checked their conjunction with `Serial` (`Rolling`) with
  three nodes and all failures. Then each action of `GridSync` is a step of `Rollout`
  (`HandlerRolls`, `RolloutStep`) or leaves orders and tasks alone; the invariant `WholeApps` of
  `Serial` makes the start of what is in the folder a start of the whole content.
* `GridSerialProofs!OneContentRunsHolds`, from the refinement: no step of `Rollout` mixes two
  contents (`RolloutKeepsOne`), hence none of `GridSync`.
* `TaskManagerProofs!TasksTyped == Spec => []TypeOK`.
* `TaskManagerProofs!QueriesReachTheirTask == Spec => []RightTask`. The invariant
  `OwnPorts` says that every port a task holds (by the list, by a process, by a
  start under way, by a query that has read it) is below the counter, and that no two
  tasks hold one port; `IdleHasNoPort` says that a query that has not begun has read none.
* `TaskManagerProofs!ProcessesAreListed == Spec => []ListedPortRuns`. The invariant
  `Regular` follows a start from the launch, over PM2, to the list.
* `RoutingProofs!TypeCorrect`, `NoCallForgotten`, `BroadcastsComplete`,
  `CrashesHaveCause`, `ProcessingCorrect`: the inductive invariant `Requests` says what
  holds of each request: an armed timer has a request without an answer (`Armed`), a
  request without an answer has its timer or has timed out (`Pending`), a live
  process has answered the client of a request that timed out (`Survived`), a call for one
  peer has asked one (`OnePeer`), and `responses_nb` is the number of timers still armed
  (`Waiting`), from which the broadcast's completeness follows at `TheEnd`.
* `RoutingProofs!RouterImplementsRpc == Spec => RouterKeepsPromise`: every step of
  `Routing` is a step of `Rpc` or leaves its variables alone, under the mapping of `wire`
  and `ran` to the requests that were asked and the runs of their callbacks.
* `RoutingProofs!TurnsEven == Spec => []TurnsAreEven`. The invariant `Turns` orders the
  positions of the list by the looks left until their turn: a position whose turn is
  sooner has been looked at as often as a later one, or once less.

* `InterplanetaryProofs!OnePerPeerHolds`, `SameConnectionHolds`. Neither is inductive: the
  invariant ties the table to the ends. `KeptIsHeld`: an end that has shaken hands is the
  one in the table of its node; `HeldIsKept`: what a table holds is such an end, or one
  being closed; `Idle`: a number that is free has no ends. The interesting step is
  `Handshake`, where a connection takes the place of another, which closes later.
* `InterplanetaryProofs!NobodyIsForgottenHolds == Spec => []NobodyIsForgotten`, for any number
  of nodes and addresses. Of two nodes that have both given up, the one with the smaller id
  has been cut (`SmallerPursues`: a tie-break closes a connection of the smaller only for
  one that it has dialed itself, and only a cut takes the last pursuit from it), and the
  other has a mark of how its pursuit ended (`EndIsMarked`). That needs that swarms which
  are not up have dialed nobody (`Unheard`) and ban nobody but themselves (`OwnBanned`).
* `HandshakeProofs!NobodyMisreadsHolds`. The invariant `Changeover` says that as long as a
  message in plain text is under way it is alone on both wires and nobody who
  could write has the key, and afterwards all that is under way has it; `Steps` ties the
  place in the chain to the key.
* `HandshakeProofs!HandshakeImplementsAdmission == Spec => KeepsAdmission`. `AdmissionInv` says
  what each message under way implies of the two ends: an `auth` names the client's
  password, a status says that they are equal, an identity that its reader may enter.
* `NamespacesProofs!OneSwarmHolds`, `PoolHolds`. `Ordered`: swarms are numbered, and the newest
  is `command_swarm`; `Awaited`: what a waiting call knows of its swarm; `Alone`: without an
  overlap one call waits, for that swarm; `Live`: a connection that is not closing is of
  it.
* `ArchivesProofs!MastersShareHolds == Spec => []MastersShare`, without conditions. What a
  handler joins is the archive of another node (`DeletingOthers`), since asks name
  archives that their sender has made, and never go from a node to itself
  (`AsksNameMade`, `OwnArchive`, `NotOwnPeer`); no link is made twice. So whatever order
  deletions, packs and messages end in, a link that is left for one that its node has not
  made is left for that of another (`Sharing`).
* Type correctness of the four: `TypeCorrect`, in `NamespacesProofs` `TypeOKHolds`.

Every safety property of a passing run is a theorem. Only model-checked: liveness
(`LoopMovesOn`, `Converges`, `EveryQueryEnds`, `PairConnects`, `HandshakeEnds`,
`ChangeIsAnswered`, `CloseEnds`, `FetchEnds`, `EmptiedIsRefilled`), which is out of the
prover's reach.

## 5. Not modelled

* The queries behind the discovery (DNS, DHT), the ciphers, the framing of messages,
  hyperdrive, PM2 and the HTTP servers of tasks: libraries and other processes, modelled by
  what the code relies on, where it does.
* utp: `_utp` is never set and `_listenBoth` never called, nor are `addPeer`, `removePeer`
  and `Archiver.archive`; `maxConnections` is never set.
* The statistics of the load balancer, the `ping` action, `connect` and `terminate` of the task
  manager, middlewares and routes that only read: no other state depends on them.
* TaskWrapper (one HTTP handler around user code), the grid-api client (one HTTP request per
  call), Tools, grid-cli (provisioning over SSH, a dashboard), research and
  subprojects (not loaded by the program).
* What a real clock adds: timers are ordered only by what cancels them.

`PROJECT.json` lists each component with its status.

## 6. Where the code and its documentation disagree

Each run below checks one statement of a comment or of the README, and TLC finds a
behaviour of the code that violates it.

* `stale_done`: `sync:done` flags a router whatever link it names; the comment says
  "if data.link == current_link == OK" (`src/src/gridcontrol.js:310`).
* `leftover`: archives are unpacked over each other and the folder is never emptied, so
  a flagged peer goes on running a task the master has dropped.
* `uncaught`: an answer that is an error throws in the handler of a socket, out of
  reach of the promise of which the comment says "Will be catched by Promise.catch"
  (`src/src/load-balancer.js:23`), and the process of the caller dies.

What else came up, and is an exception named by a property or a bound rather than a run of its own:

* A router that closes while it is asked, a sync that fails, and a `sync` that comes in the
  chunk of the master's identity, when nobody listens yet, each strand the loop and the
  peers behind that router (`Hopeless` in `StallHasCause`).
* A peer that has synchronized neither computes for itself nor knows that the master could
  (the meta of a `sync` has no `local`, and only `sync:done` flags a router).
* `Severed`, `overlapped`, `late`, and the swarms of `ChangeIsAnswered` that never report
  (section 2).
* A spread that fails flags every peer and keeps its digest, and overlapping spreads may
  archive another content than the one hashed (`astray`, section 3).
* A master that takes another's `sync` leaves the archive that it goes on telling of; two
  that take each other's may both wait for ever. So does a download whose server cannot
  listen, or whose pair has lost each other: the archiver only logs it, and has no
  timeout (`Orphan` in `FetchEnds`).

## 7. What could follow

The composition of `Interplanetary` and `Handshake`, for what becomes of a connection
that loses the tie-break in the middle of its handshake.

## 8. Running it

`tlc -config calm.cfg MCGridSync.tla` (the module of each run is in
`PROJECT.json`), and `tlapm GridSerialProofs.tla`.
