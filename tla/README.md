# A TLA+ model of the Growtopia bot node

This directory models the program in `Growtopia Bot/src` (a C++ process that
runs many game bots) and the worker in `Growtopia Bot/web-control` that keeps a
database in step with such processes. File names below are relative to
`Growtopia Bot/`. `PROJECT.json` maps every definition to the lines it stands
for and lists the runs, the hazards and the theorems.

## 1. The system

| component | state | operations | talks to |
|---|---|---|---|
| main loop, `src/main.cpp` | – | start the HTTP server, then for ever poll every client of the pool | pool, clients |
| `ClientPool`, `src/client/client_pool.*` | `m_clients` under `m_mutex` | add (connects nothing), get, remove, get_clients | takes every client's mutex while it holds its own |
| `Client`, `src/client/client.*` | `m_mutex`, ENet host and peer, status, login data, world, inventory, player, macros | connect, disconnect, send_packet, service_poll, login and the game commands (move, punch, place, wear, …) | game server (ENet), login servers (HTTPS), Lua queue |
| `LoginInfo`, `src/client/structs/login_info.*` | address, meta, login token, session | request_server_data, request_app_data, reset | login servers |
| event handlers, `src/events/registered/**` | – | one function per call, game packet or track packet; they run on the main thread inside `service_poll` | client, world, inventory |
| `World`, `src/world/**` | tiles, players, floating items | load the map, apply tile and object changes | – |
| `Inventory`, `src/player/inventory.*` | amounts by item | load, add, remove | – |
| `Pathfinder`, `src/utils/pathfinder.hpp` | queue and closed set of a search | A* over the world's tiles, by the collision rules | world, item database |
| HTTP server, `src/server/http_server.*` | – | one handler per option of `POST /api/1.0`; cpprestsdk runs them on its thread pool | pool, clients |
| Lua API, `src/lapi/**` | `SafeQueue` of events, `m_is_listening_events` | listen_events, unlisten, bindings of client methods | client |
| `Logger`, `src/core/logger.*` | level, file, `log_mutex_` | initialize, log, … | – |
| sync worker, `web-control/worker/index.js` | `syncInProgress`; tables Node and Bot of its own database schema | periodic and initial sync, shutdown | database, nodes |
| web API, `web-control/src/app/api/**` | tables nodes, bots, users | create and sync bots, create, change, delete and check nodes, roles and deletion of users, action, refresh | database, nodes |
| web pages, GUI, vendored libraries | – | – | – |

### How they interact

* A request runs its handler on a pool thread. The handler looks the client up
  (pool mutex, under it every client's mutex one after the other) and calls the
  client, which takes its own mutex again.
* The main thread copies the list of clients and calls `service_poll` on each,
  *without* the client's mutex. The events of the game server are handled
  inside; handlers take the mutex where they change the client (not all do).
* A lost link starts a detached thread that calls `connect()` until it works.
* `connect()` holds the client's mutex while it talks to three web services, one
  of them without a timeout (`growtopia_auth.hpp:98`, `166`); a
  pool lookup waits for it, and every other request waits for the pool.
* `OnSendToServer` redirects a bot: its handler stores the new address and
  session, and calls `connect()` on the main thread.
* A Lua script that waits for events takes them from a queue which the main
  thread fills while the flag `m_is_listening_events` is on.
* A request to the web API reads and writes the database and asks nodes over
  HTTP, each in an await of its own; two requests mix freely, and only a
  cascading delete is a transaction.
* The worker reads both tables at the start of a sync and asks each node over
  HTTP; it creates, updates and deletes rows of bots. It and the web API have
  separate schemas (`worker/prisma`, `prisma`) and tables.

### What is hard in it

Three kinds of threads work on one ENet host; a mutex is held across network
requests; two mutexes nest; some readers take none; reconnect threads compete
with redirects and operators; a path outlives the map it was found on; flags and
queues are checked and then used; amounts are 8 bits wide; and a table follows a
system that it can only ask, with requests that fail or time out and a process that
ends in the middle; what a web request has checked may be gone when it writes; the
path search tests its closed set early. `PROJECT.json` lists these hazards line by line.

## 2. What makes each component correct

* **Connection**: `connect()` excludes itself and every sender; one host per
  client, no leak, and `m_peer` is its peer; an answer goes out on
  the connection its message came from; a server is dialled only with a login
  token; a redirect logs in with its session; a lost link is dialled again; the
  mutex is given back, unless a login request is never answered.
* **Pool and main loop**: names are unique; each request acts on the set of
  names at one instant; every request is answered and every bot polled, although
  mutexes nest and are held for seconds, as long as each `connect()` returns.
* **Event queue**: a script handles events in the order they were sent, each at
  most once; what one session leaves for the next is bounded; sessions end, and the ways in
  which one
  hangs or dies are known.
* **Movement**: the server can stop a walk; the flag that refuses a second walk
  is on only while one runs; walks end unless `connect()` keeps the mutex.
* **Path search**: a way that the collision rules and the bot's rights allow, a
  shortest one; none only if there is none; an end.
* **Sync worker**: each sync ends, whatever overlaps; no row of a running bot is
  deleted; the table converges.
* **World and inventory**: whenever all packets are applied, tiles, lock, players
  and floating items are the server's, drop ids included, though those are
  counted on both sides; the inventory never shows more than there is.
* **Web API**: a limit on nodes holds; a deleted node or user leaves nothing
  behind; a bot has one row; a sync makes the rows what the process says; an ADMIN
  remains (whether as an active user is not modelled). Each has an exception that a race of
  two requests
  makes, and the properties say which.

## 3. The modules

| module | models | proofs |
|---|---|---|
| `ClientConn` | the connection of one bot: connect, disconnect, send_packet, get_ping, the connection events, reconnect threads, LoginInfo | `ClientConnProofs` |
| `ClientPool` | the pool, the handlers that use it, the main loop, reconnect threads as far as they hold mutexes, lifetime of clients | `ClientPoolProofs` |
| `Registry` | the abstract pool: a set of names | `ClientPoolProofs`: refined by `ClientPool` |
| `ConnRequests` | ClientConn with a history of the reconnects that HTTP clients asked for | `ClientConnProofs` |
| `EventQueue` | SafeQueue, the flag, `l_listen_events` | `EventQueueProofs` |
| `Walk` | move_toward, teleport, and the events that move the bot or change its world | `WalkProofs` |
| `Pathfinder`, `MCPathfinder` | the A* search and the collision rules | `PathfinderProofs` |
| `WorldState` | the world, players, floating items and inventory, the packets that change them, collect, smoke, reset, the macros, world_tiles | `WorldStateProofs` |
| `BotSync` | `worker/index.js` with its nodes and its table | `BotSyncProofs` |
| `WebApi`, `MCWebApi` | the web API's tables and the requests that change them, over nodes that behave as `Registry` | `WebApiProofs` |

All modules follow one scheme. A thread has a program counter; a critical
section of a mutex is one step; what happens without a mutex is a step per access
to shared state; whatever waits (a network request, a lock) is a step of its own.
Mutants of definitions stand before them, marked *Mutant*: they are plausible
bugs that the properties are tried against. What a history variable records is
read by properties only.

### ClientConn

`lock` is `Client::m_mutex`, `host`, `peer` the pointers of the client
(null, live, stale), `link` the state of the ENet peer, `dialled` where it was
dialled to, `addr`, `meta`, `ltoken`, `session` the fields of `LoginInfo` that
decide a connect. `pc` says where each thread is. `connect()` is the steps
`connect_begin`, `host_create`, `request_server_data`, `request_app_data`,
`growid_login`, `dial`, each with its failing counterpart; `AfterConnect` is what
the caller does with the result (answer, end, or reset and retry). A login request
that is never answered leaves its thread `"stalled"`, with the mutex
(`growid_login_stalls`): the requests of `growidLogin` have no timeout.
`service_poll` begins, reads `m_host` (`poll_call`), and handles events one by
one while other threads go on; `svc` remembers whether the host it works on is
still the live one. A use of a freed host ends the process (`poll_freed`) or
happens to be harmless.

`Recon` bounds the reconnect threads that exist at a time; the HTTP requests are
chosen with `HttpOps`. The ENet protocol is abstracted to the states that the
code can tell apart.

`ConnRequests` adds `asked`: whether an HTTP client has asked for a reconnect,
and whether two of them overlapped. Three promises hold only without: a login
needs its session, one reconnect thread at a time, and (without overlap) a token
before every dial.

### ClientPool and Registry

`clients` is `m_clients`, `lock` the pool's mutex, `mutex[c]` each client's.
`add`, `get` and `remove` scan the list under the pool's mutex and take each
client's to compare names; each comparison is a step (`scan_next`, `scan_hit`)
and can wait. The inside of `connect()` is left to `ClientConn`: here a thread
holds the client's mutex for some time, perhaps for ever, and succeeds or fails. Handlers that
look
up a bot and read or command it under its mutex are the action `use_client`;
`list_next` is `on_list_clients`. Objects live as long as the pool, a handler or
the main loop's copy refers to them (`Alive`).

`Registry` is what the pool promises: a set of names on which each request acts
at one instant. `PoolIsRegistry` is checked as a refinement with
`names <- {name[c] : c \in Elems(clients)}`. An `add` whose `connect()` fails
leaves its name registered; the abstraction says so.

### EventQueue

`flag`, `queue` and `peer` are shared. The main thread reads the flag and
pushes in two steps. A listening thread evaluates the condition of its loops
operand by operand (`cond`: the clock with the flag, then the peer), asks
`empty()`, pops, and at the end puts the flag off and clears the queue, each in
its own step. `SafeQueue::empty` returns a reference to a temporary: what it says
is arbitrary (`queue_empty`). `get_peer()` may be null after `disconnect()` or stale
after `connect()`; then reading its state ends the process (`fault`), or gives
anything. The history variables `heard`, `since`, `rival` and `stray` serve the
properties: `stray` are the threads that were told there is an event when there
was none. A handler that itself listens is left out.

### Walk

The world is a row of `Width` tiles; `tiles` is the number of the map load that
filled `m_tiles`. `lock` is held while some thread is inside `connect()`; the steps
under the mutex (`LockStep`, the jumps, the handlers) wait for it. A reconnect
thread resets world name and player at any time, without it. `find_path` runs under the mutex,
the walk does not: `made[t]`
is the load its pointers come from, and reading a tile of another load gives any
place. A walk starts in two steps (the check of the flag, and much later its
store), as the code does. `late` counts the steps a thread sends after the last
`OnSetPos`.

### Pathfinder

A queued `Node` is its chain of parents, goal end first, and `open_set` the set
of them: the code never has one chain twice, but may have many that end in one
tile, because `closed_set` is tested when a tile is pushed and not when it is
taken. Which of the nodes with the least f comes first is left open, as the heap
does not say. `Passes` are the collision rules: an obstacle; a platform, which
stops a bot on its way down; a one-sided tile, tested on the tile that is left and the
one that is entered; an entrance, which is public or needs access to the world; a
VIP entrance, which needs the owner or a name on the tile's own list. f is a float
in the code, which is exact for these sizes. A bot whose position is outside of the
world, where the code indexes `closed_set` out of range, is left out here; `Walk`
has it (`Starts`).

### WorldState

`srv` is the truth on the game server: where the bot is, tiles, lock, players,
drops, and its inventory (`bag`). What happens there (`ServerNext`) is sent on
`wire`, a queue that keeps order and loses packets only with the link
(`link_lost`, `relog`). Each handler of `events/registered/game_packet` is an
action on the main thread, as a whole because it holds `m_mutex`. The server
side is external: it is what the handlers assume of it (a drop gets the next id,
a drop on one of its kind merges, an item is taken once, no item exceeds 200).
`collect`, `smoke` and `reset` hold no mutex: they are a step per access, and a
list that changes under `collect` makes its iterator stale (`Invalidates`).
So does the reset of a reconnect thread, any time after its `connect()` failed
(`connect_fails`, `reconnect_reset`, `reset_player`), also when another thread has
brought the bot into a world by then. `get_tile` says what an access by size reaches: nothing,
a tile, or memory
outside of `m_tiles`. `on_get_world_tiles` does hold the mutex, which does not help: the
size outlives the tiles between worlds. In `Tile` owners are cut to 16 bits and access lists
only
grow, as in `tile.hpp` and `tile.cpp`. `called` is history. Undefined behaviour
ends the run with `fault` set. World sizes differ through `Locked`, so that
going from one to another leaves a stale size behind.

### BotSync

Each `await` of a sync is a step. `snap` is the list of rows read with the nodes
at its start, `found` and `gone` what is left to update and to delete. Nodes go
up and down and change their bots, the table is written by others, requests fail
(`Failure`, and the failing branches of writes), and the process exits and starts
again: each a bounded number of times. `Serves` lists the endpoints that a node
answers. `absent` is history: the pairs of node and bot that, at some time in the
sync, were not running.

### WebApi

`role`, `nodes`, `url` and `rows` are the tables; `url[n]` is the address of node n,
that is the process it stands for, which a PUT may change; `pool[p]` is what process
p runs. A request is at an await (`at`) with its local variables (`my`), among them
the addresses as it has read them (`my[q].url`, `Peer`), which may be old when it
uses them. What a
process does with option `add` is the step `Act` of `Registry`: the module takes the
abstract pool that `ClientPool` is shown to implement, one instance for each process
(`R(p)`). A process may answer after the request has timed out (`abandoned`), or
crash, and others use it, too (`pool_changes`). `identifies` says whether the
processes answer with a `client_id`, `GET /clients` and `GET /status`, as the web
control expects; those of this repository do not, so that every row gets a
clientId made up and a check marks every node inactive. Errors of the database
end a request, except in the loops of sync and check, where they
have their own branches. The database does not check references; a deletion
cascades. The first reads of a request (user, node) are one step: what happens
between them could as well have happened before. `excused`, `raced`, `lost`,
`late` and `quiet` are history, for the exceptions of the properties.

## 4. The runs

| run | what it checks | bounds |
|---|---|---|
| `conn_requests` | TypeOK, HostAndPeer, ReplyOnSameLink, LoginHasToken, OneReconnector, LoginHasSession | main, 2 handlers with every request, 2 reconnect threads |
| `conn_recovery` | ReconnectorFinishes, LockReleased, under fairness | main, 1 handler, 1 reconnect thread |
| `conn_freed` | NoFreedHost, **violated** | as conn_requests |
| `pool_registry` | TypeOK, UniqueNames, PoolIsRegistry | 2 handlers, 2 clients, 2 names |
| `pool_live` | RequestAnswered, EveryBotPolled, under fairness | 2 handlers, 1 client, 1 name, all requests (`use` stands for those that read or command a bot), all events |
| `queue_threads` | TypeOK, InOrder, ResidueBounded, OneStale, SessionEnds | 2 scripts, 2 events |
| `walk_move` | TypeOK, SetPosStops, FlagMeansWalk, MoveEnds | 2 threads, 2 tiles, 1 world, 1 OnSetPos, connects and resets at any time |
| `path_search` | TypeOK, ShortestWay, SearchEnds | 3 by 2 tiles, at most 2 special, all starts of the left half, all goals and one outside |
| `world_bot` | TypeOK, ItemsAgree, ViewAgrees, BagAgrees, FaultHasCause | 2 worlds of 1 and 2 tiles, 1 kind of item and gems, 1 place, 2 net ids, 3 events on the server, 3 packets on the way, 1 kind of call by HTTP, which a reset by the reconnect thread counts as |
| `sync_worker` | TypeOK, DeletesAbsent, SyncEnds, Converges | 2 nodes, 1 bot, 2 overlapping calls, 2 changes, 1 failure, 1 exit |
| `sync_fault` | RemovesUnlisted, **violated** | 1 node, 1 bot, 1 failure |
| `web_requests` | TypeOK, FreemiumBounded, OrphansRaced, RowsDistinct, SyncExact, AdminRemains | 2 users, 2 nodes, 2 processes, 1 name, 2 requests that overlap, 1 change of a process from elsewhere, limit 1 |

Why the bounds are enough. Every conflict in the code is between two threads and
one shared object, or between a thread and one event; two of each, and a third
thread that changes the object in between, make every such interleaving happen.
In `queue_threads` two events suffice to see them swapped, lost or heard in the
wrong session. In `walk_move` the one
world can be left in the middle of a walk, which already makes its pointers
stale. In `sync_worker` two nodes show rows of one compared with the answer of
the other, and a change, a failure and an exit can each fall between any two
requests. The invariants of `conn_requests`, `pool_registry`, `queue_threads`,
`walk_move`, `path_search` and `web_requests`, the refinement `PoolIsRegistry`, and of
`sync_worker` TypeOK and DeletesAbsent, are also proved for all values of these
bounds (section 5); in `pool_registry` some only without renames.

In `world_bot` three events are: enter, drop, drop again (merged) or take; or
enter, leave, enter the other world; or a lock set, broken, set again; each with
the link lost at any time and an HTTP call at any place. Amounts of 100 reach the
limit of 200 with two.

In `path_search` two special tiles wall off a corner, force a detour longer than the
heuristic says and combine the one-sided tile that is left with the one that is
entered; all worlds, starts, goals and rights are initial states. A world and its
mirror image behave alike, which leaves the left half for the start.

In `web_requests` two requests are all that a race in this code needs: one that has read
and one that writes in between. With a limit of 1 one
node fills it and two race for it. One account suffices, since rows with different
clientIds do not touch each other; two nodes let one bot's row be of the other node,
and two processes let a node become the other one while a request is on its way.
That a change of address makes two rows takes a third request; a run with three,
without changes from elsewhere, passed too (and failed without the exception of
RowsDistinct), and the proof has any number.
Users, nodes, processes and requests are
interchangeable (`Symmetry`), and no property of this run is about a behaviour.

`CHECK_DEADLOCK FALSE` is set where the system stops: in `queue_threads` the
bounded server may have sent everything and all scripts may have ended, in
`path_search` the search is over, and in `web_requests` the requests and changes
are used up.

### What the violated runs show

* `conn_freed`: `service_poll` works on `m_host` without the mutex under which
  the other threads destroy it (`client.cpp:684`).
* `sync_fault`: a failed request for a node's bots is taken for an empty list, and
  the rows of running bots are deleted (`worker/index.js:150`).

### Fairness

* Threads are scheduled (weak fairness of each thread's steps), and a network
  request that has a time limit ends: those of `LoginInfo` (its curl handles set
  `CURLOPT_TIMEOUT`), ENet's and the worker's axios calls. `growidLogin` sets none
  (`growtopia_auth.hpp:98-107`, `166-184`), so nothing makes it end: `ClientConn` has it
  stall, and ReconnectorFinishes and LockReleased say what then goes on
  (nothing, for that bot). RequestAnswered, EveryBotPolled and MoveEnds are
  implications: they assume that the mutex of a client is free again and again
  (`ConnectsReturn`), and `connect()` gets no fairness.
* A thread that wants a mutex again and again gets it (strong fairness of the
  steps that take one). That is an assumption about the system, not about the code:
  `std::mutex` does not promise it. Without it no thread could be shown to
  make progress. For requests, walks, main loop and reconnect threads alike.
* `conn_recovery` also assumes that a service that is asked for ever answers in
  the end, unless it stalls; failures are otherwise free at every step.
* In `pool_live` the events of a bot's server come with pauses
  (`enet_host_service` returns 0 in the end).
* In `queue_threads` Lua functions return and time passes. SessionEnds names what
  parks a session in `pop()`: another session took its event, or `empty()` said
  there was one. And a peer that is gone ends the process.
* `SearchEnds` assumes only that a search that can go on does.
* In `BotSync` the timer starts syncs for ever and the process is started again.
  Failures, changes and exits are bounded and get no fairness.

## 5. What is proved

For every value of the constants that satisfies the named assumptions, which only
say that threads differ, that bounds are naturals, and the like (`ThreadAssumption`,
`PoolAssumption`, `QueueAssumption`, `WalkAssumption`, `PathAssumption`,
`SyncAssumption`, `WebAssumption`, `WorldAssumption`; TLC evaluates them on every run). A
hypothesis of a
theorem of its own is in the table.

| theorem | says | along |
|---|---|---|
| `ClientConnProofs!TypeCorrect` | types | `ConnInv` |
| `ClientConnProofs!ConnSafety`, `ReplyStays` | ConnectExclusive, HostAndPeer; ReplyOnSameLink | `ConnInv` |
| `ClientConnProofs!TokenFirst` | LoginHasToken | `ReqInv` |
| `ClientConnProofs!ReconnectorAlone` | OneReconnector | `ReqInv` |
| `ClientConnProofs!SessionForGame` | LoginHasSession | `ReqInv` |
| `ClientConnProofs!HistoryOnly` | the history forbids no step: `ReqSpec => Spec` | – |
| `ClientPoolProofs!TypeCorrect` | types, with renames by the server, too | its own `TypesInv` |
| `ClientPoolProofs!NamesUnique` | UniqueNames, if `ServerNames = {}` | `PoolInv` |
| `ClientPoolProofs!PoolImplementsRegistry` | PoolIsRegistry, if `ServerNames = {}` | `RegistryInv` |
| `EventQueueProofs!TypeCorrect` | types | `QueueInv` |
| `EventQueueProofs!EventsInOrder` | InOrder, for garbage from `empty()` too | `QueueInv` |
| `EventQueueProofs!ResidueSmall` | ResidueBounded | `QueueInv` |
| `EventQueueProofs!StaleAtMostOne` | OneStale | `StaleInv` |
| `WalkProofs!TypeCorrect` | types | `WalkInv` |
| `WalkProofs!SetPosObeyed` | SetPosStops | `WalkInv` |
| `WalkProofs!FlagTells` | FlagMeansWalk | `WalkInv` |
| `PathfinderProofs!ChainsAreWays` | TypeOK: every queued parent chain is a way without a loop | `PathInv` |
| `PathfinderProofs!FindsShortest` | ShortestWay | `FrontierInv`, `BestInv` |
| `WebApiProofs!TypeCorrect` | types, and no clientId twice | `TypesInv` |
| `WebApiProofs!LimitKept` | FreemiumBounded | `LimitInv` |
| `WebApiProofs!OrphansOnlyRaced` | OrphansRaced | `RacedInv` |
| `WebApiProofs!RowsStayDistinct` | RowsDistinct | `Told`, `Untold` |
| `WebApiProofs!SyncStaysExact` | SyncExact | `SyncInv` |
| `WebApiProofs!AdminStays` | AdminRemains | `TypesInv` |
| `WorldStateProofs!TypeCorrect` | types, amounts stay 8 bits wide | `WorldInv` |
| `WorldStateProofs!ItemsStayTrue` | ItemsAgree | `WorldInv` |
| `WorldStateProofs!ViewStaysTrue` | ViewAgrees | `WorldInv` |
| `WorldStateProofs!BagStaysTrue` | BagAgrees | `WorldInv` |
| `WorldStateProofs!FaultsHaveCause` | FaultHasCause | `CauseInv` |
| `BotSyncProofs!TypeCorrect` | types | `TypesInv` |
| `BotSyncProofs!RemovesOnlyAbsent` | DeletesAbsent, if `Serves = AllEndpoints` | `Alone`, `IdsInv`, `KnownInv` |

Every inductive invariant was first checked by TLC on the run of its module, that
of `WorldState` on a smaller instance, with the states of the server kept that the
packets on the way come from. Why each is needed:

* `ConnInv` adds to the properties what holds inside `connect()` (from
  destroying the host to creating the next there is none; from then to the dial
  it has no link) and inside `service_poll` (the host worked on is the live one,
  or the link is not up). ReplyOnSameLink is not inductive without the latter:
  that a new link cannot be up before the main thread polls again is what makes
  the unlocked poll safe for answers.
* `ReqInv` says who may be on the way through `connect()` while no HTTP client has
  asked for a reconnect (one thread, and it is there for want of a link), that the
  address of a game server comes and goes with its session, and what cannot have
  happened before the first login token.
* `PoolInv` says what a scan in progress has established: `add` has compared all
  names before its position, and what `remove` keeps are distinct clients of the
  part it has passed. The pool's mutex keeps both true until the scan ends.
  `RegistryInv` adds that a lookup has missed the name in all it has passed and
  that what `remove` keeps is all but the name: then the last step of a scan is the
  one step of `Registry`, and every other step a stutter. Both need that names do not
  change; a server that renames a bot (`ServerNames`) breaks them, in the code, too.
* `QueueInv` orders what has been heard, what is queued and what is about to be
  pushed; whenever the flag is on some session has yet to put it off and clear,
  which bounds what stays. `StaleInv` adds that at most one event is older than a
  session that no other overlapped.
* `WalkInv`: a thread between two steps of the loop has a tile left to go to;
  while a thread moves and no world has been left the bot is in one; from
  `OnSetPos` to the next walk the flag is off, and a thread that has sent its
  step since does not pass the check of the flag again.
* `PathInv`: what is queued is a chain of steps that pass, from the start, over
  expanded tiles, none twice. `FrontierInv`: whatever an expanded tile leads to is
  expanded or waits in the queue with a chain that is not longer than any way by that
  tile. The search improves no queued node and expands tiles again, so the
  argument is about the first time: the heuristic changes by at most one between
  neighbours, so whatever shortest way leads on, something waits in the queue
  with no greater f (lemma `Frontier`), and the first chain to a tile is a shortest one.
  `BestInv`
  carries this to the result. The reference `within` is a recursive function, and the lemmas
  about it take the least counterexample (`LeastNat`), since the library's induction
  theorems cannot be used.
* In `WebApiProofs` no step of a request touches what another one holds, but the
  tables change under it. `LimitInv`: without an excuse, a user's nodes and the
  one about to be written fit into the limit. `RacedInv`: what a request has found
  is still there or was deleted since. `Told`: nodes that identify their bots give
  the name as clientId, which is unique; `Untold`: from the others, a request that
  got `found` is the only one for its bot, which has no row yet, as long as the node
  keeps its address (`Elsewhere`). `SyncInv`: what an
  undisturbed sync knows of the process after each await.
* That the bot agrees with the server when nothing is on the way is not inductive: it
  depends on what the packets on the way will do. `WorldInv` (`Knows`) says that the bot
  agrees (`Match`) with what was true on the server at some time before, and that
  the packets on the way lead from there to what is true now (`Path`), each of them
  telling of one change (`Told`). A step of the server adds to the end of the path
  and a handler takes from its front, so that each is looked at by itself; when nothing is on
  the
  way the two states are one. `Told` also says what the server sees to and the handlers
  rely on: ids of drops are given in turn, no two lie in one place and are of one kind
  (a merge finds the right one), no spawned player is there already, no item exceeds 200 (8
  bits do
  not wrap), there is one lock. `BagMatch` leaves open what a login is still to bring.
  `CauseInv`
  adds that the size of a world differs from its tiles in no world only, and
  that the main thread's next player is there unless an HTTP smoke came between.
* In `BotSyncProofs`, `Alone` says that two calls never work at a time
  (`syncInProgress`), `IdsInv` that an id in the snapshot and in the table means the
  same bot, and `KnownInv` that what a call has found out was so at some time in
  this sync. The hypothesis on `Serves` is needed: a node that answers no
  health check loses all its rows.

Only model-checked:

* All liveness properties (`ReconnectorFinishes`, `LockReleased`, `RequestAnswered`,
  `EveryBotPolled`, `SessionEnds`, `MoveEnds`, `SyncEnds`, `Converges`, `SearchEnds`):
  fairness and ENABLED are beyond the prover.

## 6. Plan

Done, in the order of importance: ClientConn, ClientPool with Registry,
EventQueue, BotSync, Walk, WorldState, WebApi over Registry, Pathfinder. Every safety
invariant and action property that a passing run checks is proved, and the refinement
of `Registry`. Next: the safety that the liveness properties rest on (who holds a
mutex or is waited for can go on, what is left of a loop gets less), and the
hazards that no property covers yet.

## 7. Not modelled

* The item database (read once at the start), binary reading and text parsing (no
  state), the web pages and the GUI (presentation), vendored code: none of it has
  behaviour that a model would add to.
* Positions and states of other players (`state`, `set_character_state`): each
  packet overwrites them, and nothing in the bot decides by them.
* The seeds' times and the other extra data of tiles: kept and shown only.
* The status column of a bot in the web control, with the requests `action` and
  `refresh-status`, which write nothing else: each overwrites it with what it was
  told last.
* Registration and the fields of a user other than the role: one check and one
  write for which the database has unique indexes. `isActive` of a user is among
  them: AdminRemains says that an ADMIN remains, not that he can log in.
* The handlers that build a packet (punch, place, wear, wrench, warp, say) beyond
  `send_packet`, and those that only read a client.
