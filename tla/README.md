# A verification project for the servant (peer-to-peer file system)

The program is a *servant*: a process that keeps TCP connections to its
neighbours, floods requests (status, search, get, join, check, delete, store)
through the network, routes the answers back, and keeps files in a directory,
some of them its user's own and some of them in an LRU cache. One process runs
many threads: a keyboard thread, a timer thread, a dispatch thread, a listening
thread, a client thread per configured beacon, and a receive and a send thread
per connection. They share a dozen tables under as many mutexes.

This directory holds TLA+ modules translated from the C++ sources, the TLC
configurations that check them, and proofs that TLAPS checks. `PROJECT.json`
lists, for every definition that models code, the lines it stands for.

## 1. Inventory

| Component | State it keeps | Operations | Source |
|---|---|---|---|
| file system, LRU cache | `name_map`, `sha1_map`, `kwrd_map`, `filesys_index`; `cacheFile_index_list`, `currentCacheSize_Bytes`; `fileIDIndex_map`; `N.meta`, `N.data`, `N.pass`; the index files | store, cache a file and evict, search, delete, get, write and read the index files | `filesys/fileSystem.cpp`, `system/handler2.cpp` |
| request flooding, answer routing | `UOID_time_map`, `routing_map`; what a node waits for: `check_msg_UOID`, `issent_status`, `search_done_map`, `getMsgFilename_map` | make a request; receive a message; answer, remember the sender and flood; forward an answer; forget UOIDs | `system/handler.cpp`, `handler2.cpp`, `node.cpp`, `protocol/message.cpp` |
| connections, dispatcher | `id_map` (send thread resources), `nb_map`, `join_sockets`, `thread_exit` and `send_queue` of each connection, `dispatch_queue` | accept, connect, receive, end a connection, dispatch, send, keepalive | `system/node.cpp`, `system/helper.h` |
| hello handshake, tie breaking | `nb_map`, `nb_cond` | keep one of two connections between two beacons | `system/handler.cpp` |
| keepalive timeout | `select`'s timeval of each receive thread | close a connection on which nothing comes | `system/node.cpp` |
| node life cycle | `node_exit`, `restart_cond`, the thread ids | run, signals, end, soft restart | `system/node.cpp`, `main.cpp` |
| join protocol | `join_sockets`, distances, `init_neighbor_list` | ask one beacon, collect answers, choose neighbours | `system/join.cpp` |
| check and soft restart | `check_msg_UOID`, `checkRes_recv` | look for a way to a beacon when a neighbour is lost | `system/handler.cpp`, `node.cpp` |
| status command | `issent_status`, the status file | collect answers until a timeout | `system/handler.cpp`, `node.cpp` |
| search and get commands | `search_res_queue`, `search_done_map`, `tempMeta/` | show answers, download one | `system/handler2.cpp`, `node.cpp` |
| message receiving | a receive buffer per thread | header, payload, file payload | `system/node.cpp`, `handler2.cpp` |
| message classes | header (type, UOID, TTL) and payload | parse, write | `protocol/*.cpp` |
| bit vectors, metadata | none | keyword hashes, `.meta` files | `filesys/bitVector.cpp`, `meta.cpp` |
| keyboard commands | none of its own | parse a command, call the above | `system/node.cpp` |
| log; configuration and start | a file; `Config` | output; input | `system/log.cpp`, `main.cpp`, `tool.cpp` |

**How they interact.** A receive thread reads a message, looks its UOID up, and
runs the handler of its type to the end before it reads the next; the handler
touches the routing table, the neighbour table and the file system. Whoever makes
a message (a handler, the timer, the keyboard, a client thread) pushes it with a
*descriptor* into the dispatch queue; the dispatch thread looks the descriptor up
in `id_map` and moves the message into that connection's send queue; the send
thread writes it to the socket, and opens the files of a file payload only then.
The timer sends keepalives and counts down every table with a lifetime.

**What is hard.** (1) Operations of the file system take its locks several times
with gaps between, and two connections and the keyboard run them at once.
(2) The accounting of the cache subtracts what an eviction does not free.
(3) A descriptor is a name that the operating system uses again, while messages,
routing entries and `join_sockets` still hold it. (4) The send thread sleeps on a
condition whose signal may come too early. (5) Requests come on several ways and
UOIDs are forgotten while messages are under way. (6) A TTL of 8 bits is
decremented by every receiver. `PROJECT.json` lists these and the smaller hazards,
each at its line, with the property that catches it or the reason why none does.

**What makes each component correct.** File system: a cached file is on the disk
and nobody is about to remove it; the byte counter bounds the cache; a user's file
is never evicted; maps, index files and disk agree when nothing is under way.
Routing: floods end, nobody answers twice, an answer always has a way back and
gets there. Connections: tables, threads and descriptors agree; no message is
forgotten; a connection whose peer has gone is taken down. Tie breaking: no two
beacons stay connected twice, and both tables say so. Keepalive: the connection to
a peer that runs stays, one on which nothing comes closes. Life cycle: a run that
is told to end does, nothing of it works on what is being cleared, a node that is
cut off notices. Restart: what the user stored is still there. Status and search:
what is shown is an answer to the command that is open, and the command ends.

## 2. The modules

    FileSystem    <-- FileSystemInv <-- FileSystemCache <-- FileSystem_proofs
                                                        <-- MCFileSystem
    Cache         <== FileSystemCache      (refinement mapping)
    FileSystem    <-- Restart <-- RestartInv (and FileSystemInv)
                                    <-- Restart_proofs (and FileSystem_proofs)
                              <-- MCRestart
    Routing       <-- Routing_proofs
                  <-- MCRouting
    Connection    <-- Connection_proofs
                  <-- MCConnection
    BeaconTie     <-- BeaconTie_proofs
                  <-- MCBeaconTie
    Commands      <-- Commands_proofs
                  <-- MCCommands
    Lifecycle     <-- Lifecycle_proofs
                  <-- MCLifecycle
    KeepAlive     <-- KeepAlive_proofs
                  <-- MCKeepAlive

### FileSystem

One node's file system together with the handlers and commands that use it
(`fileSystem.cpp`, the `STOR`, `GTRS`, `GTRQ`, `SHRQ`, `DELT` handlers of
`handler2.cpp`, the store, delete, search and get commands of `node.cpp`). Every receive
thread and the keyboard thread is a sequential process `th[t]` whose program
counter names the next step. *A step is what the thread does under one lock, or
one access to the disk*: `lock ... unlock` in the code is one action, and another
thread may run between any two.

| In the model | In the code |
|---|---|
| `nextIndex`; `maps`, `entry` | `filesys_index`; the three multimaps: which indices each lists, and the file under whose name, SHA1 and keywords they do. A running node changes all three together under `filesys_lock` (`EnterMaps`, `LeaveMaps`); a start may find them to differ |
| `cacheList`, `cacheBytes`, `cacheLock` | `cacheFile_index_list`, `currentCacheSize_Bytes`, and the one hold of `cacheFile_list_lock` that lasts several steps (the eviction loop) |
| `metaOf`, `dataOf`, `owned` | the files `N.meta`, `N.data` and `N.pass` |
| `savedMaps`, `savedEntry`; `savedIndex`; `savedList` | `name_index`, `sha1_index`, `kwrd_index`; `index`; `cacheList` |
| `fileIDs`, `outgoing` | `fileIDIndex_map`; queued messages with a file payload |
| `orphans` | auxiliary: indices whose files were left behind by a cut transfer or a cleared queue |
| `crash` | the assertion or null pointer that ends the process; no step follows it |

The steps of receiving are `RecvNew` (a fresh index), `RecvPayload` / `RecvCut` /
`RecvRejected`, for a `GTRS` the look for an equal file (`Lookup`, `Nonce`), the
decision (`Drop`, `HandOver`, `KeepGot`, `CacheStart`), and `doCacheFile`: `Evict`,
`CachePush`, then for each victim `VictimUnindex`, `Probe`, `Unlink`, then `Create`,
`Insert`, `Persist`, `PersistList`, `Send`. Probabilities (whether to cache, to whom to send) are a
choice. A file is an identity (file name, SHA1 and nonce together); `SizeOf`
gives its bytes. A search looks in one map and may match any of the files it lists.
An idealisation: `deleteDiskFile` opens and removes `.meta` and then opens and removes
`.data`; the model opens both in `Probe` and removes both in `Unlink`. Two threads
that delete one file meet in either, and the later one fails the assertion.

### Routing

A network of nodes and links (`handler.cpp`, `handler2.cpp`, the receive threads).
A link is a socket with everything that is FIFO on the way: dispatch queue, send
queue, TCP stream. `Receive` is the header, the TTL decrement and the look-up under
`UOID_time_map_lock`; the message is then in `hand` until its handler runs, and all
receive threads of a node hold messages at the same time. The message's `mark`
says what its node has done with it: it is `"new"`, or was seen `"again"`, or is a
request whose sender is `"noted"` in the routing table. `HandleQuery`,
`HandleCheck`, `HandleJoin`, `HandleDelete`, `HandleStore` are the handlers of
requests and `HandleQueryRes`, `HandleCheckRes`, `HandleJoinRes` those of answers, with their order of
tests kept (the check response looks at its TTL first, the others last).
`AskAll`, `AskStore`, `AskCheck`, `AskJoin` make requests; `Expire`,
`StopWaiting`, `JoinTimeout`, `SoftRestart` and `Break` are time and failure.
A handler of a request that is flooded runs in two steps (`AnswerAndFlood`): answer
and enter the sender under `routing_map_lock`, and flood when that lock was given
back. The other handlers are one step: they use the routing table once under its lock,
and queues.

The handlers of `SHRS` and of `STRS` with files do not drop an answer that was seen
before (`Repeats`). Its metadata is then read off the socket and not written to
`tempMeta`, but the message is forwarded as if it were: it is `Unsendable`, nobody
receives it, and the send thread that takes it from its queue ends the process
(`SendFails`, `dead`). When the socket closes, what lay before it in the queue may
have arrived or not.

An idealisation: when a node leaves the network (`Leave`, in `SoftRestart` and
`SendFails`) or a link breaks, both ends of a connection close in one step. In the code the sockets stay
open through `cleanup`, and a peer keeps its `nb_map` entry until it reads the
notification or the end of file (node.cpp:2059-2098). What it sends in between goes nowhere in
either case; Connection and Lifecycle have the steps of one end.

### Connection

One node's descriptors, threads and tables (`node.cpp`). `gen[f]` numbers the
connection that descriptor `f` stands for; messages carry the number they were
meant for, so that the model can tell a message for the last connection from one
for this, which the code cannot. The life of a receive thread is `run`, `close`
(`send_thread_close`), `join`, `unmap`, `forget`, `unlist`, `check`, `shut`: one
label for each lock it takes on its way out (node.cpp:1268-1297). The send thread
is `test`, `park` (between its test and `pthread_cond_wait`), `wait`, `log`. The
dispatch thread looks the resource up under `id_map_lock` and keeps that lock while it
waits for the lock of the send queue (`DispatchFind`, `resource`); it then has the
queue's lock and lets `id_map_lock` go (`DispatchLock`, `filling`), and pushes only
after that (`DispatchPush`). A receive thread that is closing may erase the `id_map` entry
between the two (`Unmap`); what is pushed then is lost with the resource (`Lost`).

### Cache and FileSystemCache

`Cache` is the abstract specification: an ordered set of slots, least recently used
first, and what each holds, with no threads, locks or disk. Only the front may be
evicted, only while a file is being admitted and the cache is full; a slot's content
never changes. `FileSystemCache` maps the state of `FileSystem` to it: the list is
`cacheList`, what a slot holds is its `.data` file, "a file is being admitted" is the
hold of `cacheFile_list_lock`. The mapping is stated for files of one size, for which
`Capacity` is the number of files that fit; with sizes that differ the counter drifts
(section 3) and the cache promises nothing of the kind.

### Restart

`FileSystem` extended by the end of the process and its next start. The process may
be killed, or die of an assertion, between any two steps of its threads
(`Restarted`), or while files are being rewritten (`KilledWhileSaving`): `update_filesys`
truncates `name_index`, `sha1_index`, `kwrd_index` and the index file one after the other
with `fopen("w")` and writes them line by line, so the files before one of them are new, that
one has some of its lines or none, and those behind it are old (`MapsHalfSaved`,
`Mixed`); the `cacheList` file is cut in the same way (`ListHalfSaved`), and both may be
under way in different threads. Or it ends in order, the two
writes of `close_filesys` being two steps (`CloseMaps`, `CloseList`) between which
receive threads go on, because `run` does not join them. `LoadFiles` is
`read_filesys`, `Reset` is `-reset`. What an earlier life left under an index is
still there when the index is used again: `RecvOver` replaces FileSystem's receiving
steps in that case, with the `.meta` file opened by `"a+"`. `stored`, `ahead` and `cut`
are history: the files whose store command has written the index files; the indices that
a start found in a map or the `cacheList` file, or on record, though the index file calls
them free; the indices on record of which a kill left a line out of a file that their map
would have put there.

A kill is modelled by whole lines, which the code flushes one by one; a line of which only
a part was written is not. The lines of a file are ordered by name, SHA1 or
keywords, of which the model says nothing, so any set of lines may be there. An index that an
old file and a new one list under different files (it was deleted and taken again) is described by
the new one. A file that cannot be opened is left out.

### BeaconTie

Beacons, their client threads and the receive threads at both ends of each
connection (`client_socket_prepare`, `client_thread`, `handle_helloMsg`). A client
thread looks whether the peer is a neighbour, connects, and lists the connection;
the server end is listed by the first hello. `handle_helloMsg` takes `nb_map_lock`
three times, so it is three steps: `Look` (is the sender known), `Answer`, and one
of `BreakTie`, `LeaveTie`, `NoTie`. `Tie` looks at *any* two equal entries of the
table, as the code does, not at those of the sender.

### Commands

The node that issues status and search commands: the keyboard thread, the receive
threads with an answer in hand, the timer, the interrupt, `cleanup`. `file` and
`statusPorts` are the status file; `queue`, `done` and `searchExit` the search;
`temps` the `.tempMeta` files. `Receive` reads `issent_status` and writes the
temporary files; what the thread does with the answer (`Write`, `WriteClosed`,
`WriteLost`, `Ignore`, `Queue`, `Discard`) is a later step, so the file may have been
closed or the search have ended between. All `.meta` files of an answer are one.

### Lifecycle

The threads of one node by name: the main thread through `run` (joining the
network, starting the timer and the clients, joining the control threads one after
the other), `cleanup` and the loop of `main`; keyboard, signal, timer, server and
dispatch thread; client and receive threads, which nobody joins. A receive thread's
whole exit up to the check is one step, since Connection has it in detail. A thread
that is still there when a run is cleaned up is in `old`; once one has touched what
belongs to the next run (`late`) the behaviour is not followed further.

### KeepAlive

One connection in seconds: the peer's timer thread with its period of one second
and some jitter (`Round`, `Due`), a keepalive on its way for at most `Delay`, and the
timeval that `select` waits with at this end (`left`). `countsDown` is chosen once:
POSIX lets `select` modify the timeval, and the code sets it only before the loop
(node.cpp:988), so on a build where it does, `left` is not refreshed (`Rest`).

**How the modules overlap.** What Routing calls a link Connection opens up into
threads; what Routing calls a `get` or `store` FileSystem opens up into steps; what
Connection calls the end of a receive thread Lifecycle calls one step and KeepAlive
gives a time; the answer that Routing delivers to the node that asked Commands takes
from there.

## 3. What is checked

Runs that must pass:

| Run | Instance | What it shows |
|---|---|---|
| `FileSystem_two` | two receive threads and the keyboard, three indices, a cache of one file; store and delete | `CachedOnDisk`, `IndexNotShared`, and `EvictionsApart` (who makes room at the same time removes different files) under every interleaving |
| `FileSystem_one` | one receive thread and the keyboard, files of 1 and 2 bytes, a cache of 2, every operation | `TypeOK`, `CounterWithinCacheSize`; `OwnedNotCached` with search and get; `IndexedOnDisk`, `SavedWhenQuiet`, `NoDiskLeak`: maps, index files, messages and disk agree; `RelayedOnDisk`: a file that is only forwarded stays until it is sent |
| `FileSystem_uniform` | three indices, a cache of two equal files; store, delete, search | `ExactForOneSize`: the byte counter is exact through eviction, deletion and search hits; `ImplementsCache`: the list is an LRU cache |
| `Restart_kill` | one receive thread and the keyboard, two files of one size, cache of one, two restarts, the first of which may follow a kill inside a file | `Durable`: no stored file loses a byte or its index, and none but those whose line a kill cut off its place in the maps; `FreshAfterRestart`, `ListedAsDescribed`, `IdleRestart`: what kills, assertions and orderly ends leave on the disk can be started from |
| `Routing_net` | a triangle with a joining node and a chain of three with one; any one of eleven requests; up to two expired UOIDs, a link that breaks, soft restarts, a join timeout, a process that ends in `SendFails` | `AnswerRouted`, `RoutesLeadBack`, `AnsweredOnce`, `GotOnce`, `TTLOnWire`; `DiesOut`: the flood ends, and so do the answers that two nodes send to and fro; `AllAnswered`: on a tree everybody in reach who has an answer is heard |
| `Connection_tables` | two descriptors, two connections | `TablesFollowThreads`: a closed descriptor is in no table and has no thread; `NoMessageForgotten`: no send thread sleeps on a message in its queue |
| `Connection_closes` | one descriptor, two connections, fairness | `NeighbourCloses`: a lost signal delays, but does not prevent, the end of a connection to a neighbour |
| `BeaconTie_three` | three beacons in a line, four client threads | `TieBroken`, `TablesAgree`, `Settles` for every order of starts, connects, hellos and closes |
| `Commands_all` | two commands, answers of two nodes, two receive threads | `ShownBelongs`, `ShownOnce`, `TempFilesAccounted`, `FileFollowsPorts`, `SearchEnds` |
| `Lifecycle_runs` | beacon or not, with or without check and list; two connections, one client thread; a run and the beginning of the next | `ListReadable`, `IsolationNoticed`, `ControlEnded`, `EndsOrWaits` |
| `KeepAlive_one` | timeout 8, jitter 1, delay 2, either kind of `select` | `LivelyStays`, `SilentLeaves` |

A run in which TLC finds that the code does not do what the repository says:

| Run | What the code does | Where it says otherwise |
|---|---|---|
| `Routing_v_check` | a check response that arrives with TTL 0 does not count, and the node restarts | the comment at handler.cpp:476 |

Other places where the program ends or goes astray are steps of the models, and
the passing invariants hold up to them. They set `crash`, or in Routing `dead`:

| Step | What happens |
|---|---|
| `Probe` in FileSystem | two threads delete one file, the second fails the assertion of `deleteDiskFile` (fileSystem.cpp:366); one of them is a delete command (`EvictionsApart`) |
| `TouchFails` | a search hit is deleted or evicted between the look and the update of the list (fileSystem.cpp:582) |
| `Create` | a file that was just cached is evicted before it is entered in the maps (fileSystem.cpp:594) |
| `DeleteFails` | a file that arrived twice was kept twice (node.cpp:2028), or the user deletes a file that has no `.pass` file and a null pointer is closed (node.cpp:1690) |
| `EvictFails` | an eviction subtracts the size of the *new* file, so with sizes that differ the counter drifts: the assertion at fileSystem.cpp:490, or the front of an empty list (486); not with files of one size (`OneSizeNeverFails`) |
| `SendFails` | the files of a queued message were evicted or deleted before it was sent; not those of a file that is only forwarded (`RelayedOnDisk`) |
| `SendFails` in Routing | a `SHRS`, or a `STRS` with files, comes again and is forwarded without the temporary file that `send_file_data` reads (handler2.cpp:160, message.cpp:110); the node is `dead`, the rest of the network goes on |
| `DispatchFind` in Connection | a message for a connection that has closed: `find(...)->second` of an absent key (node.cpp:1379) |
| `SendLog`, `RecvFromStranger` | `get_neighbor` of a descriptor that is not in `nb_map` |
| `WriteClosed`, `WriteLost` in Commands | an answer is written to the status file after the timer has closed it; `cleanup` has removed the temporary file it is to be copied from (handler.cpp:985) |
| `Start` in Lifecycle | with `NoCheck` and no list of neighbours, `fclose` of a null pointer (node.cpp:425) |
| `OnSignalThread` in Lifecycle | `pthread_kill` or `pthread_cancel` of the signal thread after it was joined |

Some do not end it, and no property says that they do not happen:

- On a cycle a node's own request comes back and enters its routing table, because a
  node does not mark its own UOIDs as seen; two nodes then send each other an answer
  until its TTL ends it or a node dies in `SendFails` (`AnswerAndFlood`, `Forward`).
- `std::remove` without `erase` leaves descriptors in `join_sockets`, so that a later
  neighbour gets no keepalives (`Removed`).
- The signal to a send thread between its test and its wait is lost; a connection
  that gets no keepalives may then wait for ever. A message for a descriptor that was
  closed reaches the next connection that has it, and one whose resource leaves `id_map`
  while the dispatch thread has it is lost (Connection).
- The lower of two beacons may close *both* connections to the other, when its two
  receive threads see the tie before either has left the table (BeaconTie).
- An answer to an earlier status command is written into the file of the later one,
  because the UOID is not compared (Commands).
- A user's shutdown turns into a restart when a thread that found the node cut off
  sets `gnShutdown` after the signal thread did. After a run has begun to end, the
  keyboard thread may wait for a search that neither timer nor signal thread ends any
  more, and the server thread in `accept`, whose signal handler has `SA_RESTART`
  (Lifecycle, named in `EndsOrWaits`). Client and receive threads of one run may work
  on the tables of the next (`late`).
- A last neighbour that leaves with a notification is still in the table when the
  node looks whether it is alone (`Notified`, handler.cpp:833).
- A map or the `cacheList` file may name an index that the index file calls free, if
  the process is killed between their writes or ends while a file is being cached;
  the index is then handed out twice (`ahead`). Files of an index that no map lists
  stay on the disk for ever.
- A kill while `update_filesys` rewrites a file cuts stored files out of that map, which
  the next start reads and later writes back (`cut`); their bytes stay on the disk.
- Where `select` counts its timeval down, a connection ends after
  `keepAliveTimeout` whatever arrives (KeepAlive).

Each property of a passing run is paired in
`PROJECT.json` with a mutant of a definition (the operators named `..._Not`,
`..._Last` and the like beside it): the plausible bug that would break it.

### Bounds

- `MaxIndex` (2 or 3): file indices handed out in a behaviour. Two indices are a
  file and the one that evicts it, or two threads with one each; three fill a
  cache of two and evict, or are two threads that make room and the file they find.
- `CacheBytes = 2` with files of one and two bytes (`FileSystem_one`): the smallest
  cache in which one file fits beside another, one needs an eviction, and the sizes
  differ. A cache of one file (`FileSystem_two`) makes every second store evict.
- `Ops`: `FileSystem_one` has every operation. `FileSystem_two` has only files from
  the network and the delete command, to keep two receive threads and the keyboard
  small; `FileSystem_uniform` adds search, which reorders the list, and has neither
  the user's files nor relaying, which do not touch it.
- `MaxAsked = 1` in Routing: one request is followed at a time,
  because requests meet only in a node's tables, which are keyed by UOID. `MaxExpired`:
  two expired UOIDs let a node handle one request again after it has answered it; the
  search on the cycle has one and the status with files there none, for size: with longer
  TTLs their answers go round as it is. The two
  networks of the instance share a run and nothing else. Three nodes are the smallest
  network with two ways to one node, three in a row the smallest with a node that
  only forwards. A TTL of 3 goes round the triangle back to the node that asked, for the last
  time; with 4, which the search and the status with files have, that node enters its own
  request in its routing table and floods it, so that answers circulate. Answers on the
  cycle have a TTL of 5: round it and back to nodes that have seen them. 2 exactly reaches the end of the chain.
- `MaxConns = 2`: a connection and the next one, on the same descriptor or on
  another. `MaxQueue = 1`: a sender waits before it makes a message for a full
  queue (the real queues have no limit); a message behind another behaves as it
  would once the first is gone.
- `MaxRestarts = 2` in Restart: what the second life does to what the first one
  left, read again by the third. `MaxKills = 1`: the first start may follow a kill inside
  a file, both may follow any other end; a cut file is thus read, and written and read again. `Ops` has a file from the network and one of the
  user; deletion and relaying are left out, for size.
- Three beacons in BeaconTie, of which two do not know each other: the middle one has
  a tie as the lower and one as the higher node, and sees the tie of one pair while it
  handles a hello of the other.
- `MaxCommands = 2`: a command and the answers that come too late for it.
- `FullRuns = 1` in Lifecycle: one run to its end and the next until its client
  threads have started, which is what can be confused between the two. Two
  connections end at the same time; one client thread can fail.
- `keepAliveTimeout = 8`, `Jitter = 1`, `Delay = 2`: the smallest even timeout that
  leaves room for both (8/2 + 1 + 2 < 8). The theorems of section 4 are for all.
- Symmetry: receive threads, descriptors, connections, files of one size. It is used
  with invariants and action properties only.

The deadlock check is off in every run: after a crash the process has stopped, and
when the bounds are used up nothing more happens.

### Fairness

`FileSystem`, `Restart` and `Lifecycle` are checked for safety only.
`Routing!FairSpec` has one weak fairness condition, that messages are delivered as
long as there are any: the receive, dispatch and send threads of a live connection
are always able to run, and nothing in them waits for a user. It does not say which
message comes next, and need not: each delivery brings the flood nearer to its end. Commands, timers,
expiry and failure may or may not happen. `Connection!FairSpec` has weak fairness of
the steps of each thread once it has something to do (a receive thread that is
closing, a send thread that is not waiting, the dispatch thread, a client thread that
has connected, whoever is about to push a message) and of the timer, which loops on
`sleep(1)`. Accepting, connecting, receiving and the end of a connection are up to
the peers and are not fair. `BeaconTie!FairSpec` starts every beacon and lets each
take steps; `Commands!FairSpec` lets the keyboard thread go on and the timer find a
search that is over; answers and interrupts may never come. `KeepAlive!FairSpec` lets
time pass and the receive thread take what is due. Liveness is stated "or the process
has ended" where a crash is an outcome.

## 4. What is proved

### The file system

`FileSystem_proofs` proves for any number of receive threads, any finite or
infinite set of files with any sizes, any cache size, any set of operations and
any bound on indices:

| Theorem | Statement |
|---|---|
| `Invariance` | `Spec => []IndInv` |
| `TypeCorrect` | `Spec => []TypeOK` |
| `CachedFilesSafe` | `Spec => []CachedOnDisk` |
| `NoDuplicates` | `Spec => []CacheDistinct` |
| `OwnedFilesKept` | `Spec => []OwnedNotCached` |
| `IndexExclusive` | `Spec => []IndexNotShared` |
| `CounterBounded` | `Spec => []CounterWithinCacheSize` |
| `UniformAccounting` | `Spec => []ExactForOneSize` |
| `CacheIsLRU` | `OneFileSize => (Spec => ImplementsCache)` |
| `SavedAtRest` | `Spec => []SavedWhenQuiet` |
| `NoFileLost` | `Spec => []NoDiskLeak` |
| `OneConnection` | `IsFiniteSet(RecvThreads) => (Spec => []IndexedOnDisk)` |
| `VictimsApart` | `Spec => []EvictionsApart` |
| `RelayedFilesKept` | `Spec => []RelayedOnDisk` |
| `UniformNeverFails` | `Spec => []OneSizeNeverFails` |

Assumptions, all in `FileSystem` and evaluated by TLC in every run:
`FilesAssumption` (the markers are not files, sizes are numbers), `ThreadAssumption`
(the keyboard is not a receive thread, "nobody" is not a thread) and
`BoundAssumption` (the bounds are numbers).

*The argument.* None of these is inductive alone. That a cached file is on the
disk depends on nobody unlinking it; that depends on victims having left the list;
that on an index never being in the list twice, and on no thread *pushing* an index that
another is removing; and that on a fresh index being in one thread's hands only
until it is published. `FileSystemInv` states it in named parts: `OpOK` (which operation is at
which step), `LockOK` (who holds the list's lock), `KnownTaken`, `PrivateTaken`,
`PrivateApart` (an index that some table, message or thread names has been taken;
one that is private to a thread is named by nobody else), `ReceivedOnDisk` (what a
thread has received is whole on the disk), and the rest. `IndInv` is their
conjunction with the properties. The proof of the step has one
lemma for each conjunct, and under it one step for each action that can disturb it;
the frame lemmas say which actions those are, and lemmas on `Without`, `Append` and
`Tail` carry the data. `CounterBounded` and `UniformAccounting` add the
arithmetic to it: the second needs `CacheDistinct` (one element, one size) and
`CachedOnDisk` (the size that `stat` finds is the size that was added).

*The refinement.* `CacheIsLRU` is the step simulation of `Cache`: the mapping takes
initial states to initial states, and each of the 45 actions of a thread to `Begin`,
`Evict`, `Admit`, `Use`, `Withdraw` or a stutter (`BeginStep` to `WithdrawStep`). Three things
make it work: the slot that leaves is the front of a list in which no index is twice
(`CacheDistinct`); "full" in the abstract cache is `NoRoom` in the code, which is
arithmetic on an exact counter (`ExactForOneSize`); and what a cached slot
holds does not change while it is cached (`CachedOnDisk`: nobody writes or unlinks its
file).

*What is written.* `SavedOrPending` says it between operations too: whatever the maps
and the list have that the files have not, some thread is on its way to write. The
proof shows that a thread with something to write does not lose that duty in any step
but the write itself (`SavedCourse`), and that a change leaves the thread that made
it with the duty (`ChangesPend`).

*What is on the disk.* `AllAccounted` follows each file: it is in the maps, in a
message after which it is unlinked, left for lost, or in the hands of a thread that
has taken its index and not filed it, or has taken it out of the maps and not
unlinked it (`Tracks`). `TrackCourse`
goes through all actions to see where a thread lets go of one. `Blank` and `Fresh` say
that an index that was handed out now has no old file under it, which is what makes
a refused transfer leave nothing behind; it is what a restart takes away.

*One connection.* `OneConnection` rests on `FiledInv`. Between `doCacheFile`'s push and
`createFile_filesys` an index is in the LRU list and not in the maps (`Awaited`). With one
receive thread nobody else can evict it: whoever evicts is a receive thread, and the
keyboard finds files through the maps, messages and FileIDs, none of which names it
(`Alone`, `Reaches`). `TakersApart` is needed because the keyboard sends the file of its own
index while a delete may be about. The hypothesis says that the set of
receive threads is finite, so that it has a cardinality.

*What cannot go wrong after all.* Several of the crashes of section 3 have a boundary, and it
is proved. `VictimsApart`: a victim comes off the list under the lock, and nothing in the
list is in anybody's hands to unlink (`CachedOnDisk`), so two evictions are apart, with any
number of connections. `RelayedFilesKept`: a queued file that is only forwarded is `Lone`, in no
table and in no thread's hands, and `ReachesGrows` says that a thread comes by an index only
through a table. `UniformNeverFails`: with one size the counter is the size of the list, and
whoever subtracts has a file in it (`EvictorFits` excludes a file larger than the cache).

### Restart

`Restart_proofs` proves for any number of receive threads, files and indices, every
operation, and any number of ends, starts, resets and kills, between two steps or
inside any of the five files:

| Theorem | Statement |
|---|---|
| `RestartInvariance` | `RSpec => []RInv` |
| `StoredFilesSurvive` | `RSpec => []Durable` |
| `IndexFreshAfterRestart` | `RSpec => []FreshAfterRestart` |
| `DescriptionsMatch` | `RSpec => []ListedAsDescribed` |
| `RestartAtRest` | `RSpec => IdleRestart` |

from the assumptions of `FileSystem` and `RestartAssumption` (the bounds are numbers). The
run has two operations, one receive thread and two restarts; the theorems have deletion,
relaying, search and get as well, and files of any sizes.

*The argument.* FileSystem's invariant does not survive a kill: a start may find an
index in a map, or in the LRU list, that the index file still calls free, and hands it
out again. The invariant of `RestartInv` says the same for all *other* indices, those outside
`ahead`, and is preserved by a start because it also speaks of what the next start
will read: `Reachable` includes `savedEntry` and `savedList`, so that
`ReachableTaken` and `PrivateUnreached` hold of the files of the file system
already while the node runs. A start that finds an exception puts it in `ahead`, and nothing
is claimed of it from then on (`StartInv`).

A kill inside the files is a start like the others: what each file then lists is in the
map or was in the file (`Mixed`), so nothing is read that `Reachable` did not have
(`Starts`, `StartInv`), and an index that all three maps and all three files list stays in all
of them unless it is `cut`. `StoredSafe` therefore has two parts: what holds of every file on
record, and `InFull` and `SavedInFull`, which hold of those that no kill has cut. `cut` grows
only in that step, by indices whose map had them and whose file got no line, so it cannot
hide a loss that has another cause.

`Durable` needs to know that no thread is on its way to a file on record. `Threatens`
lists the three ways: the thread is to unlink it, or is deleting it, or has taken its
index for something else. `Safe` is a whole, uncached file that nobody threatens,
and `ThreatCourse` goes through all actions to show that a threat comes only from the
list (an eviction), from the maps (the user's delete command, which takes the file off
the record in the same step) or from a fresh index (which a file on record is not, outside
`ahead`). `FiledSafe` covers the moment before: the store command has filed the file and
not yet written the index files, and a file becomes one on record with that write.

`ListedAsDescribed` follows what a cut transfer leaves behind: `WrittenOnDisk` says
that what a thread has written to its own index is what it reads there, and
`Described` that whatever names an index, a map, a saved map or a thread that will enter it
(`Awaited`), names the file whose `.meta` is there, or there is none. `RecvOver` preserves
it because the SHA1 that is compared is the one in front of the appended file
(`SameSHA1`).

A running step of Restart is a step of FileSystem or `RecvOver`, and `RecvOver` is
`RecvPayload` or a transfer given up (`RecvOverTurn`). So the lemmas of
`FileSystem_proofs` on the 45 actions are used again, which is why they assume only the
parts of the invariant that they need. One of those parts had to be split: after a start the
byte counter is a fold over the sizes of the listed files, and that a fold is a number
is an induction the provers cannot do. `TypeOK` is therefore `Typed` and
`cacheBytes \in Nat`, and `RInv` has `Typed` alone.

### Routing

`Routing_proofs` proves for every network, any set of requests of any kind, any TTLs
and any bounds:

| Theorem | Statement |
|---|---|
| `RoutingInvariant` | `Spec => []IInv` |
| `RoutingTypes` | `Spec => []TypeOK` |
| `NoZeroTTL` | `Spec => []TTLOnWire` |
| `OneAnswer` | `Spec => []AnsweredOnce` |
| `AnswersFindTheirWay` | `Spec => []AnswerRouted` |
| `RoutesHaveNoCycle` | `Spec => []RoutesLeadBack` |
| `OneFilePerGet` | `Spec => []GotOnce` |

from `NetworkAssumption` (links go both ways and join different nodes; a joining
node has one connection, to a node of the network), `RequestAssumption` (a TTL is a byte;
beacons do not check and joining nodes ask nothing but to join) and
`MessageAssumption` (the marker for "nothing" is not a message). The network may have
cycles; neither nodes nor requests need be finite in number.

*The argument.* `AnswerRouted` speaks of answers on the way and cannot be inductive: that
the next node knows where to send one depends on it having entered the request's sender
in its routing map *before* it flooded the request. So the invariant follows requests
too: whoever has sent one on, or is named by a routing map, knows the way back
(`SenderKnowsWay`, `RouteKnowsWay`), or has left the network, so that nothing
reaches it any more (`Gone`). Between the entry and the flood `NotedKnows` carries it: a receive
thread whose request is marked as noted knows the way. That there is no cycle rests on `RouteKnowsWay` and
on `map::insert`, which leaves a first entry alone: a node that makes an entry had
none before, so no entry of another node names it, unless it is gone. `AnsweredOnce` needs `HandledOnce`: as long as no UOID
expires, only one of the receive threads of a node has a request in hand, because
the look-up and the entry in `UOID_time_map` are under one lock, and all copies have the
same UOID (`RequestsKeepId`). The proof is in two halves: *flow* (what is on the
wire and in the hands: `WireStep`, `HandStep`, `ClosedStays`, `RouteStep`) says
what any action can put there, and *account* (`SeenStep`, `TakeStep`, `AnswerStep`,
`HeardStep`, `WaitStep`) what it does to the tables.

### Connections

`Connection_proofs` proves for any number of descriptors and connections:

| Theorem | Statement |
|---|---|
| `ConnectionInvariant` | `Spec => []IInv` |
| `TablesFollow` | `Spec => []TablesFollowThreads` |
| `NoneForgotten` | `Spec => []NoMessageForgotten` |

from `ConnectionAssumption` (the other senders are not descriptors, the bounds are
numbers).

*The argument.* `ThreadsInStep`: the label of a receive thread says whether its send
thread lives and which tables have its descriptor; each lock that the thread takes on
its way out moves one of them. `Asleep` is what a send thread knows between its test of
the queue and its wait, and it is preserved because whoever fills the queue signals it.
`Reserved`: while the dispatch thread waits for a queue it has `id_map_lock`, so the
resource it found is still in `id_map`. `Held`: while it has the queue's lock, that send
thread is not between its test and its wait; if the resource leaves `id_map` then,
`filling` is `Lost`, and no queue is filled. `join_sockets` does not occur:
`std::remove` leaves anything in it, and the tables do not depend on it.

### Beacons

`BeaconTie_proofs` proves for any beacons with any lists of each other:

| Theorem | Statement |
|---|---|
| `TieInvariant` | `Spec => []IInv` |
| `TablesSettle` | `Spec => []TablesAgree` |
| `NoTieStays` | `Spec => []TieBroken` |

from `ListsAssumption` (a beacon does not list itself) and `RankAssumption` (the order in
which ties are decided is one: no two beacons have the same port and name).

*The argument.* For each end of each connection, `Phase` says how far it can be when the
client thread is where it is, and `Listed` when it is in its node's table, and if not,
what will put it there. `Told` is the one that breaks ties: as long as the lower node has
both connections of a pair in its table, one of the three ends involved is between two of the steps of
`handle_helloMsg` or has a hello to come. The proof is that the *last* such evidence
does not go without leaving another: a hello that is taken makes its receive thread look
(`Look`), the lower node that finds the tie takes one connection out (`BreakTie`), and the
higher node that finds it sends a hello (`LeaveTie`). `Local` and `Effect` say what a step of a receive thread changes at its own
end, `Elsewhere` what it leaves alone; `ClientEffect` the same of client threads.

### Lifecycle

`Lifecycle_proofs` proves for any number of connections and clients and any number of runs:

| Theorem | Statement |
|---|---|
| `LifecycleInvariant` | `Spec => []IInv` |
| `ListThere` | `Spec => []ListReadable` |
| `CleansUpAlone` | `Spec => []ControlEnded` |
| `NotLeftAlone` | `Spec => []IsolationNoticed` |

from `LifecycleAssumption` (threads of different kinds are different, a node starts
at least as many clients as it needs neighbours).

*The argument.* `Gone` is `ControlEnded` along the way: the main thread joins the control
threads one after the other, and at each stage those behind it have ended and are
not started again, by a signal, a soft restart or a timeout, before the next run.
`Joining` ties `joinSuccess` and the file with the list to the stage in which they
are written or cleared. `Alert` keeps a witness: when the last neighbour closed the
connection, the thread that closed it has still to check, or one is restarting the
node already, or the run is ending.

### The keepalive

`KeepAlive_proofs` proves for every timeout, jitter and delay:

| Theorem | Statement |
|---|---|
| `KeepAliveType` | `Spec => []TypeOK` |
| `LivelyConnectionStays` | `Spec => []LivelyStays` |
| `SilentConnectionCloses` | `Spec => []SilentCloses` |

from `KeepAliveAssumption`: a keepalive arrives before the next is sent, and half of
the timeout, the jitter of the timer and the delay of a message together stay below the
timeout. That is what `keepAliveTimeout / 2` in the code is for, and it is needed:
without it TLC finds a connection that closes too early.

*The argument.* `LivelyStays` says nothing of clocks, so `IInv` adds what relates
them: what is left of the timeval and what was heard last add up to the timeout; a
running peer has sent within half a timeout before its timer slept last; and what was
heard last is no older than the last keepalive, or, while one is under way, than the
one before. When `left` is 0 these give a contradiction with `KeepAliveAssumption`.

### The commands

`Commands_proofs` proves for any number of receive threads and commands, any finite
set of ports and any links between the nodes:

| Theorem | Statement |
|---|---|
| `CommandsInvariance` | `Spec => []IInv` |
| `CommandsType` | `Spec => []TypeOK` |
| `AnswersBelong` | `Spec => []ShownBelongs` |
| `AnswersOnce` | `Spec => []ShownOnce` |
| `TempFilesKept` | `Spec => []TempFilesAccounted` |
| `StatusFileComplete` | `Spec => []FileFollowsPorts` |

from `PortAssumption`: the ports are finitely many, and this node's is not among those
that answer.

*The argument.* An answer is at any time in one place (`Apart`): on its way, in the
hands of a receive thread, in the queue, under print, shown, or abandoned. That the
file of a queued answer is still there needs it, since whoever drops an answer removes
its file; and it needs `Kept`: `cleanup` removes all files, but also empties
`search_done_map`, so that an answer in hand is not queued afterwards. That answers to an
earlier search are not shown needs `DoneOK`: `search_done_map` says "not done" of
the search on the screen only. A number that was never given out before is what makes
the answers to a new command new (`Numbered`). `FileOK` relates the status file to
`statusPorts` also between `fopen` and the moment when `issent_status` is set.
The proofs begin with what they need of sequences: elements and repetitions under `Append`,
`Tail` and concatenation.

## 5. What is only model-checked

- That the byte counter is a number, and within the cache, after a start of `Restart`:
  `Bytes` is a fold, see section 4. Nothing that is proved of Restart depends on the counter.
- Liveness (`DiesOut`, `AllAnswered`, `NeighbourCloses`, `Settles`, `SearchEnds`,
  `SilentLeaves`) and `EndsOrWaits`, which has an `ENABLED`: beyond the prover.
- `CacheDistinct`, `OneSizeNeverFails` and `SilentCloses` are the other way round: TLC
  checked them on the instances of their modules' runs, they are theorems for all
  values of the constants (section 4), and the runs no longer repeat them.
- `TypeOK` of Routing, Connection, BeaconTie and Lifecycle is in no run: the theorems use it, or the part of it
  that they need (`Shape`), as a conjunct of their invariants.

Every inductive invariant of section 4 was checked with TLC on the instance of its
module's run before it was proved; the runs list the properties that it implies.

## 6. What is not modelled

- The text of messages, logs, prompts and files; SHA1 and MD5 (external); keyword bit
  vectors and `.meta` files, which are pure functions on them; the configuration.
- The distance between nodes, by which a joining node chooses its neighbours;
  probabilities, which are choices.
- A `send()` that blocks or fails, and the bytes of a TCP stream: a message arrives
  whole, or a transfer is cut.
- In Restart: a kill that leaves a part of a line; a file that cannot be opened; what
  is in `tempMeta`; that a soft restart goes on with the mutexes that
  `close_filesys` has destroyed (fileSystem.cpp:410-411), which is undefined and
  works on the usual systems.
- In Lifecycle: the notify messages of an ending node; what threads of an earlier run
  do once one of them has interfered with the next.
- In KeepAlive: a peer that is joining the network, whose timer thread does not run
  yet.
- The numbers by which a get command names the answers of the search before.

## 7. Plan

Done: all modules of section 2. The safety properties that the runs check are theorems,
but for `EndsOrWaits`, which has an `ENABLED`; so are `IdleRestart` and the refinement of
Cache. Liveness stays with TLC.

Further work, in the order of what it would say about the program:

1. The payloads of FileSystem in the network of Routing: a `STOR`, `GTRS` or `SHRS`
   counts as seen before its payload has arrived, so that a second copy is dropped
   when the transfer of the first is cut (handler2.cpp:563).
2. A `send()` that blocks, in Connection: the send thread then keeps `send_queue_lock`,
   and the dispatch thread `id_map_lock` (node.cpp:1340).
3. The byte layout of messages, as operators checked over small inputs.
