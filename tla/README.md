# Youdge in TLA+

Youdge is two programs in one repository:

* **kcache** (`src/src`, `src/include`, tests in `src/test`): a distributed
  cache. Nodes hold groups of cached values and register in etcd; a client
  finds them there and routes keys over a consistent-hash ring.
* **the netdisk** (`src/Server`, `src/Client`): a Qt server with users, friends,
  files and uploads, and its graphical client, over one TCP connection each.

This directory models both, checks the models with TLC on small instances and
proves the parts on which the rest stands with TLAPS, for every size.

To check one model: `tlc -workers 2 -config MCX.cfg MCX.tla`; to check the
proofs about one: `tlapm XProofs.tla`.

## 1. Inventory

| Part | State | Operations | Works with | What is hard | What makes it correct |
|---|---|---|---|---|---|
| LRU cache (`cache.h`, `lru.cpp`) | list, index, byte count, limit, callback | Get, Set, Delete, RemoveOldest | owned by a group, one mutex | exact accounting over long histories; values larger than the limit; the narrowed limit | bytes = content; within the limit; the least recently used goes first; the callback tells everything |
| Single flight (`singleflight.h`) | map from key to Call, a promise per Call | Do | the group's load path | waiters between fulfilment and erasure; erasure by key; exceptions; lifetime of a Call | one execution per key; a waiter gets its leader's value; everyone returns |
| Cache group (`group.h`, `group.cpp`) | cache, loader, getter, flags, a global map of groups | Get, Set, Delete, InvalidateFromPeer, MakeCacheGroup | getter (data source), the server's handlers | Get is not atomic; deletion while a load is under way; a getter that throws | no value comes from nowhere; a deletion is final |
| Hash ring (`consistent_hash.*`) | ring, owner of each hash, replicas and counter per node, total, balancer thread | Add, Remove, Get, GetStats, rebalancing, destructor | the client | counters written under a shared lock; decision and rebalancing under different locks; colliding hashes | complete ring; removed nodes are not returned; minimal movement |
| Node (`main.cpp`, `server.*`, `registry.*`) | etcd lease and key, keep-alive thread, gRPC server | Register, Start, Stop, RPC handlers | etcd, clients | lost leases, crashes, SIGINT during start | what is listed is leased; what is gone is not listed |
| Cache client (`client_sdk.cpp`) | known nodes, ring, watcher thread | discovery; Get, Set, Delete over the nodes | etcd, nodes | gap between list and watch; writes to several nodes that fail half way; destructor against watcher | follows etcd; a call that returned true left no older copy; the destructor returns |
| Netdisk sessions (`mytcpserver`, `mytcpsocket`, `clienttask`, `msghandler`, `operatedb`) | sockets with names, tables user_info and friend | connect, regist, login, offline, addFriend, agree, delFriend, chat | clients, MySQL | signals connected from a pool thread; several sessions of one user; restarts | the online flag tells who can be reached |
| Netdisk uploads (`msghandler`, `uploader`, `file`, `client`, `reshandler`) | open file and two sizes per connection; path; uploader threads | INIT, DATA, their answers | file systems of both | overlapping uploads; dialogs that let other handlers run; files that change | success means that the file is there; every upload is answered |
| Framing (`protocol`, `sendMsg`, `recvMsg` of both) | byte buffer | mkPDU, write; append, cut | all messages | pieces of any length; late hooks; modal dialogs inside the loop | every message handled once, whole and in order; none is left behind |
| Files and shares (`msghandler`, `file`, `sharefile`, `reshandler`) | file system; path, list, noted paths | mkdir, delDir, rename, move, list, share, accept | clients of one another | lists out of date; partial copies; sources that move | the list shown is the real one; nobody lists what is not there; accepting a share loses nothing |
| Widgets, forms, build files | - | - | - | - | - |

The hazards themselves, each at its line with the properties that watch it,
are the list `hazards` of PROJECT.json.

## 2. Modules

    Coalescing <---implements--- SingleFlight <---instance--+
                                                            KCacheGroup <-- GroupHistory
                                 LRUCache <-----instance----+
                                     ^-- LRUHistory
    ConsistentHash        Discovery <-- DiscoveryHistory
          CacheCluster <-- ClusterHistory
    NetdiskSession <-- SessionHistory        NetdiskUpload <-- UploadHistory
    NetdiskFiles <-- FilesHistory            Fifo <---implements--- PduStream

A *History* module adds what an observer remembers and properties cannot be
stated without; it constrains no step. An *MC* module and its .cfg files are
TLC instances. Operators under a comment that begins "A bug:" are mutated forms
of a definition; no specification uses them, they show that a property can fail.

### SingleFlight and Coalescing
`Do` locks twice and does its work between. Each lock region is an action
(`Join`, `Lead`, `Erase`), and so is each step without the lock (`FuncReturns`,
`FuncThrows`, `SetValue`, `Await`). A Call is an address that is free again when
neither the map nor a thread refers to it (`Free`), which is what shared_ptr
does; addresses are used again. `Coalescing` says what a caller may rely on:
calls for a key form batches, a batch is executed once and all of it gets the
one result. SingleFlight implements it under the mapping `Abstract`.

### LRUCache
All operations run under one mutex and are one action each, the eviction loop
included. The list is a sequence with the most recent entry first, the index the
set of its keys, so that the two *can* disagree. `Narrow` is the conversion of the
group's int64_t capacity to the constructor's int, with IntMod for 2^32. A value
is an element with a length, and the bytes of a set of entries are the pairs of an entry and
a number up to its size (`Bytes`), so that a sum of sizes is a cardinality (`Weight`). The
history keeps which of two keys was used later (`later`).

### KCacheGroup
Composes the two above as instances over its own variables: `Get` looks up
(`GetHit`, `GetMiss`), enters the loader (`EnterDo`), runs its steps and fills the
cache (`Fill`), each step open to every other thread. The data source changes at
will. `GetMiss` to `Fill` is `KCacheGroup::Get` and `Load`, line by line.

### ConsistentHash
Operations under the unique lock are one action and wait for the readers. Get and
GetStats hold the shared lock over several steps, since they change and read atomic
counters others change too. The balancer checks under the shared lock, releases
it, and rebalances under the unique one. The hash function is a constant, any
function, so collisions are covered. `RebalanceNodes` goes over the counters in
the order of an unordered_map; the order is a choice. Rounding (`RoundDiv`) is
std::round on integers, with the threshold a fraction, in place of doubles.

### Discovery
A node's main thread (granted, up, in Stop, stopped) and server thread, the
leases and keys of etcd, and one client with its list, watch and queue of events.
A SIGINT during the start finds no server to shut down (`ShutdownNothing`). etcd is
external: a key goes with its lease, and a watch tells in order everything that
happened since its creation. A lease that is kept alive may still expire
(`LeaseLost`), as it does when etcd is out of reach for ten seconds. Then the watch suffers, too
(`WatchFails`): it may report an error in place of an event, which is lost with it
(`HandleFailedResponse`), or end by itself (`WatchEnds`), after which the client's view stays as it
is, since nothing makes another watch.

The client's destructor (`Cancel`, `CancelNothing`, `JoinReturns`) cancels the watch it
finds and joins the discovery thread. etcd_watcher_ is read without a lock, so whether
the thread has assigned it is a choice until `Watch` has happened.

### CacheCluster
One key in the caches of several nodes, and the threads (callers) that use one client
or several. From the models of the parts it takes what they promise, and no more:

* Discovery: a node's key and its process may go in either order, and a client learns
  of keys by events, one after the other;
* ConsistentHash: the ring returns a member, the same one until that member goes, a
  new one comes (`RoutesAfter`) or the client's own balancer resizes them (`Rebalance`);
* KCacheGroup: a Get that misses loads, and fills whatever is cached by then.

Set and Delete are a step per request: `Set` looks up the target under nodes_mutex_ and lets
go of it, `SetDone` is the target's handler, `SetLocks` takes nodes_mutex_ for the whole
broadcast, `TellDone` and `TellFails` are one Invalidate or Delete each, `Return` lets go and
returns all_success. Watch events of that client wait meanwhile (`Free`), Gets and
Sets that look up a target too. A request that was reported as failed may have
been executed, or not, or be executed by the node at any later time (`Fails`): until its process ends the
node may do what `late` says, once or several times as there may be several such requests (`ExecuteLate`). A
Get that failed may load and fill late in the same way (`GetFails`). A response of the watch may be an error, as in
Discovery. A node that is `starting` is listed and has no group: five
seconds pass before main makes it, and requests to it fail.

The history keeps, for every call that returned true, which Sets were done before it began
(`superseded`).

### NetdiskSession
Sockets live in the server's thread, so its handlers exclude each other and are one
action each: moveToThread is called by a thread that does not own the object and
has no effect. `ClientTask::run` on the pool does connect the signals, in two steps,
while data and disconnections may arrive: a login before the first is read only
with the next message (`LoginUnread`; `Logins` is what is read then, `handleLogin` the places
of those that the database knows), a disconnection before the second is never
noticed (`PeerGoesUnseen`). When a session ends, the UPDATE that clears the flag may fail and the socket goes
all the same (`OfflineFails` beside `ClientOffline`). `Restart` keeps the tables, with the online flags. `Regist` is
the row in user_info; the directory regist makes for the user, or fails to make unnoticed, is part of where
NetdiskFiles begins.

### NetdiskUpload
Both ends of one connection: the click and the dialog (which clear and set the
path and let everything else run), the uploader thread that reads chunk by chunk,
and the server's one open file with its two sizes. A write to it may fail, which
uploadFileData does not notice. A file is a sequence of chunks;
`written` is what the server wrote since it opened the file. The client's side of the socket is
modelled as in PduStream, by whole messages: recvMsg reads what has come (`RecvMsg`, `OtherMessage`) and its
loop handles one after the other (`HandlePDU`); a handler, of an upload or of anything else, may show a dialog, and what comes
in meanwhile (`ArriveUnseen`) waits in the socket for the next message. Opening may fail on the server,
opening and reading on the client, files change size, dialogs are cancelled.

### PduStream and Fifo
One direction of a connection. A byte is a message and a place in it, so that a wrong
cut would be seen (`Garbage`). RecvMsg, the loop (`HandlePDU`, `LoopEnds`) and a handler that shows a
modal dialog (`ShowDialog`, `CloseDialog`) are steps, because bytes arrive while the dialog is
open. Qt does not emit readyRead inside its own slot, and emits it for nobody before
ClientTask has connected it: those bytes wait in the socket (`ArriveUnseen`). `Fifo` is what the
other netdisk modules take a connection for; PduStream implements it.

### NetdiskFiles
The server's file system as a function from paths to directories and contents, a tree for each user whose
directory could be made (`IsTree`; regist ignores the result of its mkdir). One action
per handler, and a user's file window: current path, list, the path noted for a move and the
path of the share window, each button an action that sends what the button sends. A name that is typed, for a
new directory or to rename to, is tested for its length alone; besides names for the current directory it may
have .. or / in it and lead anywhere (`Typed`, `Beyond`): to another user's directory or into one, or to the
places beside the users' directories, which are taken for those of a user who does nothing. QDir's and
QFile's rules (rename and copy replace nothing, a directory does not move into itself,
removeRecursively goes on after what it cannot remove) are external. An operation may fail for
no reason of the model (`Fault`). copyDir is one action, as it is one call: `Sources` is what it goes
through, `Copies` what it makes, `Deciding` the entry whose result it returns. A list of a path
that is no directory is undefined behaviour of the server (`FlushNothing`) and ends a behaviour.

## 3. Runs and what they show

| Run | Instance | Shows |
|---|---|---|
| sf_safety | 3 threads, 2 keys, 4 Calls, func may throw | One execution per key; no waiter without a leader; every Do returns unless its leader threw; Coalescing, with its rule who gets which result, is implemented |
| sf_throw | 2 threads, func may throw | *Violation.* After an exception the entry stays |
| lru_all | 3 keys, 3 values (empty, short, long), limits 0, tight, ample and narrowed ones | List and index agree, exact byte count, limit kept, order of use, callbacks complete |
| group_safety | 2 threads, 2 keys that evict each other, getter may throw | Nothing invented; a deletion no Get overlaps is final |
| group_purge | same | *Violation.* A deletion during a load is undone by it |
| hash | 3 nodes of up to 3 virtual nodes, those of 2 colliding in two places, 2 getters, GetStats, balancer | No virtual node outlives its size record; the ring is complete for whom nobody collides with; changes of membership move only the keys they must; the total covers the counters |
| discovery | 2 nodes, one started twice and one once, 1 client whose watch may fail and end | Keys follow leases; the client's view follows etcd for as long as its watch lasts; nodes that are down leave the ring; the destructor returns |
| cluster | 2 nodes, 2 callers of one client, 2 Sets, 1 start of a node or 1 request executed late | After a call that returned true no older value is cached where the client could know of it; a Set, or several to one node, leave that node with one of their values |
| session | 2 users, 2 sockets, 1 waiting login, 3 open questions | The flag tells whom a message reaches; a friend deleted stays deleted unless asked again |
| upload | files of up to 2 and 1 chunks, 1 uploader thread at a time, dialogs of these and other messages | Success means intact unless the disk was full; the answer is the last message; uploads are answered unless the answer is left unread in the socket |
| stream | 4 messages of 3 lengths, cut anywhere, either end | Every message handled once, whole and in order; each gets through unless part of it came unsignalled |
| files | 1 user who clicks 5 times, 1 friend who accepts and whose directory may be missing, 2 trees, typed names that lead to the friend's, 1 fault | The file system stays a forest; who has no answer outstanding sees the directory as it is; who waits for answers and has a directory never asks for a list of nothing; accepting a share replaces nothing and, into a free name, copies everything |

### Bounds
* Four Calls for three threads: one more than can be in use, so that an address is
  used again while an older holder still returns. Two results of func would
  not change a step: results are never compared.
* Cache limits 0, 1, 4, 7, 9 and 16 with IntMod 16: unlimited, smaller than any
  entry, one entry, two, all, and one that narrows to 0.
* `MaxRequests` 4 with `MinSamples` 3: the balancer sees loads that are equal, slightly and
  wholly uneven, and rebalances more than once since it resets the counters.
* `MaxStarts` 2 for one node and 1 for the other: a node's second run meets the leases and
  events of its first, while the other node runs or not (310,923 states).
* cluster: two nodes are a target and one to be told; two callers are a writer and one that reads,
  writes or deletes in between. `MaxWrites` 2 makes one value older than another, and `MaxBehind` 1 a client
  that does not know yet of a change; another change then waits. `MaxUpsets` 1 is a node that joins or comes back
  on the way, or else a request that is executed late, any number of times while it stands for several: never
  both in one behaviour, which the proofs cover. Nodes and callers are interchangeable, and the run checks no
  liveness, so symmetry is sound (661,645 states up to it). Both callers use one client, which is where they meet in nodes_mutex_ and the ring; that other clients
  change nothing the theorems `TrueMeansSuperseded` and `UndisturbedWriteIsRead` say for any number of them.
* stream: Header 2 has an inside; lengths 2, 3 and 5 are a bare header, less and more than
  another header; four messages let two wait while one is handled and a third is cut.
* files (1,103,077 states): five clicks are enough to enter a directory, act in it and be overtaken; `MaxDepth` 3 lets a
  directory be moved into another and a copy be refused for its depth; `MaxPending` 2 is the least at
  which a click overtakes an answer; one fault makes each operation fail half way once. In one of the two file systems the friend has a
  directory of another name (a click that renames the own one makes the names clash), in the other the friend has no
  directory at all. A typed name is one of the two names here, or leads to a directory in the friend's.
* session (220,310 states): two sockets for two users: one each, or one user twice; `MaxUnread` 1: a login that waits and
  one that brings it along; `MaxQuestions` 3: each has asked the other, and one of them at two sockets.
* upload (631,698 states): 2 chunks make a first, a last and a middle; the second file may be as long,
  shorter or empty, so overlapping uploads announce more or less than arrives.
  `MaxPending` 2 bounds what is under way when something is sent, and one
  uploader thread runs at a time. These delay steps and drop none. Two messages are enough for one to be
  handled, with a dialog, while the other waits unseen. Of an upload that was overlapped
  `UploadHistory` keeps nothing else, since the property says nothing of it.

### Deadlock checking
It is off where the system may stop: in sf_safety and sf_throw (waiters left by an
exception), in hash (destroyed, or `MaxRequests` used up), in discovery (all nodes down and their
starts used up), in cluster (all nodes gone and Sets used up), in stream (everything sent and no
more to arrive) and in files (clicks used up, or undefined behaviour).

### Fairness
* SingleFlight: a thread inside Do goes on (`Proceed`). The scheduler runs it; func is
  assumed to end, which a data source must. Calling Do is never required.
* Discovery: etcd takes back leases nobody keeps alive, and the client's watcher
  thread goes on, ends when its watch is cancelled, and lets go who joins it. A watch is not
  obliged to fail or to end by itself, and may do either at any time. Nodes are never obliged to start, stop or recover, and nobody to destroy a client.
* PduStream (`FairStreamSpec`; the proofs are about `StreamSpec`, without): bytes on the wire arrive,
  the event loop runs (also inside a dialog), a user
  closes dialogs, and the pool runs ClientTask. Nobody has to send.
* NetdiskUpload: what comes in is signalled, unless a dialog is open inside recvMsg (`Arrive`), the loops of
  both ends and the uploader threads go on, and a user closes a dialog. Other messages, which would
  bring along what waits unseen, users, failures and changes of files are not fair.

Everything else is safety and assumes none.

## 4. Proofs

**SingleFlightProofs**, for all sets of threads, keys, Calls and results. The
properties are not inductive: `Erase` removes whatever is registered for the key,
and `Await` returns whatever the promise holds. `IInv` adds that a leader's Call is the
registered one (`LeaderOwnsEntry`), a Call is registered for one key only
(`EntryOfOneKey`), it has one leader (`OneLeaderPerCall`), and the promise is open until that
leader fulfils it and holds its value after (`PromiseFollowsLeader`); without
exceptions an entry and an open promise have a leader (`EntryHasLeader`,
`WaiterIsLed`). One lemma per action shows it preserved. From it follow `TypeCorrectness`,
`OneExecution`, `EraseIsOwn`, `CallsAreKeyed`, `WaitersShareValue`, `WaitersAreLed` and the action property
`PromisesAreStable`; and `Refinement`, step by step, shows that every step is one of Coalescing
or a stutter. Assumptions: the sentinels NoCall and Pending are no Calls and
no results (`SentinelAssumption`), MayThrow is a Boolean. What `EraseIsOwn`, `CallsAreKeyed`,
`WaitersShareValue` and `PromisesAreStable` state is proved for every size and not run besides.

**ConsistentHashProofs**, for any nodes, hashes, limits and getters. `RingInv` joins
the types of the ring with `RingIsMapped`, `VNodesAreOwned`, `CountersAreMembers` and
`RemovedIsNotRouted`: Get returns a member because the hash it found is owned, and
owners are members because Remove takes out as many virtual nodes as the size
record says and ownership never exceeds that record, whatever collides. The
theorems assume `~ReAdd`: no member is added again (KCacheClient tests that,
client_sdk.cpp:167); without that they are false (section 5). `RingMapped`, `CountersMatch` and
`RemovedNotRouted` are proved and not run besides. `RingStaysComplete` adds that no virtual node
of a lone node is missing (`CompleteInv`): a lone node's hashes are no other's (`LoneIsApart`), so
that nobody takes them over. `MovementIsMinimal` is an action property: the successor of a hash on a
set of naturals is unique (`SuccessorIsUnique`), and stays when hashes are added or taken
out elsewhere (`SuccessorStays`). That a set of naturals has a least element (`LeastNatural`) is got from
the well-foundedness of finite subsets. `TotalCovers` counts requests told apart (`Counted`) in place
of a sum, one more for each of the Gets between its two increments. Assumptions: finitely many nodes and
getters, MinReplicas at least 1 and not above MaxReplicas, hashes are naturals.

**LRUCacheProofs**, for any keys, values, lengths, limits, and any width of int. `LRUInv` joins the three checked
invariants, and adds that the bytes held are finitely many. Lists are reasoned about by
which entries of one list another has, in order (`Picked`, `Selection`): taking one out (`TakeOut`),
putting one in front (`PutInFront`) and cutting one in two (`Cut`) keep keys apart and the order. Bytes of different
entries are different, so they add up (`BothTake`, `PartsTake`). Set is then one argument: the list that was filled
counts what `bytes_` counts (`FilledIs`), and wherever the loop stops the bytes of the two parts are those of
the whole (`CutTakes`). `RecencyHolds` and `CallbacksHold` follow for the history, whose copy is the
content of the list (`Content`).

**DiscoveryProofs**, for any nodes, each started any number of times. `LeaseInv` adds to the types that a key is bound
to a lease of its own node and that a node which runs was started; from it `KeysFollowLeases`. `ViewInv`
adds that there are no events but while there is a watch, and that before it the list is right about every
node that did not change since. Then every change of a key comes with its event; an event that is lost was the last of
its node, and the node is in `missed` from then on, or a later one tells more. So `ViewFollowsEtcd`.

**CacheClusterProofs**, for any nodes, clients and callers. `ClusterInv` types the calls: who has a target, and
that a load runs in a process that is ready. `SupersededInv` is the argument for `TrueMeansSuperseded`: the value of
a Set that is done belongs to no call any more (`DoneIsOver`), and what was done before a call began is gone from
its target, then from every node it has told (`ToldIsGone`), so it is gone from all the client knows when
it returns. What may be executed late never brings such a value back: what is late is a value of a Set that
failed, a load or a removal (`LateIsNotDone`). `HeirIsSpared` is that for `UndisturbedWriteIsRead`: while a node is heir every Set goes to it and nobody
tells it.

**NetdiskClientProofs** is about two modules that share no state. PduStream, for messages of any lengths above a header, in any
number, cut anywhere. `StreamInv` says of the rest of the stream that every byte in it belongs to a whole
message (`Whole`), that each is followed by the next of its message or the first of the next message
(`InOrder`), and that it goes from the first unhandled message to the last sent (`FromTo`). Sending appends a
message (`AppendMessage`), the loop removes the first (`RemoveMessage`), and the bytes between only move.
`StreamImplementsFifo` is the refinement: HandlePDU is a Receive of the oldest message, all else a Send or a
stutter.

NetdiskFiles, for any users, names, trees, depth and number of clicks and faults. Half of it is what paths
are: prefixes, joins and the parts between, which the proofs use by predicates (`IsJoin`, `IsWithin`,
`IsFront`). `FilesInv` says that the file system is a forest (`IsTree`) and that every path on its way, shown or
noted is one of the user it belongs to, except where a typed name leads, which makes the type inductive: each of mkdir, rename, removal and
copy keeps the tree (`TreeMkdir`, `TreeMoved`, `TreeDelete`, `TreeShared`). `PatientInv`, for the users who
are not hasty: the client's directory exists, or is the user's own that was never made (`Stands`); every list
asked for is of it, a request that removes or moves is the first one, with no list on its way, and spares that
directory; and what a list on its way, or the one shown, calls a directory is one, or a newer list is due. Others can
add to a user's directories, by typed names, and take nothing away, because what is removed or moved was in
the own list (`OneOwner`, `Grows`, `Stays`); so only a user's own operations can take a directory away, and none of them takes away
the one the client is in (`PatientDelDir`, `PatientRename`). `ShownInv` is about hasty users as well: the last
list asked for is of the directory the client is in, and unless the user is unaware of a change, the right
list is asked for, to be asked for, on its way or there (`WillList`). `AcceptedIsCopied` looks at one step: into a free name every
entry of the source is made (`AllMade`), so also the one whose result copyDir returns. That there is such an
entry (`DecidingIs`) is shown by going down to the last name again and again: the longest path on which each
name was the last (`LatestGoesOn`, `LastExists`). Assumptions: the trees to begin with are trees
(`PathsAssumption`), typed names lead to paths, a directory is no content, Acting users are users.

**KCacheGroupProofs**, for any threads, keys, values, lengths and capacities. The group is a composition and so
is its proof: it takes SingleFlightProofs and LRUCacheProofs as instances (`sf`, `ch`), and `GroupInv` is their two
invariants with the agreement of `at` and `pc` (`Places`). `GenuineInv` follows a value from the source to
the leader, over the Call to its waiters, who asked for the same key, and into the cache, where only a Set adds
anything (`SetHeld`); so `NothingIsInvented`. `SettledPurgesReload` rests on `Untouched`: no Get of a settled key has
an answer of the source, not even by joining, since a promise that is fulfilled and still
registered has its leader yet to erase it (`FulfilledIsRetiring`). Assumptions: those of the two parts.

**NetdiskProofs** has two modules that share no state. NetdiskUpload, for any files, chunks and uploader threads:
`UploadInv` says at which stage an upload is that no other overlapped: announced, accepted, refused, or carrying
chunks, which are in order and continue what was written (`Carrying`). One lemma per action shows the next stage.
From it `SuccessIsIntact` and `AnswerComesLast`.
NetdiskSession, for any users and sockets. The types alone are not inductive: who agrees to a question must
be registered, and so must those named in every open one (`Registered`). `PresenceInv`: a user who is not blurred
has at most one session, with a client at its other end, and the flag says so; a session whose end could not be
noted blurs its user. `EndedInv`: between two users
who ended their friendship there is neither a row, in either direction, nor an open question.

Only model-checked:

* `DoReturns`, `GoneNodesLeave`, `DestructorReturns`, `MessagesGetThrough` and `UploadAnswered`: liveness
  under fairness is out of the prover's reach.

## 5. Where code and words differ

1. `singleflight.h:42`: when func throws, the entry is never erased, and later callers
   of the key block (sf_throw).
2. `group.cpp:111`: a load under way puts back what a Delete or an invalidation removed
   (group_purge).
3. `consistent_hash.cpp:175`: a member enlarged by the balancer and added again leaves
   virtual nodes behind when removed, and Get goes on returning it, while
   `src/test/test_consistent_hash.cpp:106` expects a removed node not to be returned. The client never
   adds one twice; the theorems assume it (`~ReAdd`), and no run repeats it.
4. `registry.cpp:90`: a lost lease is kept alive for ever and never granted again, so that a node serves
   and is not listed, where `registry.h:19` promises all available nodes. `Expire` with `LeaseLost` is that
   step; KeysAreLeased speaks of a node only for as long as etcd holds its lease.
5. `msghandler.cpp:283`: a share whose source is gone by the time it is accepted is taken for a
   directory; an empty one is made and reported as a success. And copyDir's result is that of its last
   entry, whatever failed before. `SharesCopy` is about sources that are there and names that were free.
6. `msghandler.cpp:341`: on a full disk a chunk is counted and not written, and success is reported.
7. `client_sdk.cpp:154` and `:147`: the events of a response that reports an error are dropped, and a watch that
   ended is not made again. A node that went away then stays on the client's ring, for ever in the
   second case, while `registry.h:22` says that a node that goes offline is not discovered any more.
   `ViewCatchesUp` and `GoneNodesLeave` exempt a node whose last event was lost (`missed`) and a client whose watch
   has ended.
8. `msghandler.cpp:27`: a user whose directory could not be made is registered all the same; the file window
   asks for a list of it at once, which is the undefined behaviour of `FlushNothing`. `PatientUsersAreSafe` names it.
9. `file.cpp:93`, `:145`: a typed name is tested for its length only, and may lead to another user's
   directory. mkdir, and rename of an own file, then make something there that its user's list does not show.
10. `cache.h:45`: a capacity above what an int holds is narrowed, and 2^32 becomes no limit at all.
    `WithinLimit` is about the limit as narrowed.

Exceptions that properties name, without a contrary statement in the repository:
* `SessionHistory!blurred`: users with two sessions at once, whose socket was
  renamed, overtaken by a second login in one read, gone unseen, whose flag could not be cleared because the
  UPDATE failed, or online at a restart. For them the online flag may be wrong until they log in afresh.
* `UploadHistory!overlapped`: a click while an upload is under way replaces the path, the file
  and the sizes under it, and a success says nothing about the content.
* `UploadHistory!full`: a write of the server failed (6. above).
* `ClusterHistory!hidden`: nodes a client did not know of when its call returned. It tells only those
  it knows; a node that was listed later, or whose event was still under way, keeps what it has.
* `ClusterHistory!Disturbed`: what takes the copy of a Set away again, or puts another in its
  place: the end of the node, an eviction, a Delete, a Get that was loading, a Set that failed, any request
  that the node executes after its caller was told it had failed; and a Set of another caller to another
  node, whose broadcast hits it.
* `FilesHistory!hasty` and `unaware`: a click before the answers to earlier ones came can lead into a
  directory that does not exist; an operation that failed half way is not followed by a new list, nor is one by
  which another user made something in the own directory (9. above).
* `UploadAnswered`: an answer that comes in while a dialog is open inside recvMsg may lie unread in the socket
  for ever, if nothing comes after it (`unseen`).
* `PduStream!arrived`: bytes that came while a dialog was open, or before the hook, wait until more
  arrives (`MessagesGetThrough` says so).
* `DiscoveryHistory!calledAt`: a client destroyed after its list and before its watch joins a thread that
  nobody stops.
* An empty file sends no DATA and is never answered (`UploadAnswered` is about
  the others); one that grew is answered TRUE and then FALSE (`spoiled`).
* `DiscoveryHistory!missed`: a change between the client's list and its watch, or one whose event was lost,
  is not seen until the node's key changes again.

## 6. Not modelled

* The global map of groups: main makes one group, once, so its operations on several names never meet.
* In CacheCluster: a deadline on RPCs (the code sets none, so a call ends with an answer or a
  failure); the client's gap between list and watch,
  which Discovery has; a key that is not in the data source. Nor liveness: a request that never ends
  holds nodes_mutex_, and nothing in the code bounds it.
* In ConsistentHash: CheckAndRebalance compares the total with its minimum before it takes the lock and reads
  the counters one by one while Gets go on; the model takes what it decides on at one moment. No property and no
  proof depends on what makes the balancer act: RebalanceNodes may follow whatever was decided.
* In NetdiskFiles: the selection and the dialogs, which are modal and only the user could have changed
  what is read after them; names that are cut at 32 bytes; .. in a path is taken for the directory above by the letter, also
  where what it leaves is missing; a user's name is taken for one component of a path, though regist does
  not ask; a user with two connections, which
  NetdiskSession has; uploads into the same tree. The modules take a connection for the Fifo that
  PduStream implements; that a message may wait unsignalled is a delay in them.
* Chat, the lists of friends and of users online, and their windows: they pass on or show what the
  server holds.
* The statistics of a group, which no operation reads.
* Failing SQL statements, but for the one of handleOffline: the handlers report them as refusals, which
  change nothing. (The first SELECT of handleAddFriend is the exception; that it failed reads as being no friends.)
* A client that is asked twice by the same user at the same socket: `dialogs` is a set. A second yes would insert
  the row again, and delFriend deletes all of them.
* The hash function's values, gRPC, Qt's widgets, forms, resources and build files.

## 7. Plan

Done, in this order: SingleFlight with its proofs and refinement, LRUCache, KCacheGroup,
ConsistentHash with its proofs, Discovery, NetdiskSession, NetdiskUpload, CacheCluster, PduStream
with its refinement, NetdiskFiles.

Done then, the proofs of section 4: the types, all safety properties and the two refinements of
every module.
