# goed2k in TLA+

goed2k is an eDonkey2000/Kad client library in Go: it finds sources of a file at
servers and in the Kad network, downloads the file in pieces from several peers,
verifies each piece against a hash set, uploads what it has, and keeps its state
across restarts. This directory models its protocols: the download of a file and its
state across restarts, the connections to peers, the upload queue, the Kad lookups
and routing table, and the client with its servers, searches, state file, subscribers
and port mappings. TLC checks them on small instances; TLAPS proves, for every size, that
the download and the upload queue implement their abstract specifications, the safety
invariants of the download, the upload queue, the connections and the list of peers, the Kad
tracker and the client, and facts about the arithmetic of files, about search results and
about source requests.
`PROJECT.json` lists the runs, the theorems, the mutants of the definitions that show each property can fail,
the hazards of the code, and the source lines that each definition models.

    tlc -workers 2 -config MCDownload_steady.cfg MCDownload
    tlapm DownloadProofs.tla

## 1. The system

### Who runs

| goroutine | code | what it does |
|---|---|---|
| the tick | `Client.loop` (client.go:562) | every 100 ms: read, process and flush every connection, start and collect disk tasks, connect peers, time-outs, searches, lost servers; autosave |
| a disk task | `processDiskTasks` (session.go:794) | one goroutine per task, one task at a time; the result returns through a channel to the tick |
| API callers | client.go, transfer_handle.go | pause, resume, remove, save, search, subscribe, connect; partly under `session.mu` |
| the Kad reader | dht_tracker.go | packets of the socket; when none came for 500 ms, the tick of the tracker |
| the status loop | client.go:585 | events for the subscribers |
| port mapping | upnp.go:166 | one goroutine per manager: discovers gateways and asks them |
| accept loop | session.go | hands incoming connections to the session |

The tick takes `session.mu` only inside a few calls (taking snapshots of lists,
`RemovePeerConnection`), so an API call may run between any two handlers of the
tick, and in the middle of the service of one connection.

### Components

| component | state | operations | what makes it correct |
|---|---|---|---|
| piece picker (piece_picker.go, downloading_piece.go) | status per piece, an ordered list of downloading pieces, state/downloaders/last downloader per block | pick blocks, mark writing/finished, abort, restore or complete a piece | a block is requested from one peer at a time, and never from nobody; a complete piece stays complete |
| piece manager, block manager (piece_manager.go, block_manager.go, disk/) | the file; per piece, the buffers not yet hashed and a running digest | write, restore, hash, release, read a range | the digest is that of what the file holds |
| disk queue (session.go, async_disk.go) | a FIFO of tasks, the running one, the results channel | submit, start, collect | every task is called back once, in order |
| transfer (transfer.go) | picker, piece manager, hash set, pending hashes, pending restores, pause, abort, state, two timers | connect, disk callbacks, pause, resume, remove, resume data, ask for sources | finished means verified; it does finish; sources are asked for in time |
| peer connection (peer_connection.go, connection.go) | socket, incoming bytes, handshake, download queue, block in transfer, upload state | read frames, handle messages, request blocks, disconnect | frames in order; its queue and the picker agree; closing gives everything back |
| client state (client_state.go) | the state file | save (write a temporary file, rename), load | what is saved is on disk; a save loses nothing |
| peer policy (policy.go) | a sorted slice of peers, pointers into it | add, erase, choose, connect, closed | a peer has one connection, and can be retried |
| upload queue (upload_queue.go) | uploading list, waiting list, ranks, suspended files | add, process, remove, suspend | disjoint lists, slots within limits, nobody starves |
| server connections (server_connection*.go, session.go) | a map of connections, policies, the primary and its identity | connect, reconnect, id change, close | the identity is that of the primary; lost servers are dialed again |
| search (search.go, session.go) | one active task with a server half and a DHT half, results by hash | start, result, tick, stop | it ends; what it shows passes the filters and stays |
| Kad (kad_*.go, dht_tracker.go) | routing buckets, transactions, traversals | request, answer, time-out, refresh, restart | a traversal ends, once; buckets are bounded |
| subscribers (client_listener.go, client_progress_listener.go) | last snapshot, channels | subscribe, emit, cancel | one that reads comes to know the state |
| port mapping (upnp.go) | a manager, its mappings, the gateways' | start, discover, map, stop | what is mapped is deleted at the end |
| client (client.go) | the loop, start and stop, autosave | Start, Stop, Wait, calls that save | who stops finds the state saved; who waits returns |
| ranges (data/, blocks_enumerator.go) | - | blocks, requests and packets of a file | they tile the file |
| wire formats, statistics, links, terminal interface | - | - | no protocol state |

Interactions: the tick calls the transfer, which calls the picker; a complete
block and a complete piece submit disk tasks; the results call the transfer back.
Disk errors pause the transfer and close its connections. API calls close
connections and submit a release. The saved state is a snapshot of the picker;
loading it submits one restore per saved block. Servers, Kad, peers and the resume data
add peers to the policy of a transfer, from which the tick dials. The Kad reader and
the server part of the tick add results to the one active search. The hard behaviours
are listed with their lines under "hazards" in `PROJECT.json`: connections closed under
the tick, several peers for one piece, hash against write, a failed write in front of
queued tasks, a save during a restore, a restart between write and hash, peers that move
under the pointers of connections while a dial takes its time, answers that are late
or come twice, saves that share a temporary file, events dropped at a full buffer.

## 2. The modules

    FileTransfer    what a transfer promises: have, intact, removed      (abstract)
    PiecePicker     the picker as a value: operators picker -> picker
      PieceStore    the file and the block managers: operators store -> store
        DiskQueue   the queue of disk tasks                              (variables)
          Download  one transfer: everything above, connections, API, restart
    MCDownload          instances for TLC
    DownloadProofs      the picker; types, requests and their holders; the disk queue
                        and what the transfer remembers of it
      DiskProofs        the state file and the file; the contract

    PeerPolicy      the slice of peers and the pointers into it
    Frames          a connection's bytes cut into frames
      Peers         the connections of a transfer: tick, dials, API
    MCPeers, PeersProofs

    SlotPool        what the upload queue promises                       (abstract)
      UploadQueue   the queue, the upload handlers, suspension
        Exchange    with the downloading ends: packets, time-outs, faults
    Ranges          blocks, requests and packets of a file
    MCUploadQueue (extends UploadQueue and Ranges), MCExchange
    ExchangeProofs      the queue, which implements SlotPool; the conversation of two ends

    KadTable        contacts and routing table
      KadTraversal  transactions and traversals
        Kad         the tracker: reader, tick, API, restart
    MCKad
    KadTableProofs      what the operations preserve of the table; what a restart leaves
      KadProofs         traversals, transactions, searches and the actions

    Servers, Search, StateFile, Listeners, PortMapping     operators, one record each
      Client        loop, calling thread, status loop, subscriber, mapping, DHT answers
    SearchResults   filtering, merging and listing of answers
    SourceTimers    when a transfer asks for sources
    MCClient (extends all), ClientProofs
    AlgorithmProofs     theorems about Ranges, SearchResults and SourceTimers

The modules with operators only take a record of the fields that the code guards with
one lock or keeps in one object, and return the record as the method leaves it. The
module that composes them has the variables and one action per step of a goroutine.

**PiecePicker.** A picker is a record: `status` of each piece, `queue` (the
pieces with a `DownloadingPiece`), `before` (the order of that slice, as a
relation), `block` (state, number of downloaders, last downloader, speed). The
methods are operators of the same name where possible; `ClosePiece` is what
`RestorePiece` and `WeHave` share. `PickedBlocks` states the result of the nested
loops of `PickPiecesWithAvailability` directly: the first n free blocks in the
order of slice, then index.

**PieceStore.** The content of a block is `good` (what the file should hold),
`bad` (anything else) or `none`. `RegisterBlock` keeps the code's asymmetry: a
buffer whose block was already hashed is kept and never hashed again. A piece
matches its hash when all its blocks went through the digest and were good: two
different contents with the same MD4 are not modelled.

**DiskQueue.** `tasks` is `diskTasks`; its head is the one that runs. The start of
a task and its work are one step, `RunHead`: only the disk goroutine touches the
store of a transfer on the download path, so nothing can observe the time
between them; what can be observed - the time until the tick collects the
result - is the state `disk = "done"`.

**Download.** One action per handler. The tick: `ConnectToPeer`,
`ReceiveHashSet` (the handshake up to the hash set, in one step per connection),
`ReceiveAcceptUpload`, `ReceiveBlock` (the last byte of a block: mark as writing,
submit the write, perhaps the hash, request more or close), `PeerCloses`,
`OnDisconnect`, `EndPump`, and the six callbacks of disk tasks. The disk:
`RunWrite`, `RunHash`, `RunRestore`, `RunRelease`, with failures. The API:
`PauseTransfer`, `ResumeTransfer`, `RemoveTransfer`, `SaveState`. And `Restart`:
the process ends at any point and a new one loads the state file.

The program keeps no state of the handshake: a packet is handled whenever it comes.
`phase` says how far a peer has gone in the order of the protocol, and is a guard of the peers'
own order only. `ReceiveAcceptUpload` has no such guard. An `AcceptUpload` before the hash
set is the fault `"early"`: blocks are requested (peer_connection.go:882, 989), of pieces that
`remotePieces` may not yet restrict, and a piece that is hashed meanwhile is taken whatever its
hash (transfer.go:695).

`pumping` models the window in which `PumpIO` serves a connection that an API
call has just closed: it looked at `IsDisconnecting` before. While `pumping = p`
the handlers of p may still run, on a connection whose socket is gone; `EndPump`
ends the window. All other actions of the tick wait, the API and the disk do not.

`Limits` bounds how often each fault or API call may happen. It is a bound of the
exploration; the proofs hold for every value of it, those about a process that is not
interrupted, whose disk works and whose peers accept uploads in their turn (`Steady`) for every
value that excludes these three.

**FileTransfer** has three variables. Pieces can be fetched (anything may
happen to the content of incomplete pieces), completed (only when the content is
right), and the transfer removed. `Download!Contract` is the refinement: have is
`HavePieces(picker)`, intact are the pieces all of whose blocks are good in the
file, removed is `aborted`.

**UploadQueue.** The queue and what it keeps in the connections are one record,
`q`; the helpers of upload_queue.go map records to records (or to sets of them,
where the sort has a choice). The tick: accepting and losing connections, the
requests of clients (`HandleClientFileRequest`, `HandleClientStartUpload`,
`HandleClientRequestParts`, `HandleClientCancelTransfer`), and `Process`.
`Process` is a loop over a copy of the uploading list; `serving` is what is left of
it, `Serve` is one turn (`SendBlockData`), and the handlers of the tick wait until
it is done. Connections close, time passes, the number of slots changes and the API
is called between the turns. `SuspendUpload` loops over a copy of its own,
`suspending`. Sessions longer than an hour or ten megabytes are `over`; "less than a
second ago" is `recent`. `UploadScore` puts friends with a high identifier first; with
`EqualCredits` the others are served in the order of their arrival, without it in any
order. The number of slots is between `MinSlots` and `MaxSlots`: the code computes
it from the rate, within 2 and 250.

**SlotPool** forgets ranks, requests and connections: two disjoint sets, the number of
slots of the moment, which a client that was passed over for its low identifier may
exceed by one, and one client moving at a time. `UploadQueue!Pool` is the refinement. Lists become sets, so a
client that is put twice into a list is `ListsMatchStates`' business.

**Exchange** extends UploadQueue by the clients, goed2k too, and what is between
them. `up` and `down` are the two directions of a connection: `out` is
`Connection.outgoing`, of which a visit of `PumpIO` writes one packet, `wire` is what was
written and not yet handled. `peer` is the downloading end: the blocks it wants, those in its
`downloadQueue`, how many packets of each it has, and which were damaged. Each action of
UploadQueue is taken with the packets that the handler sends (`Answer` is what
`AddClientToQueue` sends); those of the client are the handlers of answers in
peer_connection.go. Faults are drawn from `budget`: the session refuses (a file, a range, a read), an
upload is suspended or terminated, a connection is lost, a client `vanish`es (nothing
comes through any more and nobody is told), data is damaged, and a write is `torn`: it times
out after a part of the packet, and the whole packet is written again. What the client reads
then is any data, then something undecodable that may take some of the packets behind it
along. Each block is a piece of its own.

**PeerPolicy.** A `Peer` is a value in a slice, and connections keep pointers to it. A
slice is its length and one of several arrays; an array that is outgrown stays, since
pointers may lead to it. `AddPeer` searches by bisection and inserts, shifting what is
behind; `ErasePeers` deletes and shifts back; a write through a pointer hits whatever
is at that place now. Endpoints are numbers, in the order of `Endpoint.Compare`.

**Frames.** The peer sends frames 1 to `Count`, whose beginnings and body sizes are
constants. What a connection has read is the positions `at .. have` of the stream. A turn
of `PumpIO` reads some bytes, cuts frames off as long as they are complete
(`ReadFramesWithCombiner`), handles the decoded ones, and moves file data behind a
`SendingPart` to the buffer of its block, a read at a time.

**Peers.** The connections of one transfer. The tick first visits the connections of
the session, each in steps of Frames or with its time-out or end, then opens new ones:
`FindConnectCandidate` (no lock), the registration (under the lock), and the dial, which
takes time; peers are added, incoming connections accepted, and the transfer is paused
and resumed between these steps. A connection may end with a failure or without (a close
for lack of blocks, peer_connection.go:1026), which the failure count of its peer tells apart.
An access out of range ends in the state `panicked`.

**KadTable, KadTraversal, Kad.** A tracker is one record. Contacts have keys, because
their address and identifier change in place; `at` is the map by address, `live` and
`repl` are the lists of each bucket. Identifiers are sequences of bits; the code's
per-byte handling of a bucket's range is kept (`IdWithinBucket`). A traversal has its
observers in the order they were made and the order by distance; a transaction names
traversal and observer. A contact's key is its first address and a number (`NewKey`), because
the contact that an address had before may still stand in a bucket. `After(w, Op, list)` is
the loop that does Op for each element of a list. Answers may come from anyone, for anything, at any time; an answer without a transaction is
an answer that is late, or that comes a second time. `Tick(e, s, S)` gives up the e
oldest transactions, finds those up to s slow, and lets the timers S elapse.

`DHTTracker.mu` does not make these steps atomic. A search holds it for its check only, and
starts its traversal and sends its requests without (dht_tracker.go:176, 568); the reader ticks
(:191), matches answers and goes on with traversals (kad_node.go:149, 250) without it. A
call, a packet or a tick is one step of the model, `Alone`, for a thread that has the tracker to
itself. That two threads have it at once is a step too: `SearchOverlaps` is a search during
which the reader writes the list of transactions or counts an answer, so that any of the
requests that the search has counted may be missing from the list; `AddOverlaps` is an `AddNode` or
`ApplyNodesDat` beside the reader's unlocked writes of the map and the table. Both set
`overlapped`. What the memory holds after a race cannot be enumerated, so the model goes no
further from there, and its properties claim nothing of such a state: they are about trackers in
which calls, packets and ticks come one at a time, in any order.

**Servers.** The map of connections, the policies, the primary and the identity that the
session shows. A connection is a key that may be reused when nobody has it. What a server's
identifier changes are two steps: `HandshakeCompleted` writes the connection without a lock
(server_connection.go:43), `OnServerIDChange` the session under its own (session.go:924); in
Client the loop is at `shaken` between them, and calls come in between. A missing
policy and a fresh one behave alike and are one value.

**Search.** The task has a state, two busy flags and a deadline; `owed` says that the
tracker took the search and has not called back, which `SearchesAnswered` of Kad shows
that it will unless the search overlaps with the reader. **SearchResults** has what the answers do to the results: `MakeResult`
reads the tags, `matchesSearchFilters` and `mergeResult` are the methods, and
`SnapshotLists` are the lists that a snapshot may be.

**StateFile.** `Save` is: take a snapshot, open the temporary file (truncating it), write,
close, rename; and if the rename fails, because the disk does or because the other saver has
renamed the file already, remove the temporary file in a step of its own, which may be
one that the other saver has made by then (client_state.go:119, 120). Two names and some
inodes; a file has the version it holds, or is empty or torn. Two savers that have the same
inode open overwrite each other.

**Listeners.** One subscriber: the events in its channel, the snapshot that will be its
first event, and what it has been told. `lastProgress` decides what a progress event has.

**PortMapping.** At most two managers (Start makes one and replaces it once the DHT has
its port). A manager begins, discovers, asks one gateway after the other, and is done;
`Closed` deletes what it has. `router` is what gateways map, `astray` what the
code cannot know of: a mapping whose answer was lost, or that a gateway would not delete.

**Client.** One action per step of a goroutine, where a step is what happens under one
lock or between two: the loop (its selects, the snapshots of connections, each
connection, the lost servers, the autosave in its steps), the calling thread (Start,
Stop, Wait, ConnectTo and DisconnectFrom, StartSearch and StopSearch, changes
followed by a save), the status loop, the subscriber, the waiter, the goroutines of
managers, and the calls from Kad. `Budgets` picks one of eight scenarios (see the runs).

**SourceTimers.** `SecondTick` and `RequestSourcesNow` as functions of the two times of
the next requests, in milliseconds, with the code's own intervals.

**Ranges.** The code's own sizes (9 728 000, 194 560, 10 240) and integer arithmetic:
blocks and pieces of offsets, `MakePeerRequests`, the packets of a block, and the
32-bit fields of offsets.

## 3. The runs

| run | instance | checks |
|---|---|---|
| `download_faults` | one peer; at most two of: damaged block, failing disk operation, lost connection, early accept, pause, removal, restart; one save | `TypeOK`, `RequestsAreHeld`, `WritesAreQueued`, `HashesAreQueued`, `RestoresAreCounted`, `SavedIsOnDisk`, `HashesAreKnown`, `HaveNeverLost` |
| `download_steady` | two peers, one with the whole file, one with the first piece; one damaged block, one lost connection, one pause | `QueuesMatchPicker`, `HashAfterWrites`, `Contract` (refinement), `Completes` (liveness) |
| `peers` | four peers, three connections, a list of three; and a peer that sends three frames | `TypeOK`, `ListsAgree`, `FramesInOrder`, `ListKeepsPeers`, `ClosedAreRemoved` (liveness) |
| `upload_turns` | two clients, one with a low identifier and a friend slot; one file; one or two slots | `TypeOK`, `QueueAgrees`, `Pool` (refinement), `WaitingIsServed` (liveness) |
| `exchange_faults` | two clients, one slot, two packets per block, requests of two blocks, a hash set; two clients that compete, or one with any fault, or any two | `UnansweredIsExplained`, `PartsAreAwaited`, `SlotsReturn`, `Fetched` (the last two liveness) |
| `kad_lookups` | three addresses, buckets of one contact, identifiers of three bits, two searches, four events, one of them perhaps an overlap | `TypeOK`, `CountsMatch`, `TableBounded`, `SearchesAnswered`, `RestartKeepsContacts`, `TraversalsEnd` (liveness) |
| `client_races` | two servers, one search after another, two savers, one transfer and one subscriber, two gateways, in eight scenarios | `TypeOK`, `IdentityIsPrimarys`, `StopSaves`, `MappingsAreOwned`; `Retried`, `SearchEnds`, `ChangesAreSaved`, `SubscribersCatchUp`, `WaitReturns` (liveness) |
| `restart_stuck` | one peer, one piece, save and restart | `Completes` is violated |
| `progress_lost` | one peer, one piece, two saves and a restart | `ProgressIsKept` is violated |
| `finished_corrupt` | one peer, one piece, a failed write and a damaged block | `FinishedIsIntact` is violated |
| `upload_suspended` | two clients, two files, one PowerShare, any order of the waiting list | `SuspendedKeepWaiting` is violated |
| `kad_reader_blocks` | as `kad_lookups`, three events | `ReaderNeverBlocks` is violated |

### Bounds

*Download.* The file has two pieces, of two blocks and of one, so that there is a piece
with an order among its blocks, a second piece to open while the first is incomplete, and
a last piece of another size; `RequestQueueSize` is 2, so that one request fills a
piece, or spans two. The interference between a connection and the rest is per block,
and two blocks of a piece exhibit it; two peers compete for the same blocks in
`download_steady`. Two peers together with restarts and disk faults are too many
states for a run; that combination is covered, for the invariant that depends on it, by
the theorem `RequestsHeld`, for any number of peers. The pairs of faults are what the
known failures need: each takes two faults or fewer.

*Peers.* `MaxPeerListSize` 3 and `LowWatermark` 2: the list fills, makes room and
grows its array; one failure is allowed (`MaxFails`), so the second makes a peer
erasable. Four endpoints let a peer be inserted before, between and behind those of
connections. `ConnectionsLimit` 2, one dial per tick. The three frames are a body, a body with
file data behind it and a header alone; in four reads, each of them may be split
anywhere. Positions, `MaxRead` 10 and `HeaderSize` 2 are scaled down together.
One transfer, which neither finishes nor is removed.

*Upload queue.* Two clients and one slot make a full queue, two slots a free one, and the
change between them takes a slot away from clients that upload. The code has two slots
at least: the instance scales it down by one, together with the clients. A range may
be sent, refused or unreadable, so one range per client is enough.

*Exchange.* Two packets per block, so that a block may be in part on its way; two blocks in one
request. Three blocks (`RequestQueueSize`) would outlast the time-out of the sending end,
which is `FullRequestOutlastsTimeout`; time-outs of Exchange only come when nothing is on
its way, or from a client that vanished. Two clients compete for one slot, for a block
each; the faults are for one client alone, since they meet per connection: one while it
wants two blocks, two while it wants one. `Fetched` is about a client that has no
competitor: with one, a client that is kicked, told its rank and closes may be
overtaken each time it comes back.

*Kad.* One contact per bucket makes buckets fill with two; three bits in bytes of two give
a bucket whose range ends within a byte; branching by one lets a slow request widen a
traversal. Four events (calls, packets, timers; time-outs are free) reach both stages of
a search, a second search for the same target, an answer after its time-out, a contact that
changes its identifier, and a restart; an overlap comes after any of them and is the last.

*Client.* The scenarios: servers that come, go and move (three calls); a search with a
server, replaced by a second; a stop during a dial; an autosave and a stop; two changes, a
failed write, an autosave and a stop; a subscriber of either kind while a transfer comes,
changes and goes; one who waits, with an error and a stop; ports mapped with two
gateways and a stop. A scenario has what its question needs and nothing
of the others: what they have in common is the loop, which is in all. The status
loop and the events run only in the watched scenarios, as they only read what the others
change. A buffer of one event is full after one.

### What the code does not promise

`download_steady` has no disk errors and no restart: with them the code breaks `Contract`
and `Completes`, which is what the violation runs show. It has no upload that is accepted before the
hash set is known either: then a damaged piece is taken as complete, and `Contract` is broken.
For the same reason `HashesAreKnown` and `SavedIsOnDisk` are about behaviours in which no
peer has accepted an upload early; the other six properties of `download_faults` hold with it. `QueuesMatchPicker` fails after a
restart: a restored block opens a piece whose other blocks may be requested, and a
restored block may itself be requested at the time; the weaker `RequestsAreHeld` is
what remains and what is proved. `HashAfterWrites` fails after a failed write.
`WaitingIsServed` excepts that friends go first, and friends that fill the slots are never
kicked. `SearchesAnswered` excepts one of two searches for the same target. The properties of the tracker's
state, and `TraversalsEnd`, end with the first overlap of two threads in it: a request
that is lost to one leaves its traversal without an end and its search without an answer.
`FramesInOrder` ends with a read that ends within a header. `StopSaves` is for a Stop that
did not give up waiting (`late`) and whose write did not fail; `Retried` for a server that was lost
fewer than `MaxReconnects` times; `SearchEnds` for a search that the tracker took.
`SubscribersCatchUp` excepts a transfer whose last progress event was dropped, or of which
the first snapshot and `lastProgress` differ. `IdentityIsPrimarys` allows the moments
between the end of a connection and its handling, and between the two parts of a change of
identifier, in which a call may make the connection the primary before the session shows
its identity; and the identity of a connection that a
call has replaced (see the findings).

`CHECK_DEADLOCK FALSE`: a finished or removed transfer has nothing left to do; the bounds
on calls and packets end the others; `panicked` ends Peers, as it ends the process.

### Fairness

*Download* (`FairSpec`). Weak fairness of the connection handlers, of the disk callbacks
and of `EndPump`: the loop comes back to every connection and to the disk results every
100 ms. Of the disk goroutine: a task returns. Of `ReceiveBlock` with good content and of
the handshake: an assumption on the peers, without which no download ends - `Limits` lets
them fail a bounded number of times. Of `ResumeTransfer`: an assumption on the user,
since a paused transfer waits for him. No fairness of pause, removal, save, restart, lost
connections or damaged blocks.

*Upload queue.* Weak fairness of `Process`, of the turns of its loop, of the turns of
`SuspendUpload`, of time (a second, the end of a session). Strong fairness of
`OnDisconnect`: every tick visits every connection that is closing, but not while
`Process` runs, so it is enabled again and again and not continuously. None of what
clients do.

*Exchange.* As the upload queue, and strong fairness of what `PumpIO` and `SecondTick` of either
end do for a connection (`SessionVisits`, `PeerVisits`): each tick comes back to each, but
not while `Process` runs. None of the faults, of suspension, nor of the end of a session.

*Peers.* Weak fairness of the tick: the loop goes on, and every dial ends (the
system gives up one that is not answered). None of the API or of peers.

*Kad.* The line is quiet for 500 ms again and again, so that the reader gets to its tick
and no transaction stays the oldest for ever: it is answered, or it expires. Nothing is
assumed of the network. On a line that is never quiet for so long the code does not
tick at all (dht_tracker.go reads with a time-out and ticks only when it elapses).

*Client.* Weak fairness of each goroutine: dials, writes and requests to gateways end;
time passes; and the DHT keeps its promise, which `kad_lookups` checks of searches that have the
tracker to themselves. Strong fairness of
the end of the loop: its select chooses at random between the ticker and `stopCh`, and so
does not choose the ticker for ever. None of the API, of servers or of gateways' answers.

### Mutants

For each property of a passing run `PROJECT.json` names a definition and a variant of
it, kept beside it in the module, such as a disconnect that does not return its
requests; with the variant TLC finds the property violated.

### Findings

Five runs show the code contradict its documentation or its tests:

1. A piece whose blocks were all restored is never hashed, and the transfer never
   completes (`restart_stuck`, transfer.go:716).
2. A save while restores are pending overwrites the recorded progress (`progress_lost`,
   transfer.go:275).
3. After a failed write, the digest of a piece can be that of an older copy of a block
   than the one in the file (`finished_corrupt`, transfer.go:687).
4. Suspending the uploads of a file sends its clients to the waiting list, from which the
   next `Process` takes them back (`upload_suspended`, upload_queue.go:188).
5. An answer with a contact that was not greeted makes the Kad reader wait for the lock
   that it holds, for ever (`kad_reader_blocks`, dht_tracker.go:449). The other properties
   of Kad hold of behaviours up to there.

Met while modelling, without a run of their own:

- A peer that accepts an upload before it has sent the hash set is asked for blocks, and
  the pieces are taken unchecked (peer_connection.go:882 and 989, transfer.go:695): fault
  `"early"` of Download.
- Searches and the reader of the DHT use the list of transactions, the traversals and the map
  of those that run without a common lock (dht_tracker.go:178 and 569 against :191,
  kad_rpc.go:39 against 58 and 84, kad_traversal.go:230 against 333): a request may be lost
  or its answer come before it is counted, and the traversal never ends. `SearchOverlaps`.
- A file whose size is a multiple of the piece size gets a last piece of one block
  (transfer.go:61): theorem `ExactMultipleIsCut`.
- A transfer with one connection or one candidate asks every server on every tick, and the
  DHT on every second tick: the tick draws a timer near when it is further ahead than
  five or ten seconds, and the intervals are longer than that (transfer.go:653, against
  the ten seconds, half a minute and minute of transfer.go:537 and 555 and "never every
  tick" there): theorems `ServersAreAskedEveryTick`, `DHTIsAskedEveryOtherTick`.
- A read that ends within a frame's header loses these bytes, and the connection is out
  of step for good (connection.go:235; transfer_test.go:533 feeds a whole header):
  theorem `SplitHeaderIsLost`.
- An insertion into the list of peers moves the entries under the pointers of connections;
  the end of a connection then frees the wrong entry, and a peer is never connected again
  (policy.go:62, against transfer_test.go:111). `LostByShiftsOnly`, a part of
  `ListKeepsPeers`, says that nothing else loses one: as long as the entries that have a
  connection are those its pointer leads to, none keeps one that was removed. It is not enough
  that the pointer leads to an entry of the same peer: in a list of five, an erasure and an
  insertion leave two entries with one connection, of which its end frees one.
- An index may be out of range in `ErasePeers` after the last element was erased
  (policy.go:79): Peers ends in `panicked`, of which its properties say nothing.
- A write that times out after a part of its bytes leaves the whole packet at the head of
  the queue (connection.go:303). Exchange has it (`torn`): it is the one way in which data
  comes that nobody waits for, and `Fetched` shows that hashes and time-outs mend it.
- A block whose hash failed and that is requested again on the same connection is ignored:
  the sending end remembers it as sent (peer_connection.go:559). A time-out helps.
- A range that cannot be read, or an upload that is terminated, is ended without a
  packet (peer_connection.go:597, upload_queue.go:316); the client waits for its time-out.
- A full request takes 5.7 seconds to send, at one packet per tick, and the sending end
  closes a connection on which it received nothing for five (connection.go:300,
  peer_connection.go:235): theorem `FullRequestOutlastsTimeout`. The file of
  upload_test.go has two blocks; the command line sets 30 seconds (main.go:74).
- An incoming connection that has not yet named a file is in no transfer, so no `SecondTick`
  ends it (transfer.go:669).
- An upload's Seek and Read share the file offset with the disk goroutine's Seek and Write
  (piece_manager.go:80).
- Progress events: a first snapshot may overtake or be overtaken, and a dropped event is
  not sent again; the status loop's older snapshot may put `lastProgress` back, so
  that a removal goes unreported (client_progress_listener.go:90).
- The context of a port mapping ends with the discovery that it limits (both three
  seconds, upnp.go:103), so that, unless all interfaces fail, no gateway is asked:
  README.md:28 lists UPnP as done. `Discover` of PortMapping lets a discovery end in
  time, so what follows is checked nevertheless.
- A handler's error drops the remaining frames of its batch without closing the
  connection; file data for a connection without a transfer blocks it. Frames leaves
  both out.
- A call that makes a connected server the primary again (`promotePrimaryServer(existing)`,
  session.go:521) does not refresh the identity: the session goes on showing the identity of
  the connection that the call before had replaced, until the next `refreshServerIdentity`
  (session.go:588). It takes four calls; the run has three, and with a fourth its
  liveness properties take too long. The proof of `IdentityKept` met it: `ReplacedByCall` is
  the exception that the invariant makes, for any number of calls.
- Stop in another goroutine during Start leaves loops and mappings behind; Client has one
  calling thread.

## 4. The proofs

`DownloadProofs` proves, for every number of pieces, blocks and peers, every
availability and every `Limits`, from `PickerAssumption` and `DownloadAssumption`:

- `TypeCorrect`: `Spec => []TypeOK`. The strengthening `TypeInv` adds that a
  result awaits the tick only when there is a task: the callbacks take the head
  of the queue. The lemmas at the beginning of the module say that each operator maps
  pickers to pickers; `TypeNext` splits `Next` into one step per action.
- `RequestsHeld`: `Spec => []RequestsAreHeld`. Not inductive: that the last
  downloader holds the block says nothing about what happens when another
  connection aborts it. `HeldInv` adds `AbsentIsEmpty` (a connection that is gone
  has no queue) and `Held`: a block in state None has no downloaders; a requested
  block has exactly one, and the last holder has it in its queue; a block of a
  piece that is not open is None. Each operator of the picker is shown to keep
  `Held`, with the queues it is used with, and each action is a composition of
  those.

Its second part proves the invariants over the disk queue with faults, restarts and saves
at any moment: `WritesQueued`, `HashesQueued`, `RestoresCounted`, `HashesKnown` (each
`Spec => []` of the invariant of the run `download_faults` it is named after) and
`HaveKept` (`Spec => HaveNeverLost`). None is inductive. `QueueInv` is `HeldInv` with

- `Tidy`: only a piece that is being downloaded is in the queue of the picker, and a
  block that is being written has no downloader, so that closing a connection does not
  take it back;
- `RestoresFirst`: the restores are a prefix of the queue, since only a new process
  submits them, so that the head says how many are left;
- `HashTasksOf`, `PiecesMatch`: hash tasks and pending hashes are the same pieces, each
  once, and these are open; a block that is Writing has a write in the queue, and the
  task that leaves the queue is the one whose callback moves its block on;
- `SavedInv`, `HashSetFirst`: what a save writes keeps this when a new process loads it.

The lemmas `QueueAppend` and `QueueTail` say what the two changes of the queue keep;
`CoreNext` has one step per action, and says that only a restart and a hash result
change the complete pieces.

`DiskProofs` proves `SavedStored` (`Spec => []SavedIsOnDisk`), for writes that fail and
processes that end between any two steps. What is claimed is traced back to the disk:
a save copies what the picker claims; the picker claims what a callback reported; a
callback reports a write that was done, or a piece whose blocks were all in the digest;
and the digest only takes what was written before. `OnDisk` is this chain. It breaks where a
piece is taken without a hash set, so the invariant has it while no upload was accepted early;
`HashSetFirst` likewise, for `HashesKnown`.

For a process that is not interrupted and whose disk works and whose peers keep to the order of the protocol (`Steady`: the limits of "io",
"restart" and "early" are zero, those of damaged blocks, lost connections, pauses, saves and the
removal are any) it proves `QueuesMatch` (`[]QueuesMatchPicker`), `HashesLast`
(`[]HashAfterWrites`) and `ContractKept` (`Spec => Contract`): Download implements
FileTransfer. All three conditions are needed: the runs `finished_corrupt` and
`progress_lost` show what a failed write and a restart do, and with an upload accepted
early a damaged piece is taken unchecked. `SteadyInv` is `QueueInv` with

- `StepInv`: queues and picker agree; a block with a write in the queue is Writing, each
  has one write, and no write of a piece is behind its hash (`Orderly`); the blocks of a
  piece that waits for its hash have arrived. A block that arrives was requested, so it
  neither has a write in the queue nor is its piece waiting: this keeps the order;
- `StoreInv`: a block manager holds a block from its write to the hash of the piece, and
  holds what the file holds; a result of a hash that was right is about a piece that is right
  in the file; so are the complete pieces, until the removal.

`ContractNext` maps each step: a right hash to `Complete`, a removal to `Remove`, a wrong
hash to a stutter, any other step to `Fetch`, or `Dispose` after the removal, which let the
file change wherever no complete piece is.

`PeersProofs` proves, from `FramesAssumption` (frames begin one behind the other, none
shorter than its header and body) and for any cut into reads:

- `FramesAreInOrder`: `Spec => []FramesInOrder` for the Spec of Peers. `FramesInOrder`
  says what was decoded last and where file data goes; a step that decodes needs to know
  that the decoded frames were handled, so `StreamInv` adds what each step of
  `PumpIO` leaves: nothing decoded between two turns, no frame decoded while file data is
  expected, and only the last frame of a batch has file data behind it. Each step of
  Frames keeps it; `StreamsInv` states it of each connection, and every action of Peers
  takes a connection through a step of Frames, makes it new, or leaves it.
- `SplitHeaderIsLost`: the exception that `FramesInOrder` makes is what the code does.
- `ConnectionListsAgree`: `Spec => []ListsAgree`, for any number of peers and connections.
  `ListsInv` adds that a connection in the list of the transfer has it as its transfer, and
  that a connection is left unused for a candidate that was found, whose dial takes the least
  such (there is a least one by the well-founded order of Nat).
- `PeerListIsSorted` (`Spec => []TypeOK`) and `PeersAreKept` (`Spec => ListKeepsPeers`), for
  any number of peers and connections and any size of the list, from
  `PeerPolicyAssumption` and `PeersAssumption`: resume data has endpoints in ascending order, no
  more than the list may hold, as what was written from such a list does. Neither is inductive.
  `PolicyInv` is `ListOK` of the list (`Shaped`: its arrays, and its length within the one that is
  live; `Sorted`), a connection that is well-formed (`ConnOK`: only one that has its transfer has
  a pointer), a tick that is (`TickOK`: it has a pointer from the choice of a candidate to the
  end of the dial), and pointers that are nil or lead to an element of an array (`Holds`),
  which need not be the one they were made for. `ListKeepsPeers` needs `ListsInv` as well: what
  ends a connection is in the lists of the session. For each operator of PeerPolicy there
  is a lemma on what it keeps of the shape and the order, where it moves entries
  (`Goes`: each entry of the old list that is of use is in the new one, and what has a connection
  in the new one had it in the old), and one for each iteration of `ErasePeers`; for each action
  of Peers, a lemma that cites them.

The first part of `ExchangeProofs` proves, for any clients, friends, files and numbers of slots that
`UploadAssumption` allows, `UploadTypeCorrect` (`Spec => []TypeOK`), `QueueAgreement`
(`Spec => []QueueAgrees`) and `QueueIsPool` (`Spec => Pool`, the refinement of SlotPool).
The inductive invariant is `TypeOK /\ Sound(q) /\ Connections`. `Sound` speaks of the record
that the helpers of upload_queue.go map: the lists are disjoint and without repetition, a
client is in the one its upload state names, who does not wait has no rank, and who
has no slot has no requests. `Connections` adds that a client that asked for a file is
connected. A helper is shown to keep `Sound`, and to be one of the ways in which a client
may move (`Leaves`, `Requeues`, `StartsDirectly`, `StartsAtOnce`, `Enqueues`); in between, a client may be
`Aside`, in neither list. A handler is a composition of helpers, and each move is a step of
SlotPool, or a stutter. Nothing of the order by `UploadScore` is needed but that it is an order
of the same clients, so the three theorems hold for any.

Its second part proves `AwaitedPartsOnly` (`ExchangeSpec => []PartsAreAwaited`) and
`UnansweredExplained` (`ExchangeSpec => []UnansweredIsExplained`) for any clients, ranges,
packets per range, scenarios and faults. Besides `UploadAssumption` they need `ExchangeAssumption`: a
request and a range are not empty, and a scenario says which ranges a client wants. Neither is
inductive. `ExInv` is the invariant of the queue with `Talking(c)` for each client: if both ends
reach each other and no write was torn, what one of them has, what the other has of it
(`Side`: requests, memory, place in the lists) and the packets between them, each way in one
sequence (`All`), are `Linked`:

- `Orderly`: until a client has a slot there is one packet at a time, question or answer, and
  the session has nothing of it; then there is one request at a time, which is for the blocks
  the client waits for, and only while nothing is asked for; who waits for a slot has a
  refusal on its way.
- `Staged`: a block that is waited for is in the request, or asked for, or on its way, in
  one of these places; what has come and what is on its way are a range at most; what the
  session remembers as sent and the client wants still is on its way, but for a block
  whose hash failed. This memory is the reason that data is not sent twice.

A call of SuspendUpload that has yet to look at a client is part of `Linked` too: it may send
`QueueRanking` at any time, but not to a client that still greets, since its loop has those who
were in a slot when it began, each once, and loses them with their connection (`LoopOK`). The steps of the client and of the network are lemmas about
`Linked` alone. Those of the session are: `Turn` says what a step of the queue may do to a
client it sends nothing or a refusal or a slot to, the lemmas of the first part and
`Remembers` (the helpers that move a client keep the requests of all) that each does no more, and
to one client only.

`ClientProofs` proves the safety properties of `client_races`, for any servers, connections,
transfers, gateways and `Budgets`, from `ClientAssumption` and those of the modules it
composes: `ClientTypeCorrect` (`Spec => []TypeOK`), `IdentityKept` (`[]IdentityIsPrimarys`),
`StopLeavesState` (`[]StopSaves`) and `GatewaysTold` (`[]MappingsAreOwned`). The inductive
invariant `IInv` has parts for the threads and for the record of each component:

- `Placed`: a thread is at one of its places, and has in hand what belongs there.
- `ServersPlaced`: the session and the threads only have connections that exist;
  who dials has not shaken hands; a connection that closed after its handshake is in no field of the
  session, but for the one that the loop is about to take out of them (`IdentitySound`). While
  there is none such, and the loop is not between the two parts of a change of identifier, the
  identity is that of the primary, or of one that a call replaced; in between, if
  the session shows none, the connection that has just shaken hands is the only one that has (`Shaking`). And there
  are not more connections than somebody has (`Bounded`), so that a new one is
  free (`FreshIsFree`): the model must be given two keys for each server and a few for the
  threads, which `ClientAssumption` says.
- `FilesSound`, `FilesPlaced`: an inode exists as long as somebody has it, and a saver has
  one open from `OpenTemporary` to the end of its write. When Stop saves after a loop that ended in
  time, nobody else writes: it has the version of the client in hand, then in the temporary file, then in
  the state file. What two savers did to the shared temporary file before does not matter, nor
  which of their files a failed rename removed.
- `PortsSound`, `PortsPlaced`: each of at most two managers is current, being stopped, or done;
  what a gateway has mapped is known to one of them or `astray`, and what one knows is mapped.
- `WatchSound`, `SearchPlaced`: types that the actions of the status loop and of a search
  need, such as buffers within their bound.

There is one lemma per operator of a component, and per action a step that cites it. In
`Bounded`, connections are counted with the facts of FiniteSetTheorems; the key of a new connection is
the least that is free, by the well-founded order of Nat.

`AlgorithmProofs` is about Ranges, SearchResults and SourceTimers. Of Ranges it proves,
with the code's own sizes, for files of any size, that blocks are
disjoint and contain their bytes (`BlockContains`, `BlocksAreDisjoint`), are written where
they belong (`WrittenWhereItBelongs`), that data within a block names it and fits
its buffer (`ReceivedDataFits`), that each block is requested unless the size is an exact multiple
(`EveryBlockIsRequested`, `ExactMultipleIsCut`), and that requests and packets tile the
range they are for (`RequestsTile`, `PacketsTile`, `OffsetsFitPackets`), and that exactly
a full request takes longer to send than the sending end waits for a packet
(`FullRequestOutlastsTimeout`, with the default settings). The state machines
have pieces of a few blocks; these theorems are why that is no loss.

Of SearchResults it proves, for any entries and filters, that what is shown passes the
filters though these are not applied after a merge (`MergePassesFilters`,
`ShownPassesFilters`), that it stays while answers come (`ShownStays`), that an entry that
comes twice changes nothing (`TwiceIsOnce`), that counts and senders do not depend on
the order of answers (`CountsCommute`, `MergeIsAssociative`), and that the order of a
snapshot is one that sort.Slice may be given (`OrderIsWeak`).

Of SourceTimers it proves that the two timers stay within a minute and two of the last
tick or request (`TimersStayNear`), hence that a transfer that needs sources never stops
asking (`AsksInTime`), with the shorter times of a transfer with few peers
(`StarvingAsksSoon`); and which intervals are kept and which not (`IntervalsAreKept`,
`ServersAreAskedEveryTick`, `DHTIsAskedEveryOtherTick`).

`KadProofs`, with `KadTableProofs` about the table, proves the safety properties of
`kad_lookups`, for any addresses, number of bits, sizes of buckets and answers, any number of
searches, and packets that come late, twice or from anyone: `Typed` (`Spec => []TypeOK`),
`Bounds` (`[]TableBounded`), `Counts` (`[]CountsMatch`), `Answers` (`[]SearchesAnswered`) and
`RestartKeeps` (`Spec => RestartKeepsContacts`). The constants are assumed to be what the code
has: identifiers of some bits, buckets of some size, finitely many addresses
(`TableAssumption`), a branching factor, an identifier that can be drawn
(`TraversalAssumption`), and, of saved contacts, that one without an identifier shares its
address with no other (`SavedContacts`), which the invariant shows of every tracker that is
saved. All follow from one inductive invariant, `KadInv`, of a tracker in which no two threads have been at once
(`AloneInv` is `~overlapped => KadInv`, theorem `Inv`): every step of `Alone` keeps it, and an overlap ends
the claim. `RestartKeeps` needs no such condition, since after an overlap nothing moves:

- `TableInv`: the map leads to contacts that exist and has the address of each; a bucket has no
  contact twice, and only such as have an identifier, which they never lose, though they
  may change it while they stand there; a contact without one is that of its address in the
  map, and alone. The last is what a restart needs: of two contacts with one address one
  disappears from the map, and it must not be the one that leaves the bucket empty.
- `Linked`: each observer that is waited for has one transaction, and each transaction
  of a traversal is that of an observer which is waited for. With `CountOK` (what is out is
  the number of such observers, the branch factor the number of slow ones among them) this gives
  `CountsMatch`, whatever is answered twice or after its time-out.
- `SearchOK`: a traversal of a search has its number, no two the same; a search that
  is neither under way nor answered has a rival.

None of this holds between the steps of a handler: an answer takes its transaction, adds what
it tells, then lets the traversal go on; a time-out gives up all that is old first, then tells
the observers one by one. `TrackerInv(w, P, B, M, A, up)` is the invariant of such a state: P are
the observers whose transaction is taken already, B the traversals that may have nothing
out, M the searches that may have neither traversal nor answer. Each operator has a lemma
that says how it changes these sets, and after each action they are empty.

Of the identifiers `KadTableProofs` proves that each has one bucket (`BucketOfIdentifier`), that
what is drawn for a bucket belongs to it, also where its range ends within a byte
(`DrawnBelongs`), and that of two one is closer to a target (`OneIsCloser`).

*Loops.* A loop over a list is a recursive function of its number of turns (`After`, `ErasePeers`,
`Restore`). The induction theorems of the library take a predicate as a parameter, which the
provers cannot instantiate; so the proofs of such loops go by the set of turns up to which a claim
holds (`UpTo`: a set that has 0 and with i also i + 1 has all of 0..n, by the well-founded
order of Nat). A lemma per loop (`FoldUnknown` to `FoldTraverse`, `FoldErase`, `FoldRestore`) says that
there is a sequence of states, from the first to what the loop returns, each a turn after the one
before; what a turn preserves then holds at the end.

Model-checked only: liveness, which the prover does not treat, nor ENABLED (`Completes`,
`WaitingIsServed`, `SlotsReturn`, `Fetched`, `ClosedAreRemoved`, `TraversalsEnd`, and `Retried`,
`SearchEnds`, `ChangesAreSaved`, `SubscribersCatchUp` and `WaitReturns` of the client). Every safety
property of a passing run is a theorem. RECURSIVE operators are out of the prover's reach, which
is why the run of blocks that `RegisterBlock` hashes is a set (`RunFrom`), and why `RequestsTile`
and `PacketsTile` speak of each element of a function.

## 5. What is abstracted or left out

- The end game (several peers for one block). It is entered only for a peer that is
  faster than slow; connection.go:71 counts every byte received as protocol bytes,
  none as payload, so `Speed` (peer_connection.go:959) is always slow. The
  operators keep the speed and the number of downloaders.
- Download lets any absent peer connect, which is more than the policy does; Peers has the
  policy, and of a transfer nothing but its connections.
- Partial blocks: in Download a block arrives as a whole, with its last byte; compressed
  parts and skipped data are not distinguished. A block requested on a closed
  connection may still arrive while `pumping` holds, which is more than the socket allows.
- A write is one step. The offset it shares with upload reads (piece_manager.go:80)
  is not modelled: what a torn pair of Seek and Write leaves depends on the file system.
- A snapshot for the state file, or for an event, is taken in one step. The code reads the
  picker, and the map of transfers one at a time, without a lock shared with the tick.
- A crash ends the process, not the machine: what was written is in the file.
- The upload queue is not composed with Download, nor Peers with either: they share the
  connection and its `OnDisconnect`, which clears all sides, and no other state.
- Writes that are cut without a time-out: Go's sockets write all or report an error.
- Exchange has one connection of a client at a time and no count of failures: a client
  dials again for ever, where the policy gives up after some (`MaxFails` in Peers).
- Kad: requests of other nodes that change nothing; the firewalled flag, which cannot
  become false; times, of which the clock's choice remains; nodes.dat as a set of contacts.
- Servers: pings (`ServerPingTimeout` is zero and nobody sets it) and packets that only send.
- One thread calls the API of Client; a subscriber, a waiter and the others run beside it.
- In Peers the unlocked reads of the list meet a whole list; in UploadQueue calls of
  the API, which takes no lock, come between the operations of the tick.
- Statistics, the arithmetic of credits, packets and their formats, links, the keyword of
  a query, the terminal interface, the messages of UPnP.

## 6. Plan

1. `FileAccess`: seek/read and seek/write of two goroutines on one file.
2. Download with the policy of Peers in place of "any absent peer", and removal with the
   state file (a process that ends between a removal and the next save).
3. Exchange with durations, so that its time-outs race answers (connection.go:300).
4. Two transfers in Peers: a connection that asks for another file (transfer.go:230).
5. Abstract specifications of Kad (a search is answered once) and of the client's state
   file (the last saved version), with refinements in place of the properties.
