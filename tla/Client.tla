------------------------------- MODULE Client -------------------------------
(***************************************************************************)
(* The client: its loop (client.go, the tick of session.go), a thread of   *)
(* the program that calls the API, and the reader of the DHT, over the     *)
(* server connections (Servers), the active search (Search), the state     *)
(* file (StateFile), the subscribers (Listeners) with the loop that feeds  *)
(* them, and the port mapping (PortMapping) with its goroutine. Transfers, *)
(* peers and uploads are in other modules: of the tick this one has the    *)
(* server part, the searches and the autosave.                             *)
(*                                                                         *)
(* A step is what happens under one lock, or between two of them; a dial   *)
(* and a write take time, and the other thread may run meanwhile.          *)
(***************************************************************************)
EXTENDS Servers, Search, StateFile, Listeners, PortMapping, SequencesExt

CONSTANT
  Budgets      \* bound: how many calls of the API of each kind, search results
               \* of servers, and writes that fail, a behaviour may have; and
               \* whether there is a state store (store = 1) and autoSaveTick is
               \* set (autosaves = 1), the program watches its transfers (watch
               \* = 1), and EnableUPnP is set (upnp = 1)

BudgetKinds ==
  {"start", "connect", "search", "answer", "store", "change", "fault", "stop", "autosaves",
   "watch", "transfer", "subscribe", "wait", "upnp"}

ASSUME ClientAssumption ==
  /\ IsFiniteSet(Servers) /\ IsFiniteSet(Conns)
  /\ Cardinality(Conns) >= 2 * Cardinality(Servers) + 5
  /\ Writers = {"loop", "api"}
  /\ Budgets \subseteq [BudgetKinds -> Nat]

VARIABLES
  srv,      \* the server connections of the session
  search,   \* its active search, or NoSearch
  files,    \* the state file and those who write it
  loop,     \* where the loop is, and what it works on
  api,      \* where the calling thread is, and what it works on
  life,     \* startOnce and closeOnce, stopCh, and whether Stop gave up waiting
  version,  \* of the state that a save records
  saveDue,  \* autoSaveTick has passed since the last autosave
  transfers,\* what a snapshot of the transfers has
  watch,    \* subscribers, statusLoop, and a goroutine that is in Wait
  ports,    \* the port mapping
  left      \* what is left of the budget
aside == <<transfers, watch, ports>>
vars == <<srv, search, files, loop, api, life, version, saveDue, transfers, watch, ports, left>>

Saving == {"snapshot", "open", "write", "rename", "remove"}
LoopPlaces == {"off", "idle", "pump", "serving", "shaken", "served", "servers", "candidate",
               "create", "dialing", "done"} \cup Saving
ApiPlaces == {"idle", "dialing", "ask", "askDHT", "keywords", "disconnect", "wait",
              "stopped", "tracker", "unmap", "delete", "status", "progress"} \cup Saving
Packets == {"nothing", "closed", "id", "result"}

IdleLoop == [at |-> "idle", todo |-> << >>, packet |-> "nothing", servers |-> {},
             server |-> NoConn, conn |-> NoConn]
IdleApi == [at |-> "idle", conn |-> NoConn, sent |-> FALSE, scope |-> {},
            stops |-> FALSE, failed |-> FALSE, emits |-> "no", seen |-> NoTransfers,
            after |-> "nothing"]

Init ==
  /\ srv = NewServers /\ search = NoSearch /\ files = NewFiles
  /\ loop = [IdleLoop EXCEPT !.at = "off"] /\ api = IdleApi
  /\ life = [run |-> "new", stopping |-> FALSE, late |-> FALSE]
  /\ version = 0 /\ saveDue = FALSE
  /\ transfers = NoTransfers /\ ports = NewPorts
  /\ watch = [events |-> NewListeners, at |-> "off", seen |-> NoTransfers, waiter |-> "none"]
  /\ left \in Budgets

\* The next value of srv: v, without what neither thread has any more.
Becomes(v) == srv' = Kept(v, Range(loop'.todo) \cup {loop'.conn, api'.conn})
Use(what) == left[what] > 0 /\ left' = [left EXCEPT ![what] = @ - 1]
----------------------------------------------------------------------------
\* The loop

\* The timer is ready, and SecondTick begins with PumpIO. When stopCh is closed
\* too, select takes either.
Tick ==
  /\ loop.at = "idle"
  /\ \E order \in SetToSeqs(Active(srv)) :
       /\ srv.primary # NoConn => order[1] = srv.primary
       /\ loop' = [loop EXCEPT !.at = "pump", !.todo = order]
  /\ UNCHANGED <<srv, search, files, api, life, version, saveDue, left, aside>>

LoopEnds ==
  /\ loop.at = "idle" /\ life.stopping
  /\ loop' = [loop EXCEPT !.at = "done"]
  /\ UNCHANGED <<srv, search, files, api, life, version, saveDue, left, aside>>

\* A connection that was closed since its last turn.
PumpClosed ==
  /\ loop.at = "pump" /\ loop.todo # << >> /\ Disconnecting(srv, Head(loop.todo))
  /\ loop' = [loop EXCEPT !.todo = Tail(@)]
  /\ UNCHANGED <<search, files, api, life, version, saveDue, left, aside>>
  /\ \E v \in OnServerConnectionClosed(srv, Head(loop.todo)) : Becomes(v)

\* FlushOutgoing and DoRead; the packet is processed in the next step.
Serve(packet) ==
  /\ loop.at = "pump" /\ loop.todo # << >>
  /\ LET c == Head(loop.todo) IN
     /\ ~Disconnecting(srv, c)
     /\ packet # "nothing" => srv.conn[c].socket = "open"
     /\ loop' = IF packet = "nothing" THEN [loop EXCEPT !.todo = Tail(@)]
                ELSE [loop EXCEPT !.at = IF packet = "closed" THEN "served" ELSE "serving",
                                  !.packet = packet]
     /\ UNCHANGED <<search, files, api, life, version, saveDue, aside>>
     /\ IF packet = "result" THEN Use("answer") ELSE UNCHANGED left
     /\ Becomes(IF packet = "closed" THEN Close(srv, c, TRUE) ELSE srv)

ProcessIncoming ==
  /\ loop.at = "serving"
  /\ loop' = [loop EXCEPT !.at = IF loop.packet = "id" THEN "shaken" ELSE "served"]
  /\ search' = IF loop.packet = "result" THEN OnServerSearchResult(search) ELSE search
  /\ UNCHANGED <<files, api, life, version, saveDue, left, aside>>
  /\ Becomes(IF loop.packet = "id" THEN HandshakeCompleted(srv, Head(loop.todo)) ELSE srv)

\* The session takes the identifier in. Calls may come before it does.
TakeIdentity ==
  /\ loop.at = "shaken"
  /\ loop' = [loop EXCEPT !.at = "served"]
  /\ UNCHANGED <<search, files, api, life, version, saveDue, left, aside>>
  /\ Becomes(OnServerIDChange(srv, Head(loop.todo)))

EndServe ==
  /\ loop.at = "served"
  /\ loop' = [loop EXCEPT !.at = "pump", !.todo = Tail(@), !.packet = "nothing"]
  /\ UNCHANGED <<search, files, api, life, version, saveDue, left, aside>>
  /\ \E v \in IF Disconnecting(srv, Head(loop.todo))
              THEN OnServerConnectionClosed(srv, Head(loop.todo)) ELSE {srv} : Becomes(v)

\* connectConfiguredServers: a copy of the configured servers, in any order
EndPump ==
  /\ loop.at = "pump" /\ loop.todo = << >>
  /\ loop' = [loop EXCEPT !.at = "servers", !.servers = srv.configured]
  /\ UNCHANGED <<srv, search, files, api, life, version, saveDue, left, aside>>

Live(v, s) == v.entry[s] # NoConn /\ ~Disconnecting(v, v.entry[s])

LookUp(s) ==
  /\ loop.at = "servers" /\ s \in loop.servers
  /\ loop' = [loop EXCEPT !.at = IF Live(srv, s) THEN "servers" ELSE "candidate",
                          !.server = IF Live(srv, s) THEN @ ELSE s,
                          !.servers = @ \ {s}]
  /\ UNCHANGED <<srv, search, files, api, life, version, saveDue, left, aside>>

GetConnectCandidate ==
  /\ loop.at = "candidate"
  /\ loop' = IF srv.policy[loop.server].due = "now" THEN [loop EXCEPT !.at = "create"]
             ELSE [loop EXCEPT !.at = "servers", !.server = NoConn]
  /\ UNCHANGED <<srv, search, files, api, life, version, saveDue, left, aside>>

CreateConnection ==
  /\ loop.at = "create"
  /\ loop' = [loop EXCEPT !.at = "dialing", !.server = NoConn, !.conn = Fresh(srv)]
  /\ UNCHANGED <<search, files, api, life, version, saveDue, left, aside>>
  /\ Becomes(Create(srv, loop.server))

LoopDialEnds(ok) ==
  /\ loop.at = "dialing"
  /\ loop' = [loop EXCEPT !.at = "servers", !.conn = NoConn]
  /\ UNCHANGED <<search, files, api, life, version, saveDue, left, aside>>
  /\ Becomes(Dialed(srv, loop.conn, ok))

tickSearches == search' = onTick(search)

\* Mutant: the autosave is left out when nothing has changed since the last.
EndTickClean ==
  /\ loop.at = "servers" /\ loop.servers = {}
  /\ tickSearches
  /\ LET changed == files.path = NoFile \/ files.taken["loop"] # version IN
     loop' = [loop EXCEPT !.at = IF saveDue /\ changed THEN "snapshot" ELSE "idle"]
  /\ UNCHANGED <<srv, files, api, life, version, saveDue, left, aside>>

\* The searches, the end of the tick, and the autosave if it is due
EndTick ==
  /\ loop.at = "servers" /\ loop.servers = {}
  /\ tickSearches
  /\ loop' = [loop EXCEPT !.at = IF saveDue THEN "snapshot" ELSE "idle"]
  /\ UNCHANGED <<srv, files, api, life, version, saveDue, left, aside>>
----------------------------------------------------------------------------
\* SaveState, by the loop or by the calling thread. w is "loop" or "api", at
\* its place; Goes moves it on, and Saved ends the call.
At(w) == IF w = "loop" THEN loop.at ELSE api.at
Goes(w, at) ==
  IF w = "loop" THEN loop' = [loop EXCEPT !.at = at] /\ UNCHANGED api
  ELSE api' = [api EXCEPT !.at = at] /\ UNCHANGED loop
\* What a call tells subscribers of when its save has failed: a transfer that
\* was added (AddLink, AddTransfer), and no other change.
Emits(ok) == api.emits = "always" \/ (api.emits = "saved" /\ ok)

\* emitStatusUpdate begins: it has built its snapshot.
Emitting == [IdleApi EXCEPT !.at = "status", !.seen = transfers]
Saved(w, ok) ==
  IF w = "loop"
  THEN loop' = [loop EXCEPT !.at = "idle"] /\ saveDue' = FALSE /\ UNCHANGED api
  ELSE /\ api' = IF Emits(ok) THEN Emitting
                 ELSE [IdleApi EXCEPT !.at = IF api.stops THEN "stopped" ELSE "idle",
                                      !.stops = api.stops, !.failed = ~ok]
       /\ UNCHANGED <<loop, saveDue>>

snapshotState(w) ==
  /\ At(w) = "snapshot"
  /\ files' = [files EXCEPT !.taken[w] = version] /\ Goes(w, "open")
  /\ UNCHANGED <<srv, search, life, version, saveDue, left, aside>>

OpenTemporary(w) ==
  /\ At(w) = "open"
  /\ files' = Open(files, w) /\ Goes(w, "write")
  /\ UNCHANGED <<srv, search, life, version, saveDue, left, aside>>

WriteTemporary(w) ==
  /\ At(w) = "write"
  /\ \E bytes \in Written(files, w) : files' = Write(files, w, bytes)
  /\ Goes(w, "rename")
  /\ UNCHANGED <<srv, search, life, version, saveDue, left, aside>>

WriteFails(w) ==
  /\ At(w) = "write" 
  /\ files' = Write(files, w, Torn) /\ Saved(w, FALSE) /\ Use("fault")
  /\ UNCHANGED <<srv, search, life, version, aside>>

RenameTemporary(w) ==
  /\ At(w) = "rename" /\ files.tmp # NoFile
  /\ files' = Rename(files) /\ Saved(w, TRUE)
  /\ UNCHANGED <<srv, search, life, version, left, aside>>

\* The other writer has taken the file away, or the system refuses. Until the
\* name is removed, the other writer may put a file of its own there.
RenameFails(w) ==
  /\ At(w) = "rename"
  /\ Goes(w, "remove")
  /\ IF files.tmp = NoFile THEN UNCHANGED left ELSE Use("fault")
  /\ UNCHANGED <<srv, search, files, life, version, saveDue, aside>>

RemoveTemporary(w) ==
  /\ At(w) = "remove"
  /\ files' = Unlink(files) /\ Saved(w, FALSE)
  /\ UNCHANGED <<srv, search, life, version, left, aside>>
----------------------------------------------------------------------------
\* The API, called by one thread

Calls(kind) == api.at = "idle" /\ Use(kind)
Watched == left.watch = 1
Stored == left.store = 1

\* Start without EnableUPnP, or when Listen fails: it succeeds as a whole, or
\* not; either uses up startOnce. Both loops begin, and subscribers are told.
Started(ok) ==
  /\ life' = [life EXCEPT !.run = IF ok THEN "running" ELSE "failed"]
  /\ loop' = IF ok THEN [loop EXCEPT !.at = "idle"] ELSE loop
  /\ watch' = IF ok /\ Watched THEN [watch EXCEPT !.at = "idle"] ELSE watch
  /\ api' = IF ok /\ Watched THEN Emitting ELSE IdleApi

Start(ok) ==
  /\ Calls("start") /\ life.run = "new" /\ (ok => left.upnp = 0)
  /\ Started(ok)
  /\ UNCHANGED <<srv, search, files, version, saveDue, transfers, ports>>

\* Start with EnableUPnP: Listen begins the mapping. With a tracker, it ends
\* it again and begins another, for the port the tracker has got.
Listen(udp) ==
  /\ Calls("start") /\ life.run = "new" /\ left.upnp = 1
  /\ ports' = startUPnPMapping(ports, udp)
  /\ api' = [api EXCEPT !.at = "tracker"]
  /\ UNCHANGED <<srv, search, files, loop, life, version, saveDue, transfers, watch>>

StartWithoutTracker ==
  /\ api.at = "tracker"
  /\ Started(TRUE)
  /\ UNCHANGED <<srv, search, files, version, saveDue, transfers, ports, left>>

\* stopUPnPMapping, up to its wait: by RefreshUPnPMapping, or by CloseListener
\* of a Start that fails
StartTracker(ok) ==
  /\ api.at = "tracker"
  /\ ports' = Cancelled(ports)
  /\ api' = [api EXCEPT !.at = "unmap", !.after = IF ok THEN "refresh" ELSE "fail"]
  /\ UNCHANGED <<srv, search, files, loop, life, version, saveDue, transfers, watch, left>>

EndUnmapWait ==
  /\ api.at = "unmap" /\ (Stopped(ports) \/ MapperDone(ports))
  /\ api' = [api EXCEPT !.at = "delete"]
  /\ UNCHANGED <<srv, search, files, loop, life, version, saveDue, aside, left>>

Delete(ok) ==
  /\ api.at = "delete" /\ ~Stopped(ports)
  /\ \E mapping \in Undeleted(ports) : ports' = DeletePortMapping(ports, mapping, ok)
  /\ UNCHANGED <<srv, search, files, loop, api, life, version, saveDue, transfers, watch, left>>

EndUnmap ==
  /\ api.at = "delete" /\ (Stopped(ports) \/ Undeleted(ports) = {})
  /\ \/ /\ api.after = "refresh"
        /\ ports' = startUPnPMapping(Closed(ports), TRUE) /\ Started(TRUE)
     \/ /\ api.after = "fail"
        /\ ports' = Closed(ports) /\ Started(FALSE)
     \/ /\ api.after \notin {"refresh", "fail"}
        /\ ports' = Closed(ports) /\ api' = [api EXCEPT !.at = api.after, !.after = "nothing"]
        /\ UNCHANGED <<loop, life, watch>>
  /\ UNCHANGED <<srv, search, files, version, saveDue, transfers, left>>

ConnectTo(s, moved) ==
  /\ Calls("connect")
  /\ LET v == Wanted(srv, s) IN
     /\ api' = IF Reused(v, s, moved) THEN api
               ELSE [api EXCEPT !.at = "dialing", !.conn = Fresh(v)]
     /\ UNCHANGED <<search, files, loop, life, version, saveDue, aside>>
     /\ Becomes(IF Reused(v, s, moved) THEN Promote(v, v.entry[s])
                ELSE Create(Replaced(v, s), s))

ApiDialEnds(ok) ==
  /\ api.at = "dialing"
  /\ api' = IdleApi
  /\ UNCHANGED <<search, files, loop, life, version, saveDue, left, aside>>
  /\ Becomes(Dialed(srv, api.conn, ok))

\* StartSearch: the new task is active before it is busy.
StartSearch(scope) ==
  /\ Calls("search") /\ ~Running(search)
  /\ search' = newSearchTask
  /\ api' = [api EXCEPT !.at = "ask", !.scope = scope]
  /\ UNCHANGED <<srv, files, loop, life, version, saveDue, aside>>

sendSearchRequest ==
  /\ api.at = "ask"
  /\ LET sent == "server" \in api.scope /\ \E c \in Active(srv) : Shaken(srv, c) IN
     /\ search' = IF sent THEN ServersAsked(search) ELSE search
     /\ api' = [api EXCEPT !.at = "askDHT", !.sent = sent]
  /\ UNCHANGED <<srv, files, loop, life, version, saveDue, left, aside>>

\* startDHTSearch, if there is a tracker and a keyword
startDHTSearch(usable) ==
  /\ api.at = "askDHT"
  /\ IF usable /\ "dht" \in api.scope
     THEN search' = DHTAsked(search) /\ api' = [api EXCEPT !.at = "keywords"]
     ELSE search' = (IF api.sent THEN search ELSE fail(search)) /\ api' = IdleApi
  /\ UNCHANGED <<srv, files, loop, life, version, saveDue, left, aside>>

\* SearchKeywords takes the search or, with one for this target running or no
\* socket, refuses it.
SearchKeywords(taken) ==
  /\ api.at = "keywords"
  /\ search' = (IF taken THEN Accepted(search)
                ELSE IF api.sent THEN search ELSE fail(search))
  /\ api' = IdleApi
  /\ UNCHANGED <<srv, files, loop, life, version, saveDue, left, aside>>

StopSearch ==
  /\ Calls("search") /\ search # NoSearch
  /\ search' = NoSearch
  /\ UNCHANGED <<srv, files, loop, api, life, version, saveDue, aside>>

\* A call that changes what a save records, and saves it: SetFriendSlot,
\* SetTransferUploadPriority, SuspendUpload and so on.
Change ==
  /\ Calls("change") /\ version < MaxVersion /\ Stored
  /\ version' = version + 1
  /\ api' = [api EXCEPT !.at = "snapshot"]
  /\ UNCHANGED <<srv, search, files, loop, life, saveDue, aside>>

\* AddLink or AddTransfer, PauseTransfer, ResumeTransfer, RemoveTransfer: they
\* save, and then tell subscribers.
ChangeTransfer(t, state) ==
  /\ Calls("transfer") /\ version < MaxVersion
  /\ <<transfers[t], state>> \in {<<"absent", "running">>, <<"running", "paused">>,
                                 <<"paused", "running">>}
     \/ (state = "absent" /\ transfers[t] # "absent")
  /\ transfers' = [transfers EXCEPT ![t] = state]
  /\ version' = version + 1
  /\ api' = IF Stored
            THEN [api EXCEPT !.at = "snapshot",
                             !.emits = IF transfers[t] = "absent" THEN "always" ELSE "saved"]
            ELSE [IdleApi EXCEPT !.at = "status", !.seen = transfers']
  /\ UNCHANGED <<srv, search, files, loop, life, saveDue, watch, ports>>

\* emitStatusUpdate and emitTransferProgressUpdate(true): each builds its
\* snapshot first, and sends it under a lock after that. Nothing that others
\* do between the sending of the one and the building of the other concerns
\* both, so they are one step.
SendStatus ==
  /\ api.at = "status"
  /\ watch' = [watch EXCEPT !.events = emitStatusUpdate(@, api.seen)]
  /\ api' = [api EXCEPT !.at = "progress", !.seen = transfers]
  /\ UNCHANGED <<srv, search, files, loop, life, version, saveDue, transfers, ports, left>>

SendProgress ==
  /\ api.at = "progress"
  /\ watch' = [watch EXCEPT !.events = emitTransferProgressUpdate(@, api.seen, TRUE)]
  /\ api' = IdleApi
  /\ UNCHANGED <<srv, search, files, loop, life, version, saveDue, transfers, ports, left>>

\* Stop: stopCh and the tracker are closed, then the servers are left, then it
\* waits two seconds for the loop, and saves.
Stop ==
  /\ Calls("stop")
  /\ life' = [life EXCEPT !.stopping = life.run = "running"]
  /\ api' = [api EXCEPT !.at = "disconnect", !.stops = TRUE]
  /\ UNCHANGED <<srv, search, files, loop, version, saveDue, aside>>

\* DisconnectFrom and CloseListener
AfterStop == IF Stored THEN "snapshot" ELSE "stopped"
DisconnectFrom ==
  /\ api.at = "disconnect"
  /\ LET next == IF life.stopping THEN "wait" ELSE AfterStop IN
     api' = IF ports.current = NoManager THEN [api EXCEPT !.at = next]
            ELSE [api EXCEPT !.at = "unmap", !.after = next]
  /\ ports' = Cancelled(ports)
  /\ UNCHANGED <<search, files, loop, life, version, saveDue, left, transfers, watch>>
  /\ Becomes(DisconnectAll(srv))

\* Mutant: Stop does not wait for the loop.
EndWaitAnyhow(late) ==
  /\ api.at = "wait"
  /\ ~late
  /\ life' = [life EXCEPT !.late = late]
  /\ api' = [api EXCEPT !.at = AfterStop]
  /\ UNCHANGED <<srv, search, files, loop, version, saveDue, left, aside>>

EndWait(late) ==
  /\ api.at = "wait"
  /\ late \/ loop.at = "done"
  /\ life' = [life EXCEPT !.late = late]
  /\ api' = [api EXCEPT !.at = AfterStop]
  /\ UNCHANGED <<srv, search, files, loop, version, saveDue, left, aside>>
----------------------------------------------------------------------------
\* statusLoop: once a second, as the calls above but for `force`. It ends as
\* the loop does; what it would do after that nobody waits for.
StatusTick ==
  /\ watch.at = "idle" /\ ~life.stopping
  /\ watch' = [watch EXCEPT !.at = "status", !.seen = transfers]
  /\ UNCHANGED <<srv, search, files, loop, api, life, version, saveDue, transfers, ports, left>>

StatusSent ==
  /\ watch.at = "status"
  /\ watch' = [watch EXCEPT !.at = "progress", !.seen = transfers,
                            !.events = emitStatusUpdate(@, watch.seen)]
  /\ UNCHANGED <<srv, search, files, loop, api, life, version, saveDue, transfers, ports, left>>

ProgressSent ==
  /\ watch.at = "progress"
  /\ watch' = [watch EXCEPT !.at = "idle", !.seen = NoTransfers,
                            !.events = emitTransferProgressUpdate(@, watch.seen, FALSE)]
  /\ UNCHANGED <<srv, search, files, loop, api, life, version, saveDue, transfers, ports, left>>

\* Another goroutine of the program: it subscribes, receives and cancels, or
\* waits for the transfers.
Tells(events) ==
  /\ watch' = [watch EXCEPT !.events = events]
  /\ UNCHANGED <<srv, search, files, loop, api, life, version, saveDue, transfers, ports>>

SubscribeTo(kind) ==
  watch.events.sub.at = "none" /\ Use("subscribe") /\ Tells(Subscribe(watch.events, kind))
BuildFirst ==
  /\ watch.events.sub.at = "registered"
  /\ Tells(Build(watch.events, transfers)) /\ UNCHANGED left
SendFirst ==
  watch.events.sub.at = "built" /\ Tells(emitCurrentTo(watch.events)) /\ UNCHANGED left
CancelSubscription ==
  watch.events.sub.at = "subscribed" /\ Tells(Cancel(watch.events)) /\ UNCHANGED left
ReceiveEvent ==
  /\ watch.events.sub.at = "subscribed" /\ watch.events.sub.queue # << >>
  /\ Tells(Receive(watch.events)) /\ UNCHANGED left

\* Wait, of a client that was started
Wait ==
  /\ life.run = "running" /\ watch.waiter = "none" /\ Use("wait")
  /\ watch' = [watch EXCEPT !.waiter = "waiting"]
  /\ UNCHANGED <<srv, search, files, loop, api, life, version, saveDue, transfers, ports>>

\* Mutant: doneCh is not looked at.
WaitEndsFinished ==
  /\ watch.waiter = "waiting"
  /\ \A t \in Transfers : transfers[t] \in {"finished", "absent"}
  /\ watch' = [watch EXCEPT !.waiter = "returned"]
  /\ UNCHANGED <<srv, search, files, loop, api, life, version, saveDue, transfers, ports, left>>

WaitEnds ==
  /\ watch.waiter = "waiting"
  /\ loop.at = "done" \/ \A t \in Transfers : transfers[t] \in {"finished", "absent"}
  /\ watch' = [watch EXCEPT !.waiter = "returned"]
  /\ UNCHANGED <<srv, search, files, loop, api, life, version, saveDue, transfers, ports, left>>

\* A transfer finishes.
TransferFinishes(t) ==
  /\ transfers[t] = "running" /\ life.run = "running"
  /\ transfers' = [transfers EXCEPT ![t] = "finished"]
  /\ UNCHANGED <<srv, search, files, loop, api, life, version, saveDue, watch, ports, left>>
----------------------------------------------------------------------------
\* The goroutine of manager k
Maps(p) ==
  /\ ports' = p
  /\ UNCHANGED <<srv, search, files, loop, api, life, version, saveDue, transfers, watch, left>>

MapStep(k) ==
  /\ k \in DOMAIN ports.manager
  /\ LET m == ports.manager[k] IN
     \/ m.at = "begins" /\ Maps(Begin(ports, k))
     \/ /\ m.at = "discovers"
        /\ \E d \in Discoveries : Maps(Discover(ports, k, d[1], d[2]))
     \/ /\ m.at = "asks" /\ m.ports = << >>
        /\ \E p \in NextGateway(ports, k) : Maps(p)
     \/ /\ m.at = "asks" /\ m.ports # << >>
        /\ \E outcome \in {"mapped", "refused", "lost"} :
             Maps(AddPortMapping(ports, k, outcome))
----------------------------------------------------------------------------
\* The reader of the DHT calls back, unless Stop has closed the tracker.
DHTAnswers ==
  /\ search # NoSearch /\ search.owed /\ ~api.stops
  /\ search' = finishDHT(search)
  /\ UNCHANGED <<srv, files, loop, api, life, version, saveDue, left, aside>>

\* Time
DeadlinePasses ==
  /\ search # NoSearch /\ search.deadline = "set"
  /\ search' = [search EXCEPT !.deadline = "passed"]
  /\ UNCHANGED <<srv, files, loop, api, life, version, saveDue, left, aside>>

ReconnectFallsDue(s) ==
  /\ srv.policy[s].due = "later"
  /\ srv' = [srv EXCEPT !.policy[s].due = "now"]
  /\ UNCHANGED <<search, files, loop, api, life, version, saveDue, left, aside>>

SaveFallsDue ==
  /\ ~saveDue /\ life.run = "running" /\ left.autosaves = 1
  /\ saveDue' = TRUE
  /\ UNCHANGED <<srv, search, files, loop, api, life, version, left, aside>>

SaveStep(w) ==
  \/ snapshotState(w) \/ OpenTemporary(w) \/ WriteTemporary(w) \/ WriteFails(w)
  \/ RenameTemporary(w) \/ RenameFails(w) \/ RemoveTemporary(w)

LoopStep ==
  \/ Tick \/ LoopEnds \/ PumpClosed \/ ProcessIncoming \/ TakeIdentity \/ EndServe \/ EndPump
  \/ \E packet \in Packets : Serve(packet)
  \/ \E s \in Servers : LookUp(s)
  \/ GetConnectCandidate \/ CreateConnection \/ EndTick
  \/ \E ok \in BOOLEAN : LoopDialEnds(ok)
  \/ SaveStep("loop")

\* What the calling thread does once it is in a call.
CallStep ==
  \/ sendSearchRequest \/ DisconnectFrom \/ SaveStep("api")
  \/ SendStatus \/ SendProgress
  \/ StartWithoutTracker \/ EndUnmapWait \/ EndUnmap
  \/ \E ok \in BOOLEAN : StartTracker(ok) \/ Delete(ok)
  \/ \E ok \in BOOLEAN : ApiDialEnds(ok) \/ startDHTSearch(ok) \/ SearchKeywords(ok)
                         \/ EndWait(ok)

StatusStep == StatusTick \/ StatusSent \/ ProgressSent
SubscriberStep == BuildFirst \/ SendFirst \/ ReceiveEvent \/ WaitEnds

Next ==
  \/ LoopStep \/ CallStep
  \/ \E yes \in BOOLEAN : Start(yes) \/ Listen(yes)
  \/ \E s \in Servers, moved \in BOOLEAN : ConnectTo(s, moved)
  \/ \E scope \in (SUBSET {"server", "dht"}) \ {{}} : StartSearch(scope)
  \/ StopSearch \/ Change \/ Stop
  \/ \E t \in Transfers :
       TransferFinishes(t) \/ \E state \in States \cup {"absent"} : ChangeTransfer(t, state)
  \/ StatusStep \/ SubscriberStep \/ \E k \in Managers : MapStep(k)
  \/ \E kind \in {"status", "progress"} : SubscribeTo(kind)
  \/ CancelSubscription \/ Wait
  \/ DHTAnswers \/ DeadlinePasses \/ SaveFallsDue
  \/ \E s \in Servers : ReconnectFallsDue(s)

\* Goroutines run, dials, writes and requests to gateways end, the DHT keeps
\* its promise (Kad shows it), and time passes. A select that finds the timer
\* and stopCh ready takes either by chance, so in the end it takes stopCh.
Fairness ==
  /\ WF_vars(LoopStep) /\ WF_vars(CallStep)
  /\ SF_vars(LoopEnds)
  /\ WF_vars(StatusStep) /\ WF_vars(WaitEnds)
  /\ WF_vars(BuildFirst \/ SendFirst \/ ReceiveEvent)
  /\ \A k \in Managers : WF_vars(MapStep(k))
  /\ WF_vars(DHTAnswers) /\ WF_vars(DeadlinePasses) /\ WF_vars(SaveFallsDue)
  /\ \A s \in Servers : WF_vars(ReconnectFallsDue(s))

Spec == Init /\ [][Next]_vars /\ Fairness
----------------------------------------------------------------------------
TypeOK ==
  /\ ServersTyped(srv) /\ FilesTyped(files)
  /\ search \in SearchRecord \cup {NoSearch}
  /\ loop.at \in LoopPlaces /\ api.at \in ApiPlaces
  /\ loop.todo \in Seq(Conns) /\ {loop.conn, api.conn} \subseteq DOMAIN srv.conn \cup {NoConn}
  /\ Range(loop.todo) \subseteq DOMAIN srv.conn
  /\ loop.servers \subseteq Servers /\ loop.server \in Servers \cup {NoConn}
  /\ \A s \in Servers : LET p == srv.policy[s] IN
       CASE p.due = "never" -> p.iteration = MaxReconnects
         [] p.due = "later" -> p.known /\ p.iteration \in 1..MaxReconnects - 1
         [] p.due = "now"   -> p.known /\ p.iteration < MaxReconnects
  /\ life \in [run : {"new", "failed", "running"}, stopping : BOOLEAN, late : BOOLEAN]
  /\ version \in 0..MaxVersion /\ saveDue \in BOOLEAN
  /\ ListenersTyped(watch.events) /\ PortsTyped(ports)
  /\ {transfers, watch.seen, api.seen} \subseteq Snapshots

\* A connection that ConnectTo has closed to replace it, and that is in none of
\* the session's fields any more.
ReplacedByCall(c) ==
  c # NoConn /\ c \notin Active(srv) /\ Disconnecting(srv, c) /\ ~srv.conn[c].lost

\* The identity that the session shows to peers and publishes with is the one
\* of its primary server, once that server has given one, whichever servers
\* come, go and are replaced; only while the loop is at a connection that has
\* just shaken hands or closed may it lag behind. There is one other case: a call that promotes
\* a connected server (session.go:521) does not refresh it, and after a server
\* was given another address it may stay that of the connection replaced.
IdentityIsPrimarys ==
  loop.at \notin {"shaken", "served"} /\ srv.primary # NoConn /\ Shaken(srv, srv.primary)
    => srv.identity = srv.primary \/ ReplacedByCall(srv.identity)

\* A server that the program asked for and that has no connection is dialed
\* again while its policy has attempts left.
Retried ==
  \A s \in Servers :
    (s \in srv.configured /\ ~Live(srv, s) /\ srv.losses[s] < MaxReconnects
       /\ life.run = "running" /\ ~api.stops)
      ~> (Live(srv, s) \/ srv.losses[s] = MaxReconnects \/ api.stops)

\* A search whose DHT half was taken, or that has none, ends, though servers
\* may not answer.
SearchEnds ==
  (Running(search) /\ life.run = "running" /\ (search.dhtBusy => search.owed)
     /\ api.at \notin {"ask", "askDHT", "keywords"})
    ~> (~Running(search) \/ api.stops)

\* When Stop has returned, and the loop ended in its time, the file holds the
\* state of the client, whatever autosave or call was writing before.
StopSaves ==
  Stored /\ api.at = "stopped" /\ ~life.late /\ ~api.failed => Loaded(files) = version

\* While the client runs, the file comes to hold the latest state, whole, though
\* two saves may tear the file, a save may fail, and the snapshot that was taken
\* first may be the last to be renamed.
ChangesAreSaved ==
  (Loaded(files) # version /\ life.run = "running" /\ left.autosaves = 1)
    ~> (Loaded(files) = version \/ api.stops)

\* A subscriber that goes on reading comes to know the state of each transfer
\* while the client runs, though events are built and sent by two goroutines
\* in any order and are dropped when its buffer is full. One of progress events
\* may be left with an old state of a transfer, if the last event that had it
\* was dropped, or if the snapshot it begins with is not what later events are
\* compared with.
SubscribersCatchUp ==
  \A t \in Transfers :
    LET sub == watch.events.sub
        excused == sub.at # "subscribed" \/ (sub.kind = "progress" /\ t \in sub.missed)
                   \/ life.run # "running" \/ api.stops
    IN (sub.knows[t] # transfers[t]) ~> (sub.knows[t] = transfers[t] \/ excused)

\* Whatever a gateway maps for the client will be deleted when it stops: one
\* manager has it, also while the goroutine is still asking and Start or Stop
\* cancels it; and what a manager has is mapped. Not if the answer of a gateway
\* was lost, or it refused to delete.
MappingsAreOwned ==
  /\ ports.router \subseteq Known(ports) \cup ports.astray
  /\ Known(ports) \subseteq ports.router

\* Who waits for the transfers returns when the client is stopped.
WaitReturns == (watch.waiter = "waiting" /\ life.stopping) ~> (watch.waiter = "returned")
============================================================================
