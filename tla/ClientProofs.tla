---------------------------- MODULE ClientProofs ----------------------------
(***************************************************************************)
(* For any number of servers, transfers and gateways, and any budget of    *)
(* calls: the types of Client, and the safety of its identity, its state   *)
(* file and its port mappings. The invariant has a part for each module    *)
(* that Client composes, and one for the places of the two threads, on     *)
(* which the others rest.                                                  *)
(***************************************************************************)
EXTENDS Client, FiniteSetTheorems, WellFoundedInduction, TLAPS

(***************************************************************************)
(* Where the loop and the calling thread are, and what they have at hand.  *)
(***************************************************************************)
LoopRecord ==
  [at : LoopPlaces, todo : Seq(Conns), packet : Packets, servers : SUBSET Servers,
   server : Servers \cup {NoConn}, conn : Conns \cup {NoConn}]

AfterPlaces == {"refresh", "fail", "wait", "snapshot", "stopped"}
ApiRecord ==
  [at : ApiPlaces, conn : Conns \cup {NoConn}, sent : BOOLEAN, scope : SUBSET {"server", "dht"},
   stops : BOOLEAN, failed : BOOLEAN, emits : {"no", "always", "saved"}, seen : Snapshots,
   after : AfterPlaces \cup {"nothing"}]
LifeRecord == [run : {"new", "failed", "running"}, stopping : BOOLEAN, late : BOOLEAN]

Serving == {"serving", "shaken", "served"}
Unmapping == {"unmap", "delete"}

LoopPlaced ==
  /\ loop \in LoopRecord
  /\ loop.at \in Serving => loop.todo # << >>
  /\ loop.todo # << >> => loop.at \in Serving \cup {"pump"}
  /\ loop.conn # NoConn => loop.at = "dialing"
  /\ loop.at \in {"candidate", "create"} => loop.server \in Servers
  /\ loop.at = "off" <=> life.run # "running"

ApiPlaced ==
  /\ api \in ApiRecord
  /\ api.conn # NoConn => api.at = "dialing"
  /\ api.emits # "no" => api.at \in Saving /\ ~api.stops
  /\ api.at \in Unmapping <=> api.after # "nothing"
  /\ api.after \in {"wait", "snapshot", "stopped"} <=> api.at \in Unmapping /\ api.stops
  /\ api.stops => api.at \in {"disconnect", "wait", "stopped"} \cup Unmapping \cup Saving
  /\ api.at \in {"disconnect", "wait", "stopped"} => api.stops
  /\ api.at = "wait" \/ api.after = "wait" => life.stopping

LifePlaced ==
  /\ life \in LifeRecord
  /\ life.stopping <=> api.stops /\ life.run = "running"
  /\ api.at = "tracker" \/ api.after \in {"refresh", "fail"} => life.run = "new"

SubRecord ==
  [at : {"none", "registered", "built", "subscribed", "cancelled"}, kind : {"status", "progress"},
   built : Snapshots, queue : Seq(Events), knows : Snapshots, missed : SUBSET Transfers]
EventsRecord == [last : Snapshots, sub : SubRecord]
WatchRecord ==
  [events : EventsRecord, at : {"off", "idle", "status", "progress"}, seen : Snapshots,
   waiter : {"none", "waiting", "returned"}]

Placed ==
  /\ LoopPlaced /\ ApiPlaced /\ LifePlaced
  /\ transfers \in Snapshots /\ left \in [BudgetKinds -> Nat]

\* Both threads begin outside any call, with nothing in hand.
LEMMA PlacedInit == Init => Placed
<1> USE DEF Placed, LoopPlaced, ApiPlaced, LifePlaced
<1> SUFFICES ASSUME Init PROVE Placed
  OBVIOUS
<1>1. NoTransfers \in Snapshots
  BY DEF NoTransfers, Snapshots
<1>2. LoopPlaced
  <2>1. loop = [at |-> "off", todo |-> << >>, packet |-> "nothing", servers |-> {},
                server |-> NoConn, conn |-> NoConn]
    BY DEF Init, IdleLoop
  <2>2. loop \in LoopRecord
    BY <2>1 DEF LoopRecord, LoopPlaces, Packets
  <2>3. life.run # "running"
    BY DEF Init
  <2> QED BY <2>1, <2>2, <2>3 DEF Serving
<1>3. ApiPlaced
  BY <1>1 DEF Init, IdleApi, ApiRecord, ApiPlaces, AfterPlaces, Unmapping, Saving
<1> QED BY <1>1, <1>2, <1>3, ClientAssumption DEF Init, LifeRecord, IdleApi

(***************************************************************************)
(* The steps in groups, by what they leave alone.                          *)
(***************************************************************************)
Savers == {"loop", "api"}

LoopWork ==
  \/ Tick \/ LoopEnds \/ PumpClosed \/ ProcessIncoming \/ TakeIdentity \/ EndServe \/ EndPump
  \/ \E packet \in Packets : Serve(packet)
  \/ \E s \in Servers : LookUp(s)
  \/ GetConnectCandidate \/ CreateConnection \/ EndTick
  \/ \E ok \in BOOLEAN : LoopDialEnds(ok)
SaveWork == \E w \in Savers : SaveStep(w)
PortCalls ==
  \/ StartWithoutTracker \/ EndUnmapWait \/ EndUnmap \/ DisconnectFrom
  \/ \E ok \in BOOLEAN : Start(ok) \/ Listen(ok) \/ StartTracker(ok) \/ Delete(ok)
ServerCalls ==
  \/ \E s \in Servers, moved \in BOOLEAN : ConnectTo(s, moved)
  \/ \E ok \in BOOLEAN : ApiDialEnds(ok)
SearchWork ==
  \/ sendSearchRequest \/ StopSearch \/ DHTAnswers \/ DeadlinePasses
  \/ \E scope \in SUBSET {"server", "dht"} : StartSearch(scope)
  \/ \E ok \in BOOLEAN : startDHTSearch(ok) \/ SearchKeywords(ok)
ChangeCalls ==
  \/ Change \/ SendStatus \/ SendProgress
  \/ \E t \in Transfers, state \in States \cup {"absent"} : ChangeTransfer(t, state)
StopCalls == Stop \/ \E late \in BOOLEAN : EndWait(late)
WatchWork ==
  \/ StatusStep \/ SubscriberStep \/ CancelSubscription \/ Wait
  \/ \E kind \in {"status", "progress"} : SubscribeTo(kind)
  \/ \E t \in Transfers : TransferFinishes(t)
MapWork == \E k \in Managers : MapStep(k)
TimePasses == SaveFallsDue \/ \E s \in Servers : ReconnectFallsDue(s)

\* Every step is one of a group.
LEMMA NextParts ==
  Next => \/ LoopWork \/ SaveWork \/ PortCalls \/ ServerCalls \/ SearchWork \/ ChangeCalls
          \/ StopCalls \/ WatchWork \/ MapWork \/ TimePasses
<1> SUFFICES ASSUME Next
             PROVE  \/ LoopWork \/ SaveWork \/ PortCalls \/ ServerCalls \/ SearchWork
                    \/ ChangeCalls \/ StopCalls \/ WatchWork \/ MapWork \/ TimePasses
  OBVIOUS
<1>1. CASE LoopStep
  BY <1>1 DEF LoopStep, LoopWork, SaveWork, Savers
<1>2. CASE CallStep
  BY <1>2 DEF CallStep, SaveWork, Savers, PortCalls, ServerCalls, SearchWork, ChangeCalls, StopCalls
<1>3. CASE StatusStep \/ SubscriberStep \/ CancelSubscription \/ Wait
  BY <1>3 DEF WatchWork
<1>4. CASE \/ \E yes \in BOOLEAN : Start(yes) \/ Listen(yes)
           \/ \E s \in Servers, moved \in BOOLEAN : ConnectTo(s, moved)
           \/ \E scope \in (SUBSET {"server", "dht"}) \ {{}} : StartSearch(scope)
           \/ StopSearch \/ Change \/ Stop
  BY <1>4 DEF PortCalls, ServerCalls, SearchWork, ChangeCalls, StopCalls
<1>5. CASE \/ \E t \in Transfers :
                TransferFinishes(t) \/ \E state \in States \cup {"absent"} : ChangeTransfer(t, state)
           \/ \E k \in Managers : MapStep(k)
           \/ \E kind \in {"status", "progress"} : SubscribeTo(kind)
           \/ DHTAnswers \/ DeadlinePasses \/ SaveFallsDue
           \/ \E s \in Servers : ReconnectFallsDue(s)
  BY <1>5 DEF WatchWork, ChangeCalls, MapWork, SearchWork, TimePasses
<1> QED BY <1>1, <1>2, <1>3, <1>4, <1>5 DEF Next

\* What each group leaves alone
LEMMA LoopWorkLeaves == LoopWork => UNCHANGED <<files, api, life, version, saveDue, aside>>
<1> USE DEF aside
<1>1. ASSUME Tick \/ LoopEnds \/ PumpClosed \/ ProcessIncoming \/ TakeIdentity \/ EndServe \/ EndPump
      PROVE  UNCHANGED <<files, api, life, version, saveDue, aside>>
  BY <1>1 DEF Tick, LoopEnds, PumpClosed, ProcessIncoming, TakeIdentity, EndServe, EndPump
<1>2. ASSUME NEW packet \in Packets, Serve(packet)
      PROVE  UNCHANGED <<files, api, life, version, saveDue, aside>>
  BY <1>2 DEF Serve
<1>3. ASSUME NEW s \in Servers, LookUp(s)
      PROVE  UNCHANGED <<files, api, life, version, saveDue, aside>>
  BY <1>3 DEF LookUp
<1>4. ASSUME GetConnectCandidate \/ CreateConnection \/ EndTick
      PROVE  UNCHANGED <<files, api, life, version, saveDue, aside>>
  BY <1>4 DEF GetConnectCandidate, CreateConnection, EndTick
<1>5. ASSUME NEW ok \in BOOLEAN, LoopDialEnds(ok)
      PROVE  UNCHANGED <<files, api, life, version, saveDue, aside>>
  BY <1>5 DEF LoopDialEnds
<1> QED BY <1>1, <1>2, <1>3, <1>4, <1>5 DEF LoopWork

\* A step of a save concerns the file and the thread that saves.
LEMMA SaveWorkLeaves == SaveWork => UNCHANGED <<srv, search, life, version, aside>>
<1> SUFFICES ASSUME NEW w \in Savers, SaveStep(w)
             PROVE  UNCHANGED <<srv, search, life, version, aside>>
  BY DEF SaveWork
<1> QED BY DEF SaveStep, snapshotState, OpenTemporary, WriteTemporary, WriteFails,
               RenameTemporary, RenameFails, RemoveTemporary

\* Start, Listen and the waits of Stop touch neither the search nor the file.
LEMMA PortCallsLeave == PortCalls => UNCHANGED <<search, files, version, saveDue, transfers>>
<1>1. ASSUME StartWithoutTracker \/ EndUnmapWait \/ EndUnmap \/ DisconnectFrom
      PROVE  UNCHANGED <<search, files, version, saveDue, transfers>>
  BY <1>1 DEF StartWithoutTracker, EndUnmapWait, EndUnmap, DisconnectFrom, aside
<1>2. ASSUME NEW ok \in BOOLEAN, Start(ok) \/ Listen(ok) \/ StartTracker(ok) \/ Delete(ok)
      PROVE  UNCHANGED <<search, files, version, saveDue, transfers>>
  BY <1>2 DEF Start, Listen, StartTracker, Delete
<1> QED BY <1>1, <1>2 DEF PortCalls

\* ConnectTo and the end of its dial concern the server connections only.
LEMMA ServerCallsLeave ==
  ServerCalls => UNCHANGED <<search, files, loop, life, version, saveDue, aside>>
<1>1. ASSUME NEW s \in Servers, NEW moved \in BOOLEAN, ConnectTo(s, moved)
      PROVE  UNCHANGED <<search, files, loop, life, version, saveDue, aside>>
  BY <1>1 DEF ConnectTo
<1>2. ASSUME NEW ok \in BOOLEAN, ApiDialEnds(ok)
      PROVE  UNCHANGED <<search, files, loop, life, version, saveDue, aside>>
  BY <1>2 DEF ApiDialEnds
<1> QED BY <1>1, <1>2 DEF ServerCalls

\* A step of a search concerns the task and the thread that asks.
LEMMA SearchWorkLeaves == SearchWork => UNCHANGED <<srv, files, loop, life, version, saveDue, aside>>
<1>1. ASSUME sendSearchRequest \/ StopSearch \/ DHTAnswers \/ DeadlinePasses
      PROVE  UNCHANGED <<srv, files, loop, life, version, saveDue, aside>>
  BY <1>1 DEF sendSearchRequest, StopSearch, DHTAnswers, DeadlinePasses
<1>2. ASSUME NEW scope \in SUBSET {"server", "dht"}, StartSearch(scope)
      PROVE  UNCHANGED <<srv, files, loop, life, version, saveDue, aside>>
  BY <1>2 DEF StartSearch
<1>3. ASSUME NEW ok \in BOOLEAN, startDHTSearch(ok) \/ SearchKeywords(ok)
      PROVE  UNCHANGED <<srv, files, loop, life, version, saveDue, aside>>
  BY <1>3 DEF startDHTSearch, SearchKeywords
<1> QED BY <1>1, <1>2, <1>3 DEF SearchWork

\* A change of a transfer is saved later, by steps of its own.
LEMMA ChangeCallsLeave == ChangeCalls => UNCHANGED <<srv, search, files, loop, life, saveDue, ports>>
<1>1. ASSUME Change \/ SendStatus \/ SendProgress
      PROVE  UNCHANGED <<srv, search, files, loop, life, saveDue, ports>>
  BY <1>1 DEF Change, SendStatus, SendProgress, aside
<1>2. ASSUME NEW t \in Transfers, NEW state, ChangeTransfer(t, state)
      PROVE  UNCHANGED <<srv, search, files, loop, life, saveDue, ports>>
  BY <1>2 DEF ChangeTransfer
<1> QED BY <1>1, <1>2 DEF ChangeCalls

\* Stop closes stopCh, and gives up waiting, without touching what it stops.
LEMMA StopCallsLeave == StopCalls => UNCHANGED <<srv, search, files, loop, version, saveDue, aside>>
  BY DEF StopCalls, Stop, EndWait

\* The goroutines of subscribers and statusLoop change only what they tell.
LEMMA WatchWorkLeaves ==
  WatchWork => UNCHANGED <<srv, search, files, loop, api, life, version, saveDue, ports>>
<1> USE DEF Tells
<1>1. ASSUME StatusStep \/ CancelSubscription \/ Wait
      PROVE  UNCHANGED <<srv, search, files, loop, api, life, version, saveDue, ports>>
  BY <1>1 DEF StatusStep, StatusTick, StatusSent, ProgressSent, CancelSubscription, Wait
<1>2. ASSUME SubscriberStep
      PROVE  UNCHANGED <<srv, search, files, loop, api, life, version, saveDue, ports>>
  BY <1>2 DEF SubscriberStep, BuildFirst, SendFirst, ReceiveEvent, WaitEnds
<1>3. ASSUME NEW kind, SubscribeTo(kind)
      PROVE  UNCHANGED <<srv, search, files, loop, api, life, version, saveDue, ports>>
  BY <1>3 DEF SubscribeTo
<1>4. ASSUME NEW t \in Transfers, TransferFinishes(t)
      PROVE  UNCHANGED <<srv, search, files, loop, api, life, version, saveDue, ports>>
  BY <1>4 DEF TransferFinishes
<1> QED BY <1>1, <1>2, <1>3, <1>4 DEF WatchWork

\* The goroutine of a manager changes only the port mapping.
LEMMA MapWorkLeaves ==
  MapWork => UNCHANGED <<srv, search, files, loop, api, life, version, saveDue, transfers, watch, left>>
  BY DEF MapWork, MapStep, Maps

\* Time makes a reconnect or an autosave due, and nothing else.
LEMMA TimeLeaves ==
  TimePasses => UNCHANGED <<search, files, loop, api, life, version, left, aside>>
  BY DEF TimePasses, SaveFallsDue, ReconnectFallsDue

(***************************************************************************)
(* No step takes a thread to a place it does not come from.                *)
(***************************************************************************)
LEMMA LoopMoves ==
  ASSUME LoopPlaced, LoopWork, srv.configured \subseteq Servers,
         loop'.todo \in Seq(Conns), loop'.conn \in Conns \cup {NoConn}
  PROVE  LoopPlaced'
<1> USE DEF LoopPlaced, LoopRecord, LoopPlaces, Packets, Serving, Saving
<1>1. CASE Tick
  BY <1>1 DEF Tick
<1>2. CASE LoopEnds
  BY <1>2 DEF LoopEnds
<1>3. CASE PumpClosed
  BY <1>3 DEF PumpClosed
<1>4. ASSUME NEW packet \in Packets, Serve(packet)
      PROVE  LoopPlaced'
  BY <1>4 DEF Serve
<1>5. CASE ProcessIncoming
  BY <1>5 DEF ProcessIncoming
<1>6. CASE TakeIdentity \/ EndServe
  BY <1>6 DEF TakeIdentity, EndServe
<1>7. CASE EndPump
  BY <1>7 DEF EndPump
<1>8. ASSUME NEW s \in Servers, LookUp(s)
      PROVE  LoopPlaced'
  BY <1>8 DEF LookUp
<1>9. CASE GetConnectCandidate
  BY <1>9 DEF GetConnectCandidate
<1>10. CASE CreateConnection
  BY <1>10 DEF CreateConnection
<1>11. CASE EndTick
  BY <1>11 DEF EndTick
<1>12. ASSUME NEW ok \in BOOLEAN, LoopDialEnds(ok)
       PROVE  LoopPlaced'
  BY <1>12 DEF LoopDialEnds
<1> QED BY <1>1, <1>2, <1>3, <1>4, <1>5, <1>6, <1>7, <1>8, <1>9, <1>10, <1>11, <1>12
     DEF LoopWork
\* No transfers is a snapshot.
LEMMA NothingYet == NoTransfers \in Snapshots
  BY DEF NoTransfers, Snapshots

\* After a call
LEMMA AfterCall ==
  ASSUME transfers \in Snapshots, NEW seen \in Snapshots, NEW at \in {"idle", "status"},
         NEW a, a = [IdleApi EXCEPT !.at = at, !.seen = seen]
  PROVE  /\ a \in ApiRecord /\ a.at = at /\ a.conn = NoConn /\ a.emits = "no"
         /\ a.after = "nothing" /\ ~a.stops
  BY DEF IdleApi, ApiRecord, ApiPlaces

\* A save goes from place to place and then ends the call or the tick.
LEMMA SavesMove ==
  ASSUME LoopPlaced, ApiPlaced, LifePlaced, transfers \in Snapshots, SaveWork
  PROVE  LoopPlaced' /\ ApiPlaced' /\ LifePlaced'
<1> USE DEF Savers, Saving, At
<1>0. UNCHANGED <<life, transfers>>
  BY SaveWorkLeaves DEF aside
<1>1. ASSUME NEW w \in Savers, NEW place \in {"open", "write", "rename", "remove"}, At(w) \in Saving,
             Goes(w, place)
      PROVE  LoopPlaced' /\ ApiPlaced' /\ LifePlaced'
  <2>1. CASE w = "loop"
    BY <1>0, <1>1, <2>1 DEF Goes, LoopPlaced, ApiPlaced, LifePlaced, LoopRecord, LoopPlaces, Serving
  <2>2. CASE w = "api"
    <3>1. LoopPlaced'
      BY <1>0, <1>1, <2>2 DEF Goes, LoopPlaced
    <3>2. /\ ApiPlaced' /\ api'.stops = api.stops
          /\ api'.at # "tracker" /\ api'.after = "nothing"
      BY <1>0, <1>1, <2>2 DEF Goes, ApiPlaced, ApiRecord, ApiPlaces, Unmapping
    <3> QED BY <1>0, <3>1, <3>2 DEF LifePlaced
  <2> QED BY <2>1, <2>2
<1>2. ASSUME NEW w \in Savers, NEW ok \in BOOLEAN, At(w) \in Saving, Saved(w, ok)
      PROVE  LoopPlaced' /\ ApiPlaced' /\ LifePlaced'
  <2>1. CASE w = "loop"
    BY <1>0, <1>2, <2>1 DEF Saved, LoopPlaced, ApiPlaced, LifePlaced, LoopRecord, LoopPlaces, Serving
  <2>2. CASE w = "api"
    <3>1. LoopPlaced'
      BY <1>0, <1>2, <2>2 DEF Saved, LoopPlaced
    <3> DEFINE Moved == /\ ApiPlaced' /\ api'.stops = api.stops
                        /\ api'.at # "tracker" /\ api'.after = "nothing"
    <3>2. ASSUME Emits(ok) PROVE Moved
      <4>1. api.stops = FALSE
        BY <3>2 DEF Emits, ApiPlaced, ApiRecord
      <4>2. api' = [IdleApi EXCEPT !.at = "status", !.seen = transfers]
        BY <1>2, <2>2, <3>2 DEF Saved, Emitting
      <4>3. /\ api' \in ApiRecord /\ api'.at = "status" /\ api'.conn = NoConn
            /\ api'.emits = "no" /\ api'.after = "nothing" /\ ~api'.stops
        BY <4>2, AfterCall, Zenon
      <4>4. ApiPlaced'
        BY <4>3 DEF ApiPlaced, Unmapping
      <4>5. api'.stops = FALSE
        BY <4>3 DEF ApiRecord
      <4> QED BY <4>1, <4>3, <4>4, <4>5
    <3>3. ASSUME ~Emits(ok) PROVE Moved
      <4> DEFINE stops == api.stops
                 failed == ~ok
                 at == IF stops THEN "stopped" ELSE "idle"
      <4>1. stops \in BOOLEAN /\ failed \in BOOLEAN
        BY DEF ApiPlaced, ApiRecord
      <4>2. api' = [IdleApi EXCEPT !.at = at, !.stops = stops, !.failed = failed]
        BY <1>2, <2>2, <3>3 DEF Saved
      <4> HIDE DEF stops, failed, at
      <4>3. at \in ApiPlaces /\ (stops => at = "stopped") /\ (~stops => at = "idle")
        BY DEF at, ApiPlaces
      <4>4. api' = [at |-> at, conn |-> NoConn, sent |-> FALSE, scope |-> {}, stops |-> stops,
                    failed |-> failed, emits |-> "no", seen |-> NoTransfers,
                    after |-> "nothing"]
        BY <4>2 DEF IdleApi
      <4>5. api' \in ApiRecord
        BY <4>1, <4>3, <4>4, NothingYet DEF ApiRecord
      <4>6. api'.stops = api.stops /\ api'.at # "tracker" /\ api'.after = "nothing"
        BY <4>3, <4>4 DEF stops
      <4>7. ApiPlaced'
        BY <4>3, <4>4, <4>5 DEF ApiPlaced, Unmapping
      <4> QED BY <4>6, <4>7
    <3> QED BY <1>0, <3>1, <3>2, <3>3 DEF LifePlaced
  <2> QED BY <2>1, <2>2
<1> SUFFICES ASSUME NEW w \in Savers, SaveStep(w)
             PROVE  LoopPlaced' /\ ApiPlaced' /\ LifePlaced'
  BY DEF SaveWork
<1>3. CASE snapshotState(w) \/ OpenTemporary(w) \/ WriteTemporary(w) \/ RenameFails(w)
  BY <1>1, <1>3 DEF snapshotState, OpenTemporary, WriteTemporary, RenameFails
<1>4. CASE WriteFails(w) \/ RenameTemporary(w) \/ RemoveTemporary(w)
  BY <1>2, <1>4 DEF WriteFails, RenameTemporary, RemoveTemporary
<1> QED BY <1>3, <1>4 DEF SaveStep

\* Start takes the loop from "off"; Stop goes on through the wait for the mapping.
LEMMA PortCallsMove ==
  ASSUME LoopPlaced, ApiPlaced, LifePlaced, transfers \in Snapshots, PortCalls
  PROVE  LoopPlaced' /\ ApiPlaced' /\ LifePlaced'
<1> USE NothingYet DEF Saving, Unmapping
<1>1. ASSUME NEW ok \in BOOLEAN, Started(ok), life.run = "new", ~api.stops
      PROVE  LoopPlaced' /\ ApiPlaced' /\ LifePlaced'
  <2>1. LoopPlaced'
    BY <1>1 DEF Started, LoopPlaced, LoopRecord, LoopPlaces, Serving, LifePlaced, LifeRecord
  <2>2. /\ api' \in ApiRecord /\ api'.at \in {"idle", "status"} /\ api'.conn = NoConn
        /\ api'.emits = "no" /\ api'.after = "nothing" /\ ~api'.stops
    BY <1>1 DEF Started, Emitting, IdleApi, ApiRecord, ApiPlaces
  <2>3. ApiPlaced'
    BY <2>2 DEF ApiPlaced
  <2>4. LifePlaced'
    BY <1>1, <2>2 DEF Started, LifePlaced, LifeRecord, AfterPlaces
  <2> QED BY <2>1, <2>3, <2>4
<1>2. ASSUME UNCHANGED <<loop, life>>, api'.stops = api.stops, ApiPlaced',
             api'.at = "tracker" \/ api'.after \in {"refresh", "fail"} => life.run = "new"
      PROVE  LoopPlaced' /\ ApiPlaced' /\ LifePlaced'
  BY <1>2 DEF LoopPlaced, LifePlaced
<1>3. ASSUME life.run = "new" PROVE ~life.stopping
  BY <1>3 DEF LifePlaced
<1>4. ASSUME NEW ok \in BOOLEAN, Start(ok)
      PROVE  LoopPlaced' /\ ApiPlaced' /\ LifePlaced'
  BY <1>1, <1>4 DEF Start, Calls, ApiPlaced
<1>5. ASSUME NEW udp \in BOOLEAN, Listen(udp)
      PROVE  LoopPlaced' /\ ApiPlaced' /\ LifePlaced'
  <2>1. ApiPlaced' /\ api'.stops = api.stops
    BY <1>5 DEF Listen, Calls, ApiPlaced, ApiRecord, ApiPlaces
  <2> QED BY <1>2, <1>5, <2>1 DEF Listen
<1>6. CASE StartWithoutTracker
  BY <1>1, <1>6 DEF StartWithoutTracker, ApiPlaced, LifePlaced
<1>8. ASSUME NEW ok \in BOOLEAN, StartTracker(ok)
      PROVE  LoopPlaced' /\ ApiPlaced' /\ LifePlaced'
  <2>1. ApiPlaced' /\ api'.stops = api.stops
    BY <1>8 DEF StartTracker, ApiPlaced, ApiRecord, ApiPlaces, AfterPlaces
  <2> QED BY <1>2, <1>8, <2>1 DEF StartTracker, LifePlaced
<1>9. CASE EndUnmapWait
  <2>1. ApiPlaced' /\ api'.stops = api.stops
    BY <1>9 DEF EndUnmapWait, ApiPlaced, ApiRecord, ApiPlaces
  <2> QED BY <1>2, <1>9, <2>1 DEF EndUnmapWait, LifePlaced
<1>10. ASSUME NEW ok \in BOOLEAN, Delete(ok)
       PROVE  LoopPlaced' /\ ApiPlaced' /\ LifePlaced'
  BY <1>2, <1>10 DEF Delete, ApiPlaced, LifePlaced
<1>11. CASE DisconnectFrom
  <2>1. ApiPlaced' /\ api'.stops = api.stops
    BY <1>11 DEF DisconnectFrom, AfterStop, ApiPlaced, ApiRecord, ApiPlaces, AfterPlaces
  <2>2. api'.at # "tracker" /\ api'.after \notin {"refresh", "fail"}
    BY <1>11 DEF DisconnectFrom, AfterStop, ApiPlaced
  <2> QED BY <1>2, <1>11, <2>1, <2>2 DEF DisconnectFrom
<1>12. CASE EndUnmap
  <2>1. CASE api.after \in {"refresh", "fail"}
    BY <1>1, <1>12, <2>1 DEF EndUnmap, ApiPlaced, LifePlaced
  <2>2. CASE api.after \notin {"refresh", "fail"}
    <3>1. api' = [api EXCEPT !.at = api.after, !.after = "nothing"]
      BY <1>12, <2>2 DEF EndUnmap
    <3>2. ApiPlaced' /\ api'.stops = api.stops /\ api'.at # "tracker" /\ api'.after = "nothing"
      BY <1>12, <2>2, <3>1 DEF EndUnmap, ApiPlaced, ApiRecord, ApiPlaces, AfterPlaces
    <3> QED BY <1>2, <1>12, <2>2, <3>2 DEF EndUnmap
  <2> QED BY <2>1, <2>2
<1> QED BY <1>4, <1>5, <1>6, <1>8, <1>9, <1>10, <1>11, <1>12 DEF PortCalls

\* ConnectTo dials, and the call ends with its dial.
LEMMA ServerCallsMove ==
  ASSUME ApiPlaced, LifePlaced, ServerCalls, api'.conn \in Conns \cup {NoConn}
  PROVE  ApiPlaced' /\ LifePlaced'
<1> USE NothingYet DEF Saving, Unmapping
<1>0. UNCHANGED life
  BY ServerCallsLeave
<1>1. ASSUME NEW s \in Servers, NEW moved \in BOOLEAN, ConnectTo(s, moved)
      PROVE  ApiPlaced' /\ api'.stops = api.stops /\ api'.at # "tracker" /\ api'.after = "nothing"
  BY <1>0, <1>1 DEF ConnectTo, Calls, ApiPlaced, ApiRecord, ApiPlaces
<1>2. ASSUME NEW ok \in BOOLEAN, ApiDialEnds(ok)
      PROVE  ApiPlaced' /\ api'.stops = api.stops /\ api'.at # "tracker" /\ api'.after = "nothing"
  BY <1>0, <1>2 DEF ApiDialEnds, IdleApi, ApiPlaced, ApiRecord, ApiPlaces
<1>3. ApiPlaced' /\ api'.stops = api.stops /\ api'.at # "tracker" /\ api'.after = "nothing"
  BY <1>1, <1>2 DEF ServerCalls
<1> QED BY <1>0, <1>3 DEF LifePlaced

\* StartSearch asks servers, then the DHT, and then the call ends.
LEMMA SearchWorkMoves ==
  ASSUME ApiPlaced, LifePlaced, SearchWork
  PROVE  ApiPlaced' /\ LifePlaced'
<1> USE NothingYet DEF Saving, Unmapping
<1>0. UNCHANGED life
  BY SearchWorkLeaves
<1> DEFINE Moved == /\ ApiPlaced' /\ api'.stops = api.stops
                    /\ api'.at # "tracker" /\ api'.after = "nothing"
<1>1. ASSUME NEW scope \in SUBSET {"server", "dht"}, StartSearch(scope)
      PROVE  Moved
  BY <1>0, <1>1 DEF StartSearch, Calls, ApiPlaced, ApiRecord, ApiPlaces
<1>2. ASSUME sendSearchRequest PROVE Moved
  <2> DEFINE sent == "server" \in api.scope /\ \E c \in Active(srv) : Shaken(srv, c)
  <2>1. sent \in BOOLEAN
    OBVIOUS
  <2>2. api' = [api EXCEPT !.at = "askDHT", !.sent = sent] /\ api.at = "ask"
    BY <1>2 DEF sendSearchRequest
  <2> HIDE DEF sent
  <2> QED BY <1>0, <2>1, <2>2 DEF ApiPlaced, ApiRecord, ApiPlaces
<1>3. ASSUME NEW ok \in BOOLEAN, startDHTSearch(ok)
      PROVE  Moved
  <2>1. CASE api' = [api EXCEPT !.at = "keywords"]
    BY <1>0, <1>3, <2>1 DEF startDHTSearch, ApiPlaced, ApiRecord, ApiPlaces
  <2>2. CASE api' = IdleApi
    BY <1>0, <1>3, <2>2 DEF startDHTSearch, IdleApi, ApiPlaced, ApiRecord, ApiPlaces
  <2> QED BY <1>3, <2>1, <2>2 DEF startDHTSearch
<1>4. ASSUME NEW ok \in BOOLEAN, SearchKeywords(ok)
      PROVE  Moved
  BY <1>0, <1>4 DEF SearchKeywords, IdleApi, ApiPlaced, ApiRecord, ApiPlaces
<1>5. CASE StopSearch \/ DHTAnswers \/ DeadlinePasses
  BY <1>0, <1>5 DEF StopSearch, DHTAnswers, DeadlinePasses, ApiPlaced, LifePlaced
<1>6. ASSUME Moved PROVE ApiPlaced' /\ LifePlaced'
  BY <1>0, <1>6 DEF LifePlaced
<1> QED BY <1>1, <1>2, <1>3, <1>4, <1>5, <1>6 DEF SearchWork

\* A change is saved, and what was added or changed is told afterwards.
LEMMA ChangeCallsMove ==
  ASSUME ApiPlaced, LifePlaced, transfers \in Snapshots, ChangeCalls
  PROVE  ApiPlaced' /\ LifePlaced' /\ transfers' \in Snapshots
<1> USE NothingYet DEF Saving, Unmapping
<1>0. UNCHANGED life
  BY ChangeCallsLeave
<1> DEFINE Moved == /\ ApiPlaced' /\ api'.stops = api.stops
                    /\ api'.at # "tracker" /\ api'.after = "nothing"
<1>1. ASSUME Change PROVE Moved
  BY <1>0, <1>1 DEF Change, Calls, ApiPlaced, ApiRecord, ApiPlaces, aside
<1>2. ASSUME SendStatus PROVE Moved
  BY <1>0, <1>2 DEF SendStatus, ApiPlaced, ApiRecord, ApiPlaces
<1>3. ASSUME SendProgress PROVE Moved
  BY <1>0, <1>3 DEF SendProgress, IdleApi, ApiPlaced, ApiRecord, ApiPlaces
<1>4. ASSUME NEW t \in Transfers, NEW state \in States \cup {"absent"}, ChangeTransfer(t, state)
      PROVE  Moved /\ transfers' \in Snapshots
  <2>1. transfers' \in Snapshots
    BY <1>4 DEF ChangeTransfer, Snapshots
  <2>2. ASSUME Stored PROVE Moved
    BY <1>0, <1>4, <2>2 DEF ChangeTransfer, Calls, ApiPlaced, ApiRecord, ApiPlaces
  <2>3. ASSUME ~Stored PROVE Moved
    BY <1>0, <1>4, <2>1, <2>3 DEF ChangeTransfer, Calls, IdleApi, ApiPlaced, ApiRecord, ApiPlaces
  <2> QED BY <2>1, <2>2, <2>3
<1>5. ASSUME Moved PROVE ApiPlaced' /\ LifePlaced'
  BY <1>0, <1>5 DEF LifePlaced
<1>6. ASSUME Change \/ SendStatus \/ SendProgress PROVE transfers' \in Snapshots
  BY <1>6 DEF Change, SendStatus, SendProgress, aside
<1> QED BY <1>1, <1>2, <1>3, <1>4, <1>5, <1>6 DEF ChangeCalls

\* Stop is on its way to "stopped" from its first step.
LEMMA StopCallsMove ==
  ASSUME ApiPlaced, LifePlaced, StopCalls
  PROVE  ApiPlaced' /\ LifePlaced' /\ life'.run = life.run
<1> USE NothingYet DEF Saving, Unmapping
<1>1. CASE Stop
  <2>1. ApiPlaced'
    BY <1>1 DEF Stop, Calls, ApiPlaced, ApiRecord, ApiPlaces
  <2>2. LifePlaced' /\ life'.run = life.run
    BY <1>1 DEF Stop, Calls, ApiPlaced, ApiRecord, LifePlaced, LifeRecord
  <2> QED BY <2>1, <2>2
<1>2. ASSUME NEW late \in BOOLEAN, EndWait(late)
      PROVE  ApiPlaced' /\ LifePlaced' /\ life'.run = life.run
  <2>1. ApiPlaced'
    BY <1>2 DEF EndWait, AfterStop, ApiPlaced, ApiRecord, ApiPlaces
  <2>2. LifePlaced' /\ life'.run = life.run
    BY <1>2 DEF EndWait, AfterStop, ApiPlaced, ApiRecord, LifePlaced, LifeRecord
  <2> QED BY <2>1, <2>2
<1> QED BY <1>1, <1>2 DEF StopCalls

\* Calls use up their budget; whether there is a store does not change.
LEMMA BudgetUsed ==
  ASSUME left \in [BudgetKinds -> Nat], Next
  PROVE  left' \in [BudgetKinds -> Nat] /\ left'.store = left.store
<1> USE DEF BudgetKinds
<1>1. ASSUME NEW what \in BudgetKinds \ {"store"}, Use(what)
      PROVE  left' \in [BudgetKinds -> Nat] /\ left'.store = left.store
  BY <1>1 DEF Use
<1>2. ASSUME UNCHANGED left
      PROVE  left' \in [BudgetKinds -> Nat] /\ left'.store = left.store
  BY <1>2
<1>3. CASE LoopWork
  <2>1. CASE \E packet \in Packets : Serve(packet)
    BY <1>1, <1>2, <2>1 DEF Serve
  <2> QED BY <1>2, <1>3, <2>1
    DEF LoopWork, Tick, LoopEnds, PumpClosed, ProcessIncoming, TakeIdentity, EndServe, EndPump,
        LookUp, GetConnectCandidate, CreateConnection, EndTick, LoopDialEnds
<1>4. CASE SaveWork
  BY <1>1, <1>2, <1>4 DEF SaveWork, SaveStep, snapshotState, OpenTemporary, WriteTemporary,
     WriteFails, RenameTemporary, RenameFails, RemoveTemporary
<1>5. CASE PortCalls
  BY <1>1, <1>2, <1>5 DEF PortCalls, StartWithoutTracker, EndUnmapWait, EndUnmap,
     DisconnectFrom, Start, Listen, StartTracker, Delete, Calls
<1>6. CASE ServerCalls \/ SearchWork
  BY <1>1, <1>2, <1>6 DEF ServerCalls, ConnectTo, ApiDialEnds, SearchWork, sendSearchRequest,
     StopSearch, DHTAnswers, DeadlinePasses, StartSearch, startDHTSearch, SearchKeywords, Calls
<1>7. CASE ChangeCalls \/ StopCalls
  BY <1>1, <1>2, <1>7 DEF ChangeCalls, Change, SendStatus, SendProgress, ChangeTransfer,
     StopCalls, Stop, EndWait, Calls
<1>8. CASE WatchWork
  BY <1>1, <1>2, <1>8 DEF WatchWork, StatusStep, StatusTick, StatusSent, ProgressSent,
     SubscriberStep, BuildFirst, SendFirst, ReceiveEvent, WaitEnds, CancelSubscription, Wait,
     SubscribeTo, TransferFinishes
<1>9. CASE MapWork \/ TimePasses
  BY <1>2, <1>9, MapWorkLeaves, TimeLeaves
<1> QED BY <1>3, <1>4, <1>5, <1>6, <1>7, <1>8, <1>9, NextParts

\* No step takes a thread to a place where it would have to have something else.
LEMMA PlacedNext ==
  ASSUME Placed, [Next]_vars, srv.configured \subseteq Servers,
         loop'.todo \in Seq(Conns), loop'.conn \in Conns \cup {NoConn},
         api'.conn \in Conns \cup {NoConn}
  PROVE  Placed'
<1>1. CASE UNCHANGED vars
  BY <1>1 DEF vars, Placed, LoopPlaced, ApiPlaced, LifePlaced
<1>2. ASSUME LoopPlaced', ApiPlaced', LifePlaced', UNCHANGED transfers, Next PROVE Placed'
  BY <1>2, BudgetUsed DEF Placed
<1>3. ASSUME UNCHANGED <<loop, life>> PROVE LoopPlaced'
  BY <1>3 DEF Placed, LoopPlaced
<1>4. ASSUME UNCHANGED <<api, life>> PROVE ApiPlaced' /\ LifePlaced'
  BY <1>4 DEF Placed, ApiPlaced, LifePlaced
<1> USE NextParts DEF aside
<1>5. CASE Next /\ LoopWork
  BY <1>2, <1>4, <1>5, LoopWorkLeaves, LoopMoves DEF Placed
<1>6. CASE Next /\ SaveWork
  BY <1>2, <1>6, SaveWorkLeaves, SavesMove DEF Placed
<1>7. CASE Next /\ PortCalls
  BY <1>2, <1>7, PortCallsLeave, PortCallsMove DEF Placed
<1>8. CASE Next /\ ServerCalls
  BY <1>2, <1>3, <1>8, ServerCallsLeave, ServerCallsMove DEF Placed
<1>9. CASE Next /\ SearchWork
  BY <1>2, <1>3, <1>9, SearchWorkLeaves, SearchWorkMoves DEF Placed
<1>10. CASE Next /\ ChangeCalls
  BY <1>3, <1>10, ChangeCallsLeave, ChangeCallsMove, BudgetUsed DEF Placed
<1>11. CASE Next /\ StopCalls
  <2>1. LoopPlaced'
    BY <1>11, StopCallsMove, StopCallsLeave DEF Placed, LoopPlaced
  <2> QED BY <1>2, <1>11, <2>1, StopCallsLeave, StopCallsMove DEF Placed
<1>12. CASE Next /\ WatchWork
  <2>1. transfers' \in Snapshots
    BY <1>12 DEF WatchWork, StatusStep, StatusTick, StatusSent, ProgressSent, SubscriberStep,
       BuildFirst, SendFirst, ReceiveEvent, WaitEnds, CancelSubscription, Wait, SubscribeTo,
       Tells, TransferFinishes, Snapshots, States, Placed
  <2> QED BY <1>3, <1>4, <1>12, <2>1, WatchWorkLeaves, BudgetUsed DEF Placed
<1>13. CASE Next /\ (MapWork \/ TimePasses)
  BY <1>2, <1>3, <1>4, <1>13, MapWorkLeaves, TimeLeaves
<1> QED BY <1>1, <1>5, <1>6, <1>7, <1>8, <1>9, <1>10, <1>11, <1>12, <1>13

(***************************************************************************)
(* The port mapping                                                        *)
(***************************************************************************)
PortRecord ==
  [manager : Seq(ManagerRecord), current : Managers \cup {NoManager},
   stopping : Managers \cup {NoManager}, router : SUBSET Mappings, astray : SUBSET Mappings]

\* What is mapped is in the local variable while the manager asks, and in its
\* field afterwards.
ManagerSound(m) ==
  /\ m \in ManagerRecord
  /\ m.at = "done" => m.mapped = {} /\ m.ports = << >>
  /\ m.at # "done" => m.mappings = {}
  /\ m.at \in {"begins", "discovers"} => m.mapped = {} /\ m.ports = << >>
  /\ m.ports # << >> => m.gateway \in Gateways

PortsSound(p) ==
  /\ p \in PortRecord /\ Len(p.manager) <= 2
  /\ \A k \in DOMAIN p.manager : ManagerSound(p.manager[k])
  /\ {p.current, p.stopping} \subseteq DOMAIN p.manager \cup {NoManager}
  /\ p.current = NoManager \/ p.stopping = NoManager
  /\ \A k \in DOMAIN p.manager : k \notin {p.current, p.stopping} => p.manager[k].at = "done"
  /\ p.router \subseteq Known(p) \cup p.astray
  /\ Known(p) \subseteq p.router

\* A manager is in stop only while the calling thread waits for it or deletes
\* its mappings, and then it has returned. Start makes the two managers.
PortsPlaced ==
  /\ ports.stopping # NoManager => api.at \in Unmapping
  /\ api.at = "delete" /\ ports.stopping # NoManager => ports.manager[ports.stopping].at = "done"
  /\ api.at = "tracker" \/ api.after \in {"refresh", "fail"} => Len(ports.manager) <= 1
  /\ life.run = "new" /\ api.at # "tracker" /\ api.after \notin {"refresh", "fail"}
       => ports.manager = << >>

\* A manager of which the session knows is the only one.
LEMMA KnownManager ==
  ASSUME NEW p, p.current = NoManager \/ p.stopping = NoManager,
         NEW k \in Managers, k \in {p.current, p.stopping}
  PROVE  Known(p) = p.manager[k].mapped \cup p.manager[k].mappings
<1>1. {p.current, p.stopping} \ {NoManager} = {k}
  BY PortMappingAssumption
<1> DEFINE M == p.manager
<1>2. Known(p) = UNION {M[j].mapped \cup M[j].mappings : j \in {k}}
  BY <1>1 DEF Known
<1> HIDE DEF M
<1>3. Known(p) = M[k].mapped \cup M[k].mappings
  BY <1>2
<1> QED BY <1>3 DEF M

\* Without a manager in the session no mapping is known.
LEMMA KnownNone ==
  ASSUME NEW p, p.current = NoManager, p.stopping = NoManager
  PROVE  Known(p) = {}
  BY DEF Known

\* Managers are numbered from 1.
LEMMA DomainOfManagers ==
  ASSUME NEW p, PortsSound(p)
  PROVE  DOMAIN p.manager = 1..Len(p.manager) /\ DOMAIN p.manager \subseteq Managers
  BY DEF PortsSound, PortRecord, Managers

\* A step of a manager, or of the thread that deletes its mappings
Stepped(p, k, m, router, astray) ==
  [p EXCEPT !.manager = [p.manager EXCEPT ![k] = m], !.router = router, !.astray = astray]

\* A manager that the session has may go on to any sound state that owns what is mapped.
LEMMA ManagerSteps ==
  ASSUME NEW p, PortsSound(p), NEW k \in DOMAIN p.manager, k \in {p.current, p.stopping},
         NEW m, ManagerSound(m), NEW router \in SUBSET Mappings, NEW astray \in SUBSET Mappings,
         router \subseteq m.mapped \cup m.mappings \cup astray,
         m.mapped \cup m.mappings \subseteq router
  PROVE  LET q == Stepped(p, k, m, router, astray)
         IN /\ PortsSound(q) /\ Len(q.manager) = Len(p.manager) /\ q.manager[k] = m
            /\ q.current = p.current /\ q.stopping = p.stopping
            /\ \A j \in DOMAIN q.manager : j # k => q.manager[j] = p.manager[j]
<1> DEFINE q == Stepped(p, k, m, router, astray)
<1> DEFINE M == [p.manager EXCEPT ![k] = m]
<1>1. /\ p \in PortRecord /\ k \in Managers /\ m \in ManagerRecord
      /\ p.manager \in Seq(ManagerRecord)
  BY DomainOfManagers DEF PortsSound, PortRecord, ManagerSound
<1>2. /\ M \in Seq(ManagerRecord) /\ Len(M) = Len(p.manager) /\ DOMAIN M = DOMAIN p.manager
      /\ \A j \in DOMAIN M : M[j] = IF j = k THEN m ELSE p.manager[j]
  BY <1>1
<1> HIDE DEF M
<1>3. /\ q.manager = M /\ q.router = router /\ q.astray = astray
      /\ q.current = p.current /\ q.stopping = p.stopping /\ q \in PortRecord
  BY <1>1, <1>2 DEF PortRecord, M, Stepped
<1> HIDE DEF q
<1>4. Known(q) = m.mapped \cup m.mappings
  <2>1. Known(q) = q.manager[k].mapped \cup q.manager[k].mappings
    BY <1>1, <1>3, KnownManager DEF PortsSound
  <2> QED BY <1>2, <1>3, <2>1
<1>5. \A j \in DOMAIN q.manager : ManagerSound(q.manager[j])
  BY <1>2, <1>3 DEF PortsSound
<1>6. \A j \in DOMAIN q.manager : j \notin {q.current, q.stopping} => q.manager[j].at = "done"
  BY <1>2, <1>3 DEF PortsSound
<1>7. PortsSound(q)
  BY <1>2, <1>3, <1>4, <1>5, <1>6 DEF PortsSound
<1> QED BY <1>2, <1>3, <1>7 DEF q

\* startUPnPMapping makes a manager when there is none.
LEMMA MappingStarts ==
  ASSUME NEW p, PortsSound(p), p.stopping = NoManager, Len(p.manager) <= 1, NEW udp \in BOOLEAN
  PROVE  LET q == startUPnPMapping(p, udp)
         IN PortsSound(q) /\ q.stopping = NoManager /\ Len(q.manager) <= Len(p.manager) + 1
<1> DEFINE q == startUPnPMapping(p, udp)
           new == [at |-> "begins", ended |-> FALSE, todo |-> {}, gateway |-> NoManager,
                   wanted |-> Desired(udp), ports |-> << >>, mapped |-> {}, mappings |-> {}]
           n == Len(p.manager) + 1
           M == Append(p.manager, new)
<1>1. CASE p.current # NoManager
  BY <1>1 DEF startUPnPMapping, PortsSound, PortRecord
<1>2. CASE p.current = NoManager
  <2>1. q = [p EXCEPT !.manager = M, !.current = n]
    BY <1>2 DEF startUPnPMapping
  <2>2. ManagerSound(new) /\ new \in ManagerRecord /\ new.mapped = {} /\ new.mappings = {}
    <3>1. Desired(udp) \in Seq({TCP, UDP}) /\ << >> \in Seq({TCP, UDP})
      <4> DEFINE Protocols == {TCP, UDP}
      <4>1. TCP \in Protocols /\ UDP \in Protocols
        OBVIOUS
      <4> HIDE DEF Protocols
      <4>2. <<TCP, UDP>> \in Seq(Protocols) /\ <<TCP>> \in Seq(Protocols) /\ << >> \in Seq(Protocols)
        BY <4>1
      <4> QED BY <4>2 DEF Desired, Protocols
    <3>2. new \in ManagerRecord
      BY <3>1 DEF ManagerRecord
    <3> QED BY <3>2 DEF ManagerSound
  <2> HIDE DEF new
  <2>3. /\ M \in Seq(ManagerRecord) /\ Len(M) = n /\ n \in Managers /\ n \in DOMAIN M
        /\ \A k \in DOMAIN p.manager : k \in DOMAIN M /\ M[k] = p.manager[k]
        /\ M[n] = new /\ \A k \in DOMAIN M : k \in DOMAIN p.manager \/ k = n
    BY <2>2 DEF PortsSound, PortRecord, Managers
  <2> HIDE DEF M, n
  <2>4. /\ q.manager = M /\ q.current = n /\ q.stopping = NoManager
        /\ q.router = p.router /\ q.astray = p.astray /\ q \in PortRecord
    BY <2>1, <2>3 DEF PortRecord, PortsSound
  <2> HIDE DEF q
  <2>5. Known(q) = {}
    BY <2>2, <2>3, <2>4, KnownManager
  <2>6. Known(p) = {}
    BY <1>2, KnownNone
  <2>7. \A k \in DOMAIN q.manager : ManagerSound(q.manager[k])
    BY <2>2, <2>3, <2>4 DEF PortsSound
  <2>8. \A k \in DOMAIN q.manager : k \notin {q.current, q.stopping} => q.manager[k].at = "done"
    BY <1>2, <2>3, <2>4, DomainOfManagers, PortMappingAssumption DEF PortsSound
  <2>9. Len(q.manager) = Len(p.manager) + 1 /\ Len(q.manager) <= 2
    BY <2>3, <2>4 DEF n, PortsSound, PortRecord
  <2>10. PortsSound(q)
    BY <2>3, <2>4, <2>5, <2>6, <2>7, <2>8, <2>9 DEF PortsSound
  <2> QED BY <2>4, <2>9, <2>10 DEF q, PortsSound, PortRecord
<1> QED BY <1>1, <1>2

\* stopUPnPMapping moves the manager from upnp to the one it waits for.
LEMMA MappingCancelled ==
  ASSUME NEW p, PortsSound(p), p.stopping = NoManager
  PROVE  LET q == Cancelled(p)
         IN /\ PortsSound(q) /\ q.current = NoManager /\ Len(q.manager) = Len(p.manager)
            /\ q.stopping # NoManager => p.current # NoManager
<1> DEFINE q == Cancelled(p)
           k == p.current
           m == [p.manager[k] EXCEPT !.ended = TRUE]
           M == [p.manager EXCEPT ![k] = m]
<1>1. CASE k = NoManager
  BY <1>1 DEF Cancelled
<1>2. CASE k # NoManager
  <2>1. q = [p EXCEPT !.manager = M, !.stopping = k, !.current = NoManager]
    BY <1>2 DEF Cancelled
  <2>2. k \in DOMAIN p.manager /\ k \in Managers
    BY <1>2, DomainOfManagers DEF PortsSound
  <2>3. p.manager[k] \in ManagerRecord /\ ManagerSound(p.manager[k])
    BY <2>2 DEF PortsSound, ManagerSound
  <2>4. m \in ManagerRecord /\ ManagerSound(m) /\ m.mapped = p.manager[k].mapped
        /\ m.mappings = p.manager[k].mappings
    BY <2>3 DEF ManagerRecord, ManagerSound
  <2> HIDE DEF m
  <2>5. /\ M \in Seq(ManagerRecord) /\ Len(M) = Len(p.manager) /\ DOMAIN M = DOMAIN p.manager
        /\ \A j \in DOMAIN M : M[j] = IF j = k THEN m ELSE p.manager[j]
    BY <2>2, <2>4 DEF PortsSound, PortRecord
  <2> HIDE DEF M
  <2>6. /\ q.manager = M /\ q.current = NoManager /\ q.stopping = k
        /\ q.router = p.router /\ q.astray = p.astray /\ q \in PortRecord
    BY <2>1, <2>2, <2>5 DEF PortRecord, PortsSound
  <2> HIDE DEF q
  <2>7. Known(q) = Known(p)
    <3>1. Known(q) = q.manager[k].mapped \cup q.manager[k].mappings
      BY <2>2, <2>6, KnownManager
    <3>2. Known(p) = p.manager[k].mapped \cup p.manager[k].mappings
      BY <2>2, KnownManager DEF PortsSound
    <3> QED BY <2>2, <2>4, <2>5, <2>6, <3>1, <3>2
  <2>8. \A j \in DOMAIN q.manager : ManagerSound(q.manager[j])
    BY <2>4, <2>5, <2>6 DEF PortsSound
  <2>9. \A j \in DOMAIN q.manager : j \notin {q.current, q.stopping} => q.manager[j].at = "done"
    BY <2>5, <2>6 DEF PortsSound
  <2>10. PortsSound(q)
    BY <2>2, <2>5, <2>6, <2>7, <2>8, <2>9 DEF PortsSound
  <2> QED BY <1>2, <2>5, <2>6, <2>10 DEF q
<1> QED BY <1>1, <1>2

\* A manager that is done and has deleted its mappings may be forgotten.
LEMMA MappingClosed ==
  ASSUME NEW p, PortsSound(p),
         p.stopping # NoManager => /\ p.manager[p.stopping].at = "done"
                                   /\ p.manager[p.stopping].mappings = {}
  PROVE  LET q == Closed(p)
         IN /\ PortsSound(q) /\ q.stopping = NoManager /\ q.manager = p.manager
            /\ q.current = p.current
<1> DEFINE q == Closed(p)
<1>1. /\ q.manager = p.manager /\ q.current = p.current /\ q.stopping = NoManager
      /\ q.router = p.router /\ q.astray = p.astray /\ q \in PortRecord
  BY DEF Closed, PortsSound, PortRecord
<1> HIDE DEF q
<1>2. Known(q) = Known(p)
  <2>1. CASE p.stopping = NoManager
    BY <1>1, <2>1 DEF Known
  <2>2. CASE p.stopping # NoManager
    <3>1. p.stopping \in DOMAIN p.manager /\ p.stopping \in Managers
      BY <2>2, DomainOfManagers DEF PortsSound
    <3>2. Known(p) = {}
      BY <2>2, <3>1, KnownManager DEF PortsSound, ManagerSound
    <3>3. Known(q) = {}
      BY <1>1, <2>2, KnownNone DEF PortsSound
    <3> QED BY <3>2, <3>3
  <2> QED BY <2>1, <2>2
<1>3. PortsSound(q)
  BY <1>1, <1>2 DEF PortsSound
<1> QED BY <1>1, <1>3 DEF q

\* A mapping that is deleted is gone, or astray when the gateway refused.
LEMMA MappingDeleted ==
  ASSUME NEW p, PortsSound(p), ~Stopped(p), MapperDone(p),
         NEW mapping \in Undeleted(p), NEW ok \in BOOLEAN
  PROVE  LET q == DeletePortMapping(p, mapping, ok)
         IN /\ PortsSound(q) /\ q.stopping = p.stopping /\ Len(q.manager) = Len(p.manager)
            /\ MapperDone(q)
<1> DEFINE q == DeletePortMapping(p, mapping, ok)
           k == p.stopping
           m == [p.manager[k] EXCEPT !.mappings = @ \ {mapping}]
           M == [p.manager EXCEPT ![k] = m]
           router == IF ok THEN p.router \ {mapping} ELSE p.router
           astray == IF ok THEN p.astray ELSE p.astray \cup {mapping}
<1>1. k \in DOMAIN p.manager /\ k \in Managers
  BY DomainOfManagers DEF PortsSound, Stopped
<1>2. ManagerSound(p.manager[k]) /\ p.manager[k] \in ManagerRecord
  BY <1>1 DEF PortsSound, ManagerSound
<1>3. q = Stepped(p, k, m, router, astray)
  BY DEF DeletePortMapping, Stepped
<1>4. /\ ManagerSound(m) /\ m.mapped = {} /\ m.mappings = p.manager[k].mappings \ {mapping}
      /\ m.at = "done" /\ mapping \in p.manager[k].mappings /\ mapping \in Mappings
  BY <1>2 DEF ManagerSound, ManagerRecord, MapperDone, Undeleted
<1>5. Known(p) = p.manager[k].mappings
  <2>1. Known(p) = p.manager[k].mapped \cup p.manager[k].mappings
    BY <1>1, KnownManager DEF PortsSound
  <2> QED BY <1>2, <2>1 DEF ManagerSound, MapperDone
<1>6. /\ router \in SUBSET Mappings /\ astray \in SUBSET Mappings
      /\ router \subseteq m.mapped \cup m.mappings \cup astray
      /\ m.mapped \cup m.mappings \subseteq router
  BY <1>4, <1>5 DEF PortsSound, PortRecord
<1>9. k \in {p.current, p.stopping}
  OBVIOUS
<1> HIDE DEF q, m, k, router, astray
<1>7. /\ PortsSound(q) /\ Len(q.manager) = Len(p.manager) /\ q.manager[k] = m
      /\ q.stopping = p.stopping
  <2>1. ManagerSound(m) /\ k \in DOMAIN p.manager
    BY <1>1, <1>4
  <2>2. PortsSound(Stepped(p, k, m, router, astray))
    BY <2>1, <1>6, <1>9, ManagerSteps
  <2>3. /\ Len(Stepped(p, k, m, router, astray).manager) = Len(p.manager)
        /\ Stepped(p, k, m, router, astray).manager[k] = m
        /\ Stepped(p, k, m, router, astray).stopping = p.stopping
    BY <2>1, <1>6, <1>9, ManagerSteps
  <2> QED BY <1>3, <2>2, <2>3
<1> QED BY <1>4, <1>7 DEF MapperDone, q, k

\* What a manager leaves alone
MapperKeeps(p, q) ==
  /\ PortsSound(q) /\ Len(q.manager) = Len(p.manager)
  /\ q.current = p.current /\ q.stopping = p.stopping
  /\ \A j \in DOMAIN p.manager : p.manager[j].at = "done" => q.manager[j].at = "done"

\* A step of a manager that is not done, which the session therefore has.
LEMMA ManagerGoes ==
  ASSUME NEW p, PortsSound(p), NEW k \in DOMAIN p.manager, p.manager[k].at # "done",
         NEW m, ManagerSound(m), NEW router \in SUBSET Mappings, NEW astray \in SUBSET Mappings,
         router \subseteq m.mapped \cup m.mappings \cup astray,
         m.mapped \cup m.mappings \subseteq router
  PROVE  MapperKeeps(p, Stepped(p, k, m, router, astray))
<1> DEFINE q == Stepped(p, k, m, router, astray)
<1>1. k \in {p.current, p.stopping}
  BY DEF PortsSound
<1>2. PortsSound(q)
  BY <1>1, ManagerSteps
<1>3. Len(q.manager) = Len(p.manager)
  BY <1>1, ManagerSteps
<1>4. q.current = p.current /\ q.stopping = p.stopping
  BY DEF Stepped, PortsSound, PortRecord
<1>5. \A j \in DOMAIN q.manager : j # k => q.manager[j] = p.manager[j]
  BY <1>1, ManagerSteps
<1> HIDE DEF q
<1>6. DOMAIN q.manager = DOMAIN p.manager
  BY <1>2, <1>3, DomainOfManagers
<1> QED BY <1>2, <1>3, <1>4, <1>5, <1>6 DEF MapperKeeps, q

\* Each step of the goroutine: to begin, to discover, to ask the next gateway, to map.
LEMMA MapStepKeeps ==
  ASSUME NEW p, PortsSound(p), NEW k \in DOMAIN p.manager, p.manager[k].at # "done"
  PROVE  /\ p.manager[k].at = "begins" => MapperKeeps(p, Begin(p, k))
         /\ p.manager[k].at = "discovers" =>
              \A d \in Discoveries : MapperKeeps(p, Discover(p, k, d[1], d[2]))
         /\ p.manager[k].at = "asks" /\ p.manager[k].ports = << >> =>
              \A q \in NextGateway(p, k) : MapperKeeps(p, q)
         /\ p.manager[k].at = "asks" /\ p.manager[k].ports # << >> =>
              \A outcome \in {"mapped", "refused", "lost"} :
                MapperKeeps(p, AddPortMapping(p, k, outcome))
<1> DEFINE m == p.manager[k]
<1>0. k \in Managers /\ k \in {p.current, p.stopping}
  BY DomainOfManagers DEF PortsSound
<1>1. /\ ManagerSound(m) /\ m \in ManagerRecord /\ m.mappings = {}
      /\ p.router \in SUBSET Mappings /\ p.astray \in SUBSET Mappings
  BY DEF PortsSound, ManagerSound, PortRecord
<1>2. Known(p) = m.mapped
  <2>1. Known(p) = m.mapped \cup m.mappings
    BY <1>0, KnownManager DEF PortsSound
  <2> QED BY <1>1, <2>1
<1>3. p.router \subseteq m.mapped \cup p.astray /\ m.mapped \subseteq p.router
  BY <1>2 DEF PortsSound
<1>4. ASSUME NEW n, ManagerSound(n), n.mapped \cup n.mappings = m.mapped
      PROVE  MapperKeeps(p, Stepped(p, k, n, p.router, p.astray))
  BY <1>1, <1>3, <1>4, ManagerGoes
<1>5. ASSUME m.at = "begins" PROVE MapperKeeps(p, Begin(p, k))
  <2> DEFINE at == IF m.ended THEN "done" ELSE "discovers"
             n == [m EXCEPT !.at = at]
  <2>1. at \in {"done", "discovers"}
    OBVIOUS
  <2>2. Begin(p, k) = [p EXCEPT !.manager = [p.manager EXCEPT ![k] = n]]
    BY DEF Begin
  <2> HIDE DEF at
  <2>3. ManagerSound(n) /\ n.mapped \cup n.mappings = m.mapped
    BY <1>1, <1>5, <2>1 DEF ManagerSound, ManagerRecord
  <2>4. [p EXCEPT !.manager = [p.manager EXCEPT ![k] = n]]
          = Stepped(p, k, n, p.router, p.astray)
    BY DEF Stepped, PortsSound, PortRecord
  <2> HIDE DEF n
  <2> QED BY <1>4, <2>2, <2>3, <2>4
<1>6. ASSUME m.at = "discovers", NEW d \in Discoveries
      PROVE  MapperKeeps(p, Discover(p, k, d[1], d[2]))
  <2> DEFINE at == IF d[1] = {} THEN "done" ELSE "asks"
             ended == m.ended \/ d[2]
             n == [m EXCEPT !.at = at, !.todo = d[1], !.ended = ended]
  <2>1. at \in {"done", "asks"} /\ ended \in BOOLEAN /\ d[1] \in SUBSET Gateways
    BY DEF Discoveries
  <2>2. Discover(p, k, d[1], d[2]) = [p EXCEPT !.manager = [p.manager EXCEPT ![k] = n]]
    BY DEF Discover
  <2> HIDE DEF at, ended
  <2>3. ManagerSound(n) /\ n.mapped \cup n.mappings = m.mapped
    BY <1>1, <1>6, <2>1 DEF ManagerSound, ManagerRecord
  <2>4. [p EXCEPT !.manager = [p.manager EXCEPT ![k] = n]]
          = Stepped(p, k, n, p.router, p.astray)
    BY DEF Stepped, PortsSound, PortRecord
  <2> HIDE DEF n
  <2> QED BY <1>4, <2>2, <2>3, <2>4
<1>7. ASSUME m.at = "asks", m.ports = << >>, NEW q \in NextGateway(p, k)
      PROVE  MapperKeeps(p, q)
  <2>1. CASE m.todo = {} \/ m.ended
    <3> DEFINE n == [m EXCEPT !.at = "done", !.todo = {}, !.gateway = NoManager,
                              !.mapped = {}, !.mappings = m.mapped]
    <3>1. q = [p EXCEPT !.manager = [p.manager EXCEPT ![k] = n]]
      <4>1. q = [p EXCEPT !.manager[k].at = "done", !.manager[k].todo = {},
                          !.manager[k].gateway = NoManager, !.manager[k].mapped = {},
                          !.manager[k].mappings = m.mapped]
        BY <2>1 DEF NextGateway
      <4> DEFINE n1 == [m EXCEPT !.at = "done", !.todo = {}, !.gateway = NoManager]
                 q1 == [p EXCEPT !.manager = [p.manager EXCEPT ![k] = n1]]
      <4>2. q1 = [p EXCEPT !.manager[k].at = "done", !.manager[k].todo = {},
                           !.manager[k].gateway = NoManager]
        OBVIOUS
      <4>3. q = [q1 EXCEPT !.manager[k].mapped = {}, !.manager[k].mappings = m.mapped]
        BY <4>1, <4>2
      <4>4. /\ q1.manager = [p.manager EXCEPT ![k] = n1]
            /\ \A r : [q1 EXCEPT !.manager = r] = [p EXCEPT !.manager = r]
        BY DEF PortsSound, PortRecord
      <4> HIDE DEF q1
      <4>5. q = [p EXCEPT !.manager =
                   [q1.manager EXCEPT ![k].mapped = {}, ![k].mappings = m.mapped]]
        BY <4>3, <4>4
      <4>6. [q1.manager EXCEPT ![k].mapped = {}, ![k].mappings = m.mapped]
              = [p.manager EXCEPT ![k] = n]
        BY <4>4
      <4> QED BY <4>5, <4>6
    <3>2. ManagerSound(n) /\ n.mapped \cup n.mappings = m.mapped
      BY <1>1, <1>7 DEF ManagerSound, ManagerRecord
    <3>3. [p EXCEPT !.manager = [p.manager EXCEPT ![k] = n]]
            = Stepped(p, k, n, p.router, p.astray)
      BY DEF Stepped, PortsSound, PortRecord
    <3> HIDE DEF n
    <3> QED BY <1>4, <3>1, <3>2, <3>3
  <2>2. CASE ~(m.todo = {} \/ m.ended)
    <3>0. PICK g \in m.todo :
            q = [p EXCEPT !.manager[k].todo = @ \ {g}, !.manager[k].gateway = g,
                          !.manager[k].ports = m.wanted]
      BY <2>2 DEF NextGateway
    <3> DEFINE n == [m EXCEPT !.todo = @ \ {g}, !.gateway = g, !.ports = m.wanted]
    <3>1. q = [p EXCEPT !.manager = [p.manager EXCEPT ![k] = n]]
      BY <3>0
    <3>2. ManagerSound(n) /\ n.mapped \cup n.mappings = m.mapped
      BY <1>1, <1>7, <3>0 DEF ManagerSound, ManagerRecord
    <3>3. [p EXCEPT !.manager = [p.manager EXCEPT ![k] = n]]
            = Stepped(p, k, n, p.router, p.astray)
      BY DEF Stepped, PortsSound, PortRecord
    <3> HIDE DEF n
    <3> QED BY <1>4, <3>1, <3>2, <3>3
  <2> QED BY <2>1, <2>2
<1>8. ASSUME m.at = "asks", m.ports # << >>, NEW outcome \in {"mapped", "refused", "lost"}
      PROVE  MapperKeeps(p, AddPortMapping(p, k, outcome))
  <2> DEFINE mapping == <<m.gateway, Head(m.ports)>>
             mapped == IF outcome = "mapped" THEN m.mapped \cup {mapping} ELSE m.mapped
             n == [m EXCEPT !.ports = Tail(@), !.mapped = mapped]
             router == IF outcome = "refused" THEN p.router ELSE p.router \cup {mapping}
             astray == CASE outcome = "mapped" -> p.astray \ {mapping}
                         [] outcome = "lost" -> p.astray \cup {mapping}
                         [] OTHER -> p.astray
  <2>1. mapping \in Mappings
    BY <1>1, <1>8 DEF ManagerSound, ManagerRecord, Mappings
  <2>2. AddPortMapping(p, k, outcome) = Stepped(p, k, n, router, astray)
    BY DEF AddPortMapping, Stepped
  <2> HIDE DEF mapping
  <2>3. mapped \in SUBSET Mappings /\ router \in SUBSET Mappings /\ astray \in SUBSET Mappings
    BY <1>1, <2>1 DEF ManagerRecord
  <2>4. router \subseteq mapped \cup astray /\ mapped \subseteq router
    BY <1>3
  <2> HIDE DEF mapped, router, astray
  <2>5. Tail(m.ports) \in Seq({TCP, UDP})
    BY <1>1, <1>8 DEF ManagerRecord
  <2>6. ManagerSound(n) /\ n.mapped = mapped /\ n.mappings = {}
    BY <1>1, <1>8, <2>3, <2>5 DEF ManagerSound, ManagerRecord
  <2> HIDE DEF n
  <2>7. MapperKeeps(p, Stepped(p, k, n, router, astray))
    BY <2>3, <2>4, <2>6, ManagerGoes
  <2> QED BY <2>2, <2>7
<1> QED BY <1>5, <1>6, <1>7, <1>8

\* Where the calling thread starts and stops the mapping
PortPlaces == {"tracker"} \cup Unmapping

\* Other steps neither touch the mapping nor pass the places that depend on it.
LEMMA PortsStay ==
  ASSUME Placed, Next, ~PortCalls, ~MapWork
  PROVE  /\ ports' = ports /\ life'.run = life.run
         /\ api' = api \/ (api.at \notin PortPlaces /\ api'.at \notin PortPlaces)
<1> USE DEF PortPlaces, Unmapping
<1>1. CASE LoopWork \/ WatchWork \/ TimePasses
  BY <1>1, LoopWorkLeaves, WatchWorkLeaves, TimeLeaves DEF aside
<1>2. CASE SaveWork
  <2>1. PICK w \in Savers : SaveStep(w)
    BY <1>2 DEF SaveWork
  <2>2. ASSUME w = "api" PROVE api.at \notin PortPlaces /\ api'.at \notin PortPlaces
    <3>0. api.at \in Saving
      BY <2>1, <2>2 DEF SaveStep, snapshotState, OpenTemporary, WriteTemporary, WriteFails,
         RenameTemporary, RenameFails, RemoveTemporary, At, Saving
    <3>1. ASSUME NEW at \in {"open", "write", "rename", "remove"}, Goes(w, at)
          PROVE  api'.at \notin PortPlaces
      BY <2>2, <3>1 DEF Goes, Placed, ApiPlaced, ApiRecord
    <3>2. ASSUME NEW ok, Saved(w, ok) PROVE api'.at \notin PortPlaces
      <4>1. CASE api' = Emitting
        BY <4>1 DEF Emitting, IdleApi
      <4>2. CASE api' # Emitting
        <5> DEFINE stops == api.stops
                   failed == ~ok
        <5>1. api' = [IdleApi EXCEPT !.at = IF stops THEN "stopped" ELSE "idle",
                                     !.stops = stops, !.failed = failed]
          BY <2>2, <3>2, <4>2 DEF Saved
        <5> HIDE DEF stops, failed
        <5> QED BY <5>1 DEF IdleApi
      <4> QED BY <4>1, <4>2
    <3> QED BY <2>1, <3>0, <3>1, <3>2 DEF SaveStep, snapshotState, OpenTemporary,
            WriteTemporary, WriteFails, RenameTemporary, RenameFails, RemoveTemporary, Saving
  <2>3. ASSUME w = "loop" PROVE api' = api
    BY <2>1, <2>3 DEF SaveStep, snapshotState, OpenTemporary, WriteTemporary, WriteFails,
       RenameTemporary, RenameFails, RemoveTemporary, Goes, Saved
  <2> QED BY <1>2, <2>2, <2>3, SaveWorkLeaves DEF Savers, aside
<1>3. CASE ServerCalls
  <2>1. ASSUME NEW s \in Servers, NEW moved \in BOOLEAN, ConnectTo(s, moved)
        PROVE  api.at \notin PortPlaces /\ api'.at \notin PortPlaces
    BY <2>1 DEF ConnectTo, Calls, Placed, ApiPlaced, ApiRecord
  <2>2. ASSUME NEW ok \in BOOLEAN, ApiDialEnds(ok)
        PROVE  api.at \notin PortPlaces /\ api'.at \notin PortPlaces
    BY <2>2 DEF ApiDialEnds, IdleApi
  <2> QED BY <1>3, <2>1, <2>2, ServerCallsLeave DEF ServerCalls, aside
<1>4. CASE SearchWork
  <2>1. CASE StopSearch \/ DHTAnswers \/ DeadlinePasses
    BY <2>1 DEF StopSearch, DHTAnswers, DeadlinePasses, aside
  <2>2. CASE \E scope \in SUBSET {"server", "dht"} : StartSearch(scope)
    BY <2>2 DEF StartSearch, Calls, Placed, ApiPlaced, ApiRecord, aside
  <2>3. CASE sendSearchRequest
    <3> DEFINE sent == "server" \in api.scope /\ \E c \in Active(srv) : Shaken(srv, c)
    <3>1. api' = [api EXCEPT !.at = "askDHT", !.sent = sent] /\ api.at = "ask"
      BY <2>3 DEF sendSearchRequest
    <3> HIDE DEF sent
    <3>2. api'.at = "askDHT"
      BY <3>1 DEF Placed, ApiPlaced, ApiRecord
    <3> QED BY <2>3, <3>1, <3>2 DEF sendSearchRequest, aside
  <2>4. ASSUME NEW ok \in BOOLEAN, startDHTSearch(ok) \/ SearchKeywords(ok)
        PROVE  api.at \notin PortPlaces /\ api'.at \notin PortPlaces
    BY <2>4 DEF startDHTSearch, SearchKeywords, IdleApi, Placed, ApiPlaced, ApiRecord
  <2> QED BY <1>4, <2>1, <2>2, <2>3, <2>4, SearchWorkLeaves DEF SearchWork, aside
<1>5. CASE ChangeCalls
  <2>1. ASSUME Change \/ SendStatus \/ SendProgress
        PROVE  api.at \notin PortPlaces /\ api'.at \notin PortPlaces
    <3> USE DEF Placed, ApiPlaced, ApiRecord
    <3>1. CASE Change
      BY <3>1 DEF Change, Calls
    <3>2. CASE SendStatus
      BY <3>2 DEF SendStatus
    <3>3. CASE SendProgress
      BY <3>3 DEF SendProgress, IdleApi
    <3> QED BY <2>1, <3>1, <3>2, <3>3
  <2>2. ASSUME NEW t \in Transfers, NEW state \in States \cup {"absent"}, ChangeTransfer(t, state)
        PROVE  api.at \notin PortPlaces /\ api'.at \notin PortPlaces
    BY <2>2 DEF ChangeTransfer, Calls, IdleApi, Placed, ApiPlaced, ApiRecord
  <2>3. ports' = ports /\ life' = life
    BY <1>5, ChangeCallsLeave
  <2> QED BY <1>5, <2>1, <2>2, <2>3 DEF ChangeCalls
<1>6. CASE StopCalls
  <2>1. life'.run = life.run
    BY <1>6, StopCallsMove DEF Placed
  <2>2. api.at \notin PortPlaces /\ api'.at \notin PortPlaces
    BY <1>6 DEF StopCalls, Stop, EndWait, AfterStop, Calls, Placed, ApiPlaced, ApiRecord
  <2> QED BY <1>6, <2>1, <2>2, StopCallsLeave DEF aside
<1> QED BY <1>1, <1>2, <1>3, <1>4, <1>5, <1>6, NextParts

\* There is no manager at first.
LEMMA PortsInit == Init => PortsSound(ports) /\ PortsPlaced
<1> SUFFICES ASSUME Init PROVE PortsSound(ports) /\ PortsPlaced
  OBVIOUS
<1>1. ports = NewPorts
  BY DEF Init
<1>2. ports \in PortRecord
  BY <1>1 DEF NewPorts, PortRecord, Mappings
<1>3. Known(ports) = {}
  BY <1>1, KnownNone DEF NewPorts
<1>4. PortsSound(ports)
  <2>1. /\ ports.manager = << >> /\ ports.current = NoManager /\ ports.stopping = NoManager
        /\ ports.router = {}
    BY <1>1 DEF NewPorts
  <2>2. DOMAIN ports.manager = {} /\ Len(ports.manager) = 0
    BY <2>1
  <2> HIDE <1>1
  <2> QED BY <1>2, <1>3, <2>1, <2>2 DEF PortsSound
<1>5. PortsPlaced
  BY <1>1 DEF PortsPlaced, NewPorts, Init, IdleApi
<1> QED BY <1>4, <1>5

\* The managers stay sound, whatever the goroutines and Start and Stop do.
LEMMA PortsNext ==
  ASSUME Placed, Placed', PortsSound(ports), PortsPlaced, [Next]_vars
  PROVE  PortsSound(ports)' /\ PortsPlaced'
<1> USE DEF Unmapping
<1>1. CASE UNCHANGED vars
  BY <1>1 DEF vars, PortsSound, Known, PortsPlaced
<1>2. CASE Next /\ ~PortCalls /\ ~MapWork
  <2>1. /\ ports' = ports /\ life'.run = life.run
        /\ api' = api \/ (api.at \notin PortPlaces /\ api'.at \notin PortPlaces)
    BY <1>2, PortsStay
  <2>2. PortsSound(ports)'
    BY <2>1 DEF PortsSound, Known
  <2>3. PortsPlaced'
    BY <2>1 DEF PortsPlaced, PortPlaces, Placed, ApiPlaced
  <2> QED BY <2>2, <2>3
<1>3. CASE MapWork
  <2>1. PICK k \in Managers : MapStep(k)
    BY <1>3 DEF MapWork
  <2>2. k \in DOMAIN ports.manager /\ ports.manager[k].at # "done"
    BY <2>1 DEF MapStep
  <2>3. MapperKeeps(ports, ports')
    BY <2>1, <2>2, MapStepKeeps DEF MapStep, Maps
  <2>4. api' = api /\ life' = life
    BY <1>3, MapWorkLeaves
  <2>5. PortsPlaced'
    BY <2>3, <2>4 DEF PortsPlaced, MapperKeeps, PortsSound, PortRecord
  <2> QED BY <2>3, <2>5 DEF MapperKeeps, PortsSound, Known
<1>4. CASE PortCalls
  <2>0. ASSUME PortsSound(ports') PROVE PortsSound(ports)'
    BY <2>0 DEF PortsSound, Known
  <2>1. ASSUME NEW ok \in BOOLEAN, Started(ok)
        PROVE  /\ api'.at \notin PortPlaces /\ api'.after = "nothing"
               /\ life'.run # "new"
    BY <2>1 DEF Started, Emitting, IdleApi, PortPlaces, Placed, LifePlaced, LifeRecord
  <2>2. ASSUME NEW ok \in BOOLEAN, Start(ok)
        PROVE  PortsSound(ports') /\ PortsPlaced'
    <3>1. ports' = ports /\ api.at = "idle"
      BY <2>2 DEF Start, Calls
    <3> QED BY <2>1, <2>2, <3>1 DEF Start, PortsPlaced, PortPlaces
  <2>3. ASSUME NEW udp \in BOOLEAN, Listen(udp)
        PROVE  PortsSound(ports') /\ PortsPlaced'
    <3>1. /\ ports' = startUPnPMapping(ports, udp) /\ api.at = "idle" /\ life.run = "new"
          /\ api'.at = "tracker" /\ api'.after = api.after
      BY <2>3 DEF Listen, Calls, Placed, ApiPlaced, ApiRecord
    <3>2. ports.manager = << >> /\ ports.stopping = NoManager
      BY <3>1 DEF PortsPlaced, Placed, ApiPlaced
    <3>3. Len(ports.manager) = 0
      BY <3>2
    <3>4. PortsSound(ports') /\ ports'.stopping = NoManager /\ Len(ports'.manager) <= 1
      BY <3>1, <3>2, <3>3, MappingStarts
    <3> QED BY <3>1, <3>4 DEF PortsPlaced
  <2>4. CASE StartWithoutTracker
    <3>1. ports' = ports /\ api.at = "tracker"
      BY <2>4 DEF StartWithoutTracker
    <3> QED BY <2>0, <2>1, <2>4, <3>1 DEF StartWithoutTracker, PortsPlaced, PortPlaces
  <2>5. ASSUME NEW ok \in BOOLEAN, StartTracker(ok)
        PROVE  PortsSound(ports') /\ PortsPlaced'
    <3>1. /\ ports' = Cancelled(ports) /\ api.at = "tracker" /\ api'.at = "unmap"
          /\ api'.after \in {"refresh", "fail"}
      BY <2>5 DEF StartTracker, Placed, ApiPlaced, ApiRecord
    <3>2. ports.stopping = NoManager /\ Len(ports.manager) <= 1
      BY <3>1 DEF PortsPlaced
    <3> QED BY <3>1, <3>2, MappingCancelled DEF PortsPlaced
  <2>6. CASE EndUnmapWait
    <3>1. ports' = ports /\ api.at = "unmap" /\ api'.at = "delete" /\ api'.after = api.after
          /\ life' = life
      BY <2>6 DEF EndUnmapWait, aside, Placed, ApiPlaced, ApiRecord
    <3> QED BY <2>0, <2>6, <3>1 DEF EndUnmapWait, Stopped, MapperDone, PortsPlaced
  <2>7. ASSUME NEW ok \in BOOLEAN, Delete(ok)
        PROVE  PortsSound(ports') /\ PortsPlaced'
    <3>1. PICK mapping \in Undeleted(ports) : ports' = DeletePortMapping(ports, mapping, ok)
      BY <2>7 DEF Delete
    <3>2. ~Stopped(ports) /\ MapperDone(ports) /\ api' = api /\ life' = life /\ api.at = "delete"
      BY <2>7 DEF Delete, PortsPlaced, Stopped, MapperDone
    <3>3. PortsSound(ports') /\ ports'.stopping = ports.stopping /\ MapperDone(ports')
          /\ Len(ports'.manager) = Len(ports.manager)
      BY <3>1, <3>2, MappingDeleted
    <3> QED BY <3>2, <3>3 DEF PortsPlaced, MapperDone, Placed, LifePlaced
  <2>8. CASE EndUnmap
    <3>0. /\ PortsSound(Closed(ports)) /\ Closed(ports).stopping = NoManager
          /\ Closed(ports).manager = ports.manager
      BY <2>8, MappingClosed DEF EndUnmap, Stopped, Undeleted, PortsPlaced
    <3>1. CASE api.after = "refresh"
      <4>1. ports' = startUPnPMapping(Closed(ports), TRUE) /\ Started(TRUE)
        BY <2>8, <3>1 DEF EndUnmap
      <4>2. PortsSound(ports') /\ ports'.stopping = NoManager
        BY <3>0, <3>1, <4>1, MappingStarts DEF PortsPlaced
      <4> QED BY <2>1, <4>1, <4>2 DEF PortsPlaced, PortPlaces
    <3>2. CASE api.after = "fail"
      <4>1. ports' = Closed(ports) /\ Started(FALSE)
        BY <2>8, <3>2 DEF EndUnmap
      <4> QED BY <2>1, <3>0, <4>1 DEF PortsPlaced, PortPlaces
    <3>3. CASE api.after \notin {"refresh", "fail"}
      <4>1. /\ ports' = Closed(ports) /\ api'.at = api.after /\ api'.after = "nothing"
            /\ life' = life /\ api.at = "delete"
        BY <2>8, <3>3 DEF EndUnmap, Placed, ApiPlaced, ApiRecord
      <4>2. api'.at \notin PortPlaces
        BY <3>3, <4>1 DEF Placed, ApiPlaced, ApiRecord, AfterPlaces, PortPlaces
      <4> QED BY <3>0, <3>3, <4>1, <4>2 DEF PortsPlaced, PortPlaces
    <3> QED BY <2>0, <3>1, <3>2, <3>3
  <2>9. CASE DisconnectFrom
    <3>1. /\ ports' = Cancelled(ports) /\ api.at = "disconnect" /\ life' = life
          /\ api.after = "nothing"
      BY <2>9 DEF DisconnectFrom, Placed, ApiPlaced
    <3>2. ports.stopping = NoManager
      BY <3>1 DEF PortsPlaced
    <3>3. /\ PortsSound(ports') /\ ports'.current = NoManager
          /\ Len(ports'.manager) = Len(ports.manager)
          /\ ports'.stopping # NoManager => ports.current # NoManager
      BY <3>1, <3>2, MappingCancelled
    <3>4. api'.at \notin {"tracker", "delete"} /\ api'.after \notin {"refresh", "fail"}
          /\ (ports.current # NoManager => api'.at = "unmap")
      BY <2>9, <3>1 DEF DisconnectFrom, AfterStop, Placed, ApiPlaced, ApiRecord
    <3>5. life.run = "new" => ports'.manager = << >>
      <4>1. SUFFICES ASSUME life.run = "new" PROVE ports'.manager = << >>
        OBVIOUS
      <4>2. ports.manager = << >>
        BY <3>1, <4>1 DEF PortsPlaced
      <4>3. Len(ports'.manager) = 0
        BY <3>3, <4>2
      <4> QED BY <3>3, <4>3 DEF PortsSound, PortRecord
    <3>6. PortsPlaced'
      BY <3>1, <3>3, <3>4, <3>5 DEF PortsPlaced
    <3> QED BY <2>0, <3>3, <3>6
  <2> QED BY <1>4, <2>0, <2>2, <2>3, <2>4, <2>5, <2>6, <2>7, <2>8, <2>9 DEF PortCalls
<1> QED BY <1>1, <1>2, <1>3, <1>4

(***************************************************************************)
(* The state file                                                          *)
(***************************************************************************)
FileData == UNION {[D -> Contents] : D \in SUBSET Inodes}
FileRecord ==
  [data : FileData, path : Inodes \cup {NoFile}, tmp : Inodes \cup {NoFile},
   held : [Writers -> Inodes \cup {NoFile}], taken : [Writers -> 0..MaxVersion]]
InUse(f) == {f.path, f.tmp} \cup Range(f.held)

\* Each inode that is in use has contents, and no other.
FilesSound(f) ==
  /\ f \in FileRecord
  /\ InUse(f) \subseteq DOMAIN f.data \cup {NoFile}
  /\ DOMAIN f.data \subseteq InUse(f)

\* A writer has the file open between OpenTemporary and the end of its write.
\* When Stop saves, the loop does not; from then on the temporary file has what
\* the calling thread puts there, and in the end the state of the client.
FilesPlaced ==
  /\ version \in 0..MaxVersion
  /\ loop.at = "write" <=> files.held["loop"] # NoFile
  /\ api.at = "write" <=> files.held["api"] # NoFile
  /\ api.after = "stopped" => ~Stored
  /\ api.stops /\ ~life.late
       /\ (api.at \in Saving \cup {"stopped"} \/ api.after \in {"snapshot", "stopped"})
       => loop.at \in {"off", "done"}
  /\ api.stops /\ ~life.late /\ Stored =>
       /\ api.at \in {"open", "write"} => files.taken["api"] = version
       /\ api.at = "write" => files.held["api"] = files.tmp /\ files.data[files.tmp] = Empty
       /\ api.at = "rename" => files.tmp # NoFile /\ files.data[files.tmp] = version
       /\ api.at = "stopped" /\ ~api.failed => Loaded(files) = version

\* Two writers: an inode for each, one that is named, one that is temporary.
LEMMA FourInodes == Inodes = 1..4
<1>1. IsFiniteSet({"loop", "api"}) /\ Cardinality({"loop", "api"}) = 2
  <2>1. IsFiniteSet({"loop"}) /\ Cardinality({"loop"}) = 1
    BY FS_Singleton
  <2>2. {"loop", "api"} = {"loop"} \cup {"api"}
    OBVIOUS
  <2>3. Cardinality({"loop"} \cup {"api"}) = 2
    BY <2>1, FS_AddElement
  <2> QED BY <2>1, <2>2, <2>3, FS_AddElement
<1> QED BY <1>1, ClientAssumption DEF Inodes

\* A function from inodes to contents is file data.
LEMMA DataTyped ==
  ASSUME NEW D \in SUBSET Inodes, NEW data \in [D -> Contents]
  PROVE  data \in FileData
  BY DEF FileData

\* File data is a function from inodes to contents.
LEMMA DataIs ==
  ASSUME NEW f, f \in FileRecord
  PROVE  f.data \in [DOMAIN f.data -> Contents] /\ DOMAIN f.data \subseteq Inodes
  BY DEF FileRecord, FileData

\* Linked drops only inodes that nobody has.
LEMMA LinkedKeeps ==
  ASSUME NEW f, f \in FileRecord, InUse(f) \subseteq DOMAIN f.data \cup {NoFile}
  PROVE  LET q == Linked(f)
         IN /\ FilesSound(q)
            /\ q.path = f.path /\ q.tmp = f.tmp /\ q.held = f.held /\ q.taken = f.taken
            /\ \A i \in InUse(f) \ {NoFile} : q.data[i] = f.data[i]
<1> DEFINE D == DOMAIN f.data \cap (Range(f.held) \cup {f.path, f.tmp})
           data == [i \in D |-> f.data[i]]
           q == Linked(f)
<1>1. q = [f EXCEPT !.data = data]
  BY DEF Linked, Restrict
<1>2. data \in FileData /\ DOMAIN data = D
  <2>1. D \in SUBSET Inodes /\ data \in [D -> Contents]
    BY DataIs
  <2> HIDE DEF data, D
  <2> QED BY <2>1, DataTyped
<1> HIDE DEF data
<1>3. /\ q.data = data /\ q.path = f.path /\ q.tmp = f.tmp /\ q.held = f.held
      /\ q.taken = f.taken /\ q \in FileRecord
  BY <1>1, <1>2 DEF FileRecord
<1> HIDE DEF q
<1>4. InUse(q) = InUse(f)
  BY <1>3 DEF InUse
<1>5. InUse(f) \ {NoFile} \subseteq D
  BY DEF InUse
<1>6. FilesSound(q)
  BY <1>2, <1>3, <1>4, <1>5 DEF FilesSound, InUse
<1>7. \A i \in InUse(f) \ {NoFile} : q.data[i] = f.data[i]
  BY <1>3, <1>5 DEF data
<1> QED BY <1>3, <1>6, <1>7 DEF q

\* os.OpenFile with O_TRUNC: the temporary file is there and empty.
LEMMA OpenKeeps ==
  ASSUME NEW f, FilesSound(f), NEW w \in Writers, f.held[w] = NoFile
  PROVE  LET q == Open(f, w)
         IN /\ FilesSound(q) /\ q.tmp # NoFile /\ q.data[q.tmp] = Empty
            /\ q.held = [f.held EXCEPT ![w] = q.tmp] /\ q.taken = f.taken
<1> DEFINE n == CHOOSE n \in Inodes \ DOMAIN f.data : TRUE
           i == IF f.tmp # NoFile THEN f.tmp ELSE n
           D == DOMAIN f.data \cup {i}
           data == [j \in D |-> IF j = i THEN Empty ELSE f.data[j]]
           held == [f.held EXCEPT ![w] = i]
           q == Open(f, w)
<1>0. f \in FileRecord
  BY DEF FilesSound
<1>1. i \in Inodes /\ i # NoFile
  <2>1. CASE f.tmp # NoFile
    BY <1>0, <2>1, StateFileAssumption DEF FileRecord
  <2>2. CASE f.tmp = NoFile
    <3>1. PICK other \in Writers : \A v \in Writers : v = w \/ v = other
      BY ClientAssumption
    <3>2. DOMAIN f.data \subseteq {f.path, f.held[other], NoFile}
      BY <1>0, <2>2, <3>1 DEF FilesSound, InUse, FileRecord, Range
    <3>3. DOMAIN f.data \subseteq Inodes
      BY <1>0, DataIs
    <3>4. \E j \in Inodes : j \notin DOMAIN f.data
      BY <3>2, <3>3, FourInodes, StateFileAssumption
    <3> QED BY <2>2, <3>4, StateFileAssumption
  <2> QED BY <2>1, <2>2
<1> HIDE DEF n, i
<1>2. q = [f EXCEPT !.data = data, !.tmp = i, !.held = held]
  BY DEF Open, i, n
<1>3. data \in FileData /\ DOMAIN data = D /\ data[i] = Empty
  <2>1. D \in SUBSET Inodes /\ data \in [D -> Contents] /\ data[i] = Empty
    BY <1>0, <1>1, DataIs DEF Contents
  <2> HIDE DEF data, D
  <2> QED BY <2>1, DataTyped
<1>4. held \in [Writers -> Inodes \cup {NoFile}]
      /\ \A v \in Writers : held[v] = IF v = w THEN i ELSE f.held[v]
  BY <1>0, <1>1 DEF FileRecord
<1> HIDE DEF data, held
<1>5. /\ q.data = data /\ q.path = f.path /\ q.tmp = i /\ q.held = held
      /\ q.taken = f.taken /\ q \in FileRecord
  BY <1>0, <1>1, <1>2, <1>3, <1>4 DEF FileRecord
<1> HIDE DEF q
<1>6. DOMAIN held = Writers /\ DOMAIN f.held = Writers /\ \A v \in Writers : v # w => held[v] = f.held[v]
  BY <1>0, <1>4 DEF FileRecord
<1>7. InUse(q) \subseteq DOMAIN data \cup {NoFile}
  BY <1>3, <1>4, <1>5, <1>6 DEF InUse, FilesSound, Range
<1>8. DOMAIN data \subseteq InUse(q)
  <2>1. SUFFICES ASSUME NEW j \in DOMAIN f.data, j # i PROVE j \in InUse(q)
    BY <1>3, <1>5 DEF InUse
  <2>2. j \in InUse(f) /\ j # NoFile /\ j # f.tmp
    <3>1. j # NoFile
      BY <1>0, DataIs, StateFileAssumption
    <3> QED BY <2>1, <3>1 DEF FilesSound, i
  <2>3. j = f.path \/ \E v \in Writers : v # w /\ j = f.held[v]
    BY <1>6, <2>2 DEF InUse, Range
  <2> QED BY <1>5, <1>6, <2>3 DEF InUse, Range
<1> QED BY <1>1, <1>3, <1>5, <1>7, <1>8 DEF FilesSound, q, held

\* The writer closes the file; if it still is the temporary one, it has the bytes.
LEMMA WriteKeeps ==
  ASSUME NEW f, FilesSound(f), NEW w \in Writers, f.held[w] # NoFile, NEW bytes \in Contents
  PROVE  LET q == Write(f, w, bytes)
         IN /\ FilesSound(q) /\ q.held = [f.held EXCEPT ![w] = NoFile] /\ q.taken = f.taken
            /\ q.path = f.path /\ q.tmp = f.tmp
            /\ f.tmp = f.held[w] => q.data[f.tmp] = bytes
<1> DEFINE i == f.held[w]
           data == [f.data EXCEPT ![i] = bytes]
           held == [f.held EXCEPT ![w] = NoFile]
           g == [f EXCEPT !.data = data, !.held = held]
<1>0. f \in FileRecord /\ i \in DOMAIN f.data
  BY DEF FilesSound, InUse, Range, FileRecord
<1>1. Write(f, w, bytes) = Linked(g)
  BY DEF Write
<1>2. data \in FileData /\ DOMAIN data = DOMAIN f.data /\ data[i] = bytes
  <2>1. data \in [DOMAIN f.data -> Contents] /\ DOMAIN f.data \in SUBSET Inodes /\ data[i] = bytes
    BY <1>0, DataIs
  <2> HIDE DEF data
  <2> QED BY <2>1, DataTyped
<1>3. /\ held \in [Writers -> Inodes \cup {NoFile}] /\ DOMAIN held = Writers /\ DOMAIN f.held = Writers
      /\ \A v \in Writers : held[v] = IF v = w THEN NoFile ELSE f.held[v]
  BY <1>0 DEF FileRecord
<1> HIDE DEF data, held
<1>4. /\ g.data = data /\ g.path = f.path /\ g.tmp = f.tmp /\ g.held = held
      /\ g.taken = f.taken /\ g \in FileRecord
  BY <1>0, <1>2, <1>3 DEF FileRecord
<1> HIDE DEF g
<1>5. InUse(g) \subseteq DOMAIN g.data \cup {NoFile}
  BY <1>2, <1>3, <1>4 DEF InUse, FilesSound, Range
<1>6. /\ FilesSound(Linked(g))
      /\ Linked(g).path = f.path /\ Linked(g).tmp = f.tmp /\ Linked(g).held = held
      /\ Linked(g).taken = f.taken
  BY <1>4, <1>5, LinkedKeeps
<1>7. ASSUME f.tmp = i PROVE Linked(g).data[f.tmp] = bytes
  <2>1. f.tmp \in InUse(g) \ {NoFile}
    BY <1>4, <1>7 DEF InUse
  <2>2. Linked(g).data[f.tmp] = g.data[f.tmp]
    BY <1>4, <1>5, <2>1, LinkedKeeps
  <2> QED BY <1>2, <1>4, <1>7, <2>2
<1> QED BY <1>1, <1>6, <1>7 DEF held

\* After a rename the file has what the temporary one had.
LEMMA RenameKeeps ==
  ASSUME NEW f, FilesSound(f), f.tmp # NoFile
  PROVE  LET q == Rename(f)
         IN /\ FilesSound(q) /\ q.held = f.held /\ q.taken = f.taken
            /\ Loaded(q) = f.data[f.tmp]
<1> DEFINE g == [f EXCEPT !.path = f.tmp, !.tmp = NoFile]
<1>1. Rename(f) = Linked(g)
  BY DEF Rename
<1>2. /\ g.data = f.data /\ g.path = f.tmp /\ g.tmp = NoFile /\ g.held = f.held
      /\ g.taken = f.taken /\ g \in FileRecord
  BY DEF FilesSound, FileRecord
<1> HIDE DEF g
<1>3. InUse(g) \subseteq DOMAIN g.data \cup {NoFile}
  BY <1>2 DEF FilesSound, InUse
<1>4. /\ FilesSound(Linked(g)) /\ Linked(g).path = f.tmp /\ Linked(g).held = f.held
      /\ Linked(g).taken = f.taken
  BY <1>2, <1>3, LinkedKeeps
<1>5. f.tmp \in InUse(g) \ {NoFile}
  BY <1>2 DEF InUse
<1>6. Linked(g).data[f.tmp] = f.data[f.tmp]
  BY <1>2, <1>3, <1>5, LinkedKeeps
<1> QED BY <1>1, <1>4, <1>6 DEF Loaded

\* To remove the temporary name takes nothing from who has its file open.
LEMMA UnlinkKeeps ==
  ASSUME NEW f, FilesSound(f)
  PROVE  LET q == Unlink(f)
         IN FilesSound(q) /\ q.held = f.held
<1>1. CASE f.tmp = NoFile
  BY <1>1 DEF Unlink
<1>2. CASE f.tmp # NoFile
  <2> DEFINE g == [f EXCEPT !.tmp = NoFile]
  <2>1. Unlink(f) = Linked(g)
    BY <1>2 DEF Unlink
  <2>2. /\ g.data = f.data /\ g.path = f.path /\ g.tmp = NoFile /\ g.held = f.held
        /\ g.taken = f.taken /\ g \in FileRecord
    BY DEF FilesSound, FileRecord
  <2> HIDE DEF g
  <2>3. InUse(g) \subseteq DOMAIN g.data \cup {NoFile}
    BY <2>2 DEF FilesSound, InUse
  <2> QED BY <2>1, <2>2, <2>3, LinkedKeeps
<1> QED BY <1>1, <1>2

\* The loop works neither before Start, after it ended, nor within a save.
LEMMA LoopWorkPlaces ==
  ASSUME Placed, LoopWork
  PROVE  /\ loop.at \notin {"off", "done"} \cup Saving
         /\ loop'.at \notin {"off", "open", "write", "rename", "remove"}
<1> USE DEF Placed, LoopPlaced, LoopRecord, Saving
<1>1. CASE Tick \/ LoopEnds
  BY <1>1 DEF Tick, LoopEnds
<1>2. CASE PumpClosed \/ ProcessIncoming \/ TakeIdentity \/ EndServe \/ EndPump
  BY <1>2 DEF PumpClosed, ProcessIncoming, TakeIdentity, EndServe, EndPump
<1>3. ASSUME NEW packet \in Packets, Serve(packet)
      PROVE  /\ loop.at \notin {"off", "done"} \cup Saving
             /\ loop'.at \notin {"off", "open", "write", "rename", "remove"}
  BY <1>3 DEF Serve
<1>4. ASSUME NEW s \in Servers, LookUp(s)
      PROVE  /\ loop.at \notin {"off", "done"} \cup Saving
             /\ loop'.at \notin {"off", "open", "write", "rename", "remove"}
  BY <1>4 DEF LookUp
<1>5. CASE GetConnectCandidate \/ CreateConnection \/ EndTick
  BY <1>5 DEF GetConnectCandidate, CreateConnection, EndTick
<1>6. ASSUME NEW ok \in BOOLEAN, LoopDialEnds(ok)
      PROVE  /\ loop.at \notin {"off", "done"} \cup Saving
             /\ loop'.at \notin {"off", "open", "write", "rename", "remove"}
  BY <1>6 DEF LoopDialEnds
<1> QED BY <1>1, <1>2, <1>3, <1>4, <1>5, <1>6 DEF LoopWork

\* The calls that are neither Start nor Stop, before they save
LEMMA CallPlaces ==
  ASSUME Placed, ServerCalls \/ SearchWork \/ ChangeCalls
  PROVE  \/ api' = api /\ version' = version
         \/ /\ api.at \notin Saving /\ api'.at \notin {"open", "write", "rename", "remove"}
            /\ ~api.stops /\ ~api'.stops /\ api'.after = "nothing"
<1> USE DEF Placed, ApiPlaced, ApiRecord, Saving, Unmapping
<1> DEFINE Plain == /\ api.at \notin Saving /\ api'.at \notin {"open", "write", "rename", "remove"}
                    /\ ~api.stops /\ ~api'.stops /\ api'.after = "nothing"
<1>1. ASSUME NEW s \in Servers, NEW moved \in BOOLEAN, ConnectTo(s, moved) PROVE Plain
  BY <1>1 DEF ConnectTo, Calls
<1>2. ASSUME NEW ok \in BOOLEAN, ApiDialEnds(ok) PROVE Plain
  BY <1>2 DEF ApiDialEnds, IdleApi
<1>3. ASSUME NEW scope \in SUBSET {"server", "dht"}, StartSearch(scope) PROVE Plain
  BY <1>3 DEF StartSearch, Calls
<1>4. ASSUME sendSearchRequest PROVE Plain
  <2> DEFINE sent == "server" \in api.scope /\ \E c \in Active(srv) : Shaken(srv, c)
  <2>1. api' = [api EXCEPT !.at = "askDHT", !.sent = sent] /\ api.at = "ask"
    BY <1>4 DEF sendSearchRequest
  <2> HIDE DEF sent
  <2> QED BY <2>1
<1>5. ASSUME NEW ok \in BOOLEAN, startDHTSearch(ok) PROVE Plain
  BY <1>5 DEF startDHTSearch, IdleApi
<1>6. ASSUME NEW ok \in BOOLEAN, SearchKeywords(ok) PROVE Plain
  BY <1>6 DEF SearchKeywords, IdleApi
<1>7. CASE StopSearch \/ DHTAnswers \/ DeadlinePasses
  BY <1>7 DEF StopSearch, DHTAnswers, DeadlinePasses
<1>8. ASSUME Change PROVE Plain
  BY <1>8 DEF Change, Calls
<1>9. ASSUME SendStatus PROVE Plain
  BY <1>9 DEF SendStatus
<1>10. ASSUME SendProgress PROVE Plain
  BY <1>10 DEF SendProgress, IdleApi
<1>11. ASSUME NEW t \in Transfers, NEW state \in States \cup {"absent"}, ChangeTransfer(t, state)
       PROVE  Plain
  <2>1. CASE Stored
    BY <1>11, <2>1 DEF ChangeTransfer, Calls
  <2>2. CASE ~Stored
    BY <1>11, <2>2 DEF ChangeTransfer, Calls, IdleApi
  <2> QED BY <2>1, <2>2
<1> HIDE DEF Plain
<1> QED BY <1>1, <1>2, <1>3, <1>4, <1>5, <1>6, <1>7, <1>8, <1>9, <1>10, <1>11
     DEF ServerCalls, SearchWork, ChangeCalls, Plain

\* To take a snapshot changes no file.
LEMMA SnapshotKeeps ==
  ASSUME NEW f, FilesSound(f), NEW w \in Writers, NEW v \in 0..MaxVersion
  PROVE  LET q == [f EXCEPT !.taken[w] = v]
         IN /\ FilesSound(q) /\ q.held = f.held /\ q.taken[w] = v
            /\ q.path = f.path /\ q.tmp = f.tmp /\ q.data = f.data
<1> DEFINE taken == [f.taken EXCEPT ![w] = v]
           q == [f EXCEPT !.taken = taken]
<1>1. taken \in [Writers -> 0..MaxVersion] /\ taken[w] = v
  BY DEF FilesSound, FileRecord
<1> HIDE DEF taken
<1>2. /\ q \in FileRecord /\ q.held = f.held /\ q.taken = taken /\ q.path = f.path
      /\ q.tmp = f.tmp /\ q.data = f.data
  BY <1>1 DEF FilesSound, FileRecord
<1>3. q = [f EXCEPT !.taken[w] = v]
  BY DEF taken
<1> HIDE DEF q
<1>4. FilesSound(q)
  BY <1>2 DEF FilesSound, InUse
<1> QED BY <1>1, <1>2, <1>3, <1>4

\* What one part of a save does to the file, and where it leaves its writer. In
\* the last two, the call ends.
LEMMA SaveParts ==
  ASSUME Placed, FilesSound(files), version \in 0..MaxVersion,
         NEW w \in Writers, At(w) = "write" <=> files.held[w] # NoFile
  PROVE  /\ snapshotState(w) =>
              /\ FilesSound(files') /\ files'.held = files.held /\ files'.taken[w] = version
              /\ At(w) = "snapshot" /\ Goes(w, "open")
         /\ OpenTemporary(w) =>
              /\ FilesSound(files') /\ files'.held = [files.held EXCEPT ![w] = files'.tmp]
              /\ files'.tmp # NoFile /\ files'.data[files'.tmp] = Empty /\ files'.taken = files.taken
              /\ At(w) = "open" /\ Goes(w, "write")
         /\ WriteTemporary(w) =>
              \E bytes \in Written(files, w) :
                /\ FilesSound(files') /\ files'.held = [files.held EXCEPT ![w] = NoFile]
                /\ files'.tmp = files.tmp /\ (files.tmp = files.held[w] => files'.data[files.tmp] = bytes)
                /\ At(w) = "write" /\ Goes(w, "rename")
         /\ WriteFails(w) =>
              /\ FilesSound(files') /\ files'.held = [files.held EXCEPT ![w] = NoFile]
              /\ At(w) = "write" /\ Saved(w, FALSE)
         /\ RenameTemporary(w) =>
              /\ FilesSound(files') /\ files'.held = files.held
              /\ Loaded(files') = files.data[files.tmp]
              /\ At(w) = "rename" /\ Saved(w, TRUE)
         /\ RenameFails(w) => files' = files /\ At(w) = "rename" /\ Goes(w, "remove")
         /\ RemoveTemporary(w) =>
              /\ FilesSound(files') /\ files'.held = files.held
              /\ At(w) = "remove" /\ Saved(w, FALSE)
<1>1. Torn \in Contents /\ Written(files, w) \subseteq Contents
  BY DEF Contents, Written, FilesSound, FileRecord
<1>2. ASSUME snapshotState(w)
      PROVE  /\ FilesSound(files') /\ files'.held = files.held /\ files'.taken[w] = version
             /\ At(w) = "snapshot" /\ Goes(w, "open")
  BY <1>2, SnapshotKeeps DEF snapshotState
<1>3. ASSUME OpenTemporary(w)
      PROVE  /\ FilesSound(files') /\ files'.held = [files.held EXCEPT ![w] = files'.tmp]
             /\ files'.tmp # NoFile /\ files'.data[files'.tmp] = Empty /\ files'.taken = files.taken
             /\ At(w) = "open" /\ Goes(w, "write")
  BY <1>3, OpenKeeps DEF OpenTemporary
<1>4. ASSUME WriteTemporary(w)
      PROVE  \E bytes \in Written(files, w) :
                /\ FilesSound(files') /\ files'.held = [files.held EXCEPT ![w] = NoFile]
                /\ files'.tmp = files.tmp /\ (files.tmp = files.held[w] => files'.data[files.tmp] = bytes)
                /\ At(w) = "write" /\ Goes(w, "rename")
  <2>1. PICK bytes \in Written(files, w) : files' = Write(files, w, bytes)
    BY <1>4 DEF WriteTemporary
  <2>2. At(w) = "write" /\ Goes(w, "rename") /\ bytes \in Contents /\ files.held[w] # NoFile
    BY <1>1, <1>4 DEF WriteTemporary
  <2> QED BY <2>1, <2>2, WriteKeeps
<1>5. ASSUME WriteFails(w)
      PROVE  /\ FilesSound(files') /\ files'.held = [files.held EXCEPT ![w] = NoFile]
             /\ At(w) = "write" /\ Saved(w, FALSE)
  BY <1>1, <1>5, WriteKeeps DEF WriteFails
<1>6. ASSUME RenameTemporary(w)
      PROVE  /\ FilesSound(files') /\ files'.held = files.held
             /\ Loaded(files') = files.data[files.tmp]
             /\ At(w) = "rename" /\ Saved(w, TRUE)
  BY <1>6, RenameKeeps DEF RenameTemporary
<1>7. ASSUME RenameFails(w) PROVE files' = files /\ At(w) = "rename" /\ Goes(w, "remove")
  BY <1>7 DEF RenameFails
<1>8. ASSUME RemoveTemporary(w)
      PROVE  /\ FilesSound(files') /\ files'.held = files.held
             /\ At(w) = "remove" /\ Saved(w, FALSE)
  BY <1>8, UnlinkKeeps DEF RemoveTemporary
<1> QED BY <1>2, <1>3, <1>4, <1>5, <1>6, <1>7, <1>8

\* A save of the loop
LEMMA LoopSaves ==
  ASSUME Placed, FilesSound(files), FilesPlaced, SaveStep("loop")
  PROVE  FilesSound(files') /\ FilesPlaced'
<1> USE DEF Saving
<1>1. "loop" \in Writers /\ "api" \in Writers /\ files.held \in [Writers -> Inodes \cup {NoFile}]
  BY ClientAssumption DEF FilesSound, FileRecord
<1>2. At("loop") = loop.at /\ (At("loop") = "write" <=> files.held["loop"] # NoFile)
  BY DEF At, FilesPlaced
<1>3. UNCHANGED <<life, version>>
  BY SaveWorkLeaves DEF SaveWork, Savers
<1>4. left'.store = left.store
  BY DEF SaveStep, snapshotState, OpenTemporary, WriteTemporary, WriteFails, RenameTemporary,
     RenameFails, RemoveTemporary,
     Use, Placed, BudgetKinds
<1>5. /\ FilesSound(files') /\ api' = api /\ loop.at \in Saving
      /\ files'.held["api"] = files.held["api"]
      /\ loop'.at = "write" <=> files'.held["loop"] # NoFile
  <2> USE <1>1, <1>2
  <2>1. ASSUME NEW place \in {"open", "write", "rename", "remove"}, Goes("loop", place)
        PROVE  api' = api /\ loop'.at = place
    BY <2>1 DEF Goes, Placed, LoopPlaced, LoopRecord
  <2>2. ASSUME NEW ok, Saved("loop", ok) PROVE api' = api /\ loop'.at = "idle"
    BY <2>2 DEF Saved, Placed, LoopPlaced, LoopRecord
  <2>3. version \in 0..MaxVersion
    BY DEF FilesPlaced
  <2>4. CASE snapshotState("loop")
    <3>1. /\ FilesSound(files') /\ files'.held = files.held
          /\ At("loop") = "snapshot" /\ Goes("loop", "open")
      BY <2>3, <2>4, SaveParts
    <3> QED BY <2>1, <3>1
  <2>5. CASE OpenTemporary("loop")
    <3>1. /\ FilesSound(files') /\ files'.held = [files.held EXCEPT !["loop"] = files'.tmp]
          /\ files'.tmp # NoFile /\ At("loop") = "open" /\ Goes("loop", "write")
      BY <2>3, <2>5, SaveParts
    <3> QED BY <2>1, <3>1
  <2>6. CASE WriteTemporary("loop")
    <3>1. /\ FilesSound(files') /\ files'.held = [files.held EXCEPT !["loop"] = NoFile]
          /\ At("loop") = "write" /\ Goes("loop", "rename")
      BY <2>3, <2>6, SaveParts
    <3> QED BY <2>1, <3>1
  <2>7. CASE WriteFails("loop")
    <3>1. /\ FilesSound(files') /\ files'.held = [files.held EXCEPT !["loop"] = NoFile]
          /\ At("loop") = "write" /\ Saved("loop", FALSE)
      BY <2>3, <2>7, SaveParts
    <3> QED BY <2>2, <3>1
  <2>8. CASE RenameTemporary("loop")
    <3>1. /\ FilesSound(files') /\ files'.held = files.held
          /\ At("loop") = "rename" /\ Saved("loop", TRUE)
      BY <2>3, <2>8, SaveParts
    <3> QED BY <2>2, <3>1
  <2>9. CASE RenameFails("loop")
    <3>1. files' = files /\ At("loop") = "rename" /\ Goes("loop", "remove")
      BY <2>3, <2>9, SaveParts
    <3> QED BY <2>1, <3>1
  <2>10. CASE RemoveTemporary("loop")
    <3>1. /\ FilesSound(files') /\ files'.held = files.held
          /\ At("loop") = "remove" /\ Saved("loop", FALSE)
      BY <2>3, <2>10, SaveParts
    <3> QED BY <2>2, <3>1
  <2> QED BY <2>4, <2>5, <2>6, <2>7, <2>8, <2>9, <2>10 DEF SaveStep
<1>6. api.stops /\ ~life.late => api.at \notin Saving \cup {"stopped"}
                                 /\ api.after \notin {"snapshot", "stopped"}
  BY <1>5 DEF FilesPlaced
<1> QED BY <1>3, <1>4, <1>5, <1>6 DEF FilesPlaced, Stored

\* A save of the calling thread
LEMMA ApiSaves ==
  ASSUME Placed, FilesSound(files), FilesPlaced, SaveStep("api")
  PROVE  FilesSound(files') /\ FilesPlaced'
<1> USE DEF Saving
<1>1. "loop" \in Writers /\ "api" \in Writers /\ files.held \in [Writers -> Inodes \cup {NoFile}]
  BY ClientAssumption DEF FilesSound, FileRecord
<1>2. At("api") = api.at /\ (At("api") = "write" <=> files.held["api"] # NoFile)
  BY DEF At, FilesPlaced
<1>3. UNCHANGED <<life, version>>
  BY SaveWorkLeaves DEF SaveWork, Savers
<1>4. left'.store = left.store
  BY DEF SaveStep, snapshotState, OpenTemporary, WriteTemporary, WriteFails, RenameTemporary,
     RenameFails, RemoveTemporary,
     Use, Placed, BudgetKinds
<1>5. version \in 0..MaxVersion
  BY DEF FilesPlaced
<1> DEFINE Done == /\ FilesSound(files') /\ FilesPlaced'
<1>6. ASSUME NEW place \in {"open", "write", "rename", "remove"}, Goes("api", place)
      PROVE  /\ loop' = loop /\ api'.at = place /\ api'.stops = api.stops
             /\ api'.after = api.after
  BY <1>6 DEF Goes, Placed, ApiPlaced, ApiRecord
<1>7. ASSUME NEW ok \in BOOLEAN, Saved("api", ok), api.at \in Saving
      PROVE  /\ loop' = loop /\ api'.at \in {"status", "idle", "stopped"} /\ api'.after = "nothing"
             /\ api'.stops = api.stops /\ (api'.stops => api'.failed = ~ok)
  <2>1. CASE Emits(ok)
    BY <1>7, <2>1 DEF Saved, Emits, Emitting, IdleApi, Placed, ApiPlaced, ApiRecord
  <2>2. CASE ~Emits(ok)
    <3> DEFINE stops == api.stops
               failed == ~ok
    <3>1. api' = [IdleApi EXCEPT !.at = IF stops THEN "stopped" ELSE "idle",
                                 !.stops = stops, !.failed = failed] /\ loop' = loop
      BY <1>7, <2>2 DEF Saved
    <3> HIDE DEF stops, failed
    <3>2. /\ api'.at \in {"idle", "stopped"} /\ api'.after = "nothing" /\ api'.stops = stops
          /\ api'.failed = failed /\ loop' = loop
      BY <3>1 DEF IdleApi
    <3> QED BY <3>2 DEF stops, failed
  <2> QED BY <2>1, <2>2
<1>8. api.at \in Saving => api.after = "nothing"
  BY DEF Placed, ApiPlaced, ApiRecord, Unmapping
<1> USE <1>1, <1>2, <1>5
<1>9. CASE snapshotState("api")
  <2>1. /\ FilesSound(files') /\ files'.held = files.held /\ files'.taken["api"] = version
        /\ At("api") = "snapshot" /\ Goes("api", "open")
    BY <1>9, SaveParts
  <2> QED BY <1>3, <1>4, <1>6, <1>8, <2>1 DEF FilesPlaced, Stored
<1>10. CASE OpenTemporary("api")
  <2>1. /\ FilesSound(files') /\ files'.held = [files.held EXCEPT !["api"] = files'.tmp]
        /\ files'.tmp # NoFile /\ files'.data[files'.tmp] = Empty /\ files'.taken = files.taken
        /\ At("api") = "open" /\ Goes("api", "write")
    BY <1>10, SaveParts
  <2> QED BY <1>3, <1>4, <1>6, <1>8, <2>1 DEF FilesPlaced, Stored
<1>11. CASE WriteTemporary("api")
  <2>1. PICK bytes \in Written(files, "api") :
                /\ FilesSound(files') /\ files'.held = [files.held EXCEPT !["api"] = NoFile]
                /\ files'.tmp = files.tmp
                /\ (files.tmp = files.held["api"] => files'.data[files.tmp] = bytes)
                /\ At("api") = "write" /\ Goes("api", "rename")
    BY <1>11, SaveParts
  <2>2. api.stops /\ ~life.late /\ Stored =>
          files'.tmp # NoFile /\ files'.data[files'.tmp] = version
    <3>1. SUFFICES ASSUME api.stops, ~life.late, Stored
                   PROVE  files'.tmp # NoFile /\ files'.data[files'.tmp] = version
      OBVIOUS
    <3>2. /\ files.taken["api"] = version /\ files.held["api"] = files.tmp
          /\ files.data[files.tmp] = Empty /\ files.held["api"] # NoFile
      BY <2>1, <3>1 DEF FilesPlaced
    <3>3. bytes = version
      BY <3>2 DEF Written
    <3> QED BY <2>1, <3>2, <3>3
  <2> QED BY <1>3, <1>4, <1>6, <1>8, <2>1, <2>2 DEF FilesPlaced, Stored
<1>12. CASE WriteFails("api")
  <2>1. /\ FilesSound(files') /\ files'.held = [files.held EXCEPT !["api"] = NoFile]
        /\ At("api") = "write" /\ Saved("api", FALSE)
    BY <1>12, SaveParts
  <2> QED BY <1>3, <1>4, <1>7, <1>8, <2>1 DEF FilesPlaced, Stored
<1>13. CASE RenameTemporary("api")
  <2>1. /\ FilesSound(files') /\ files'.held = files.held
        /\ Loaded(files') = files.data[files.tmp]
        /\ At("api") = "rename" /\ Saved("api", TRUE)
    BY <1>13, SaveParts
  <2> QED BY <1>3, <1>4, <1>7, <1>8, <2>1 DEF FilesPlaced, Stored
<1>14. CASE RenameFails("api")
  <2>1. files' = files /\ At("api") = "rename" /\ Goes("api", "remove")
    BY <1>14, SaveParts
  <2> QED BY <1>3, <1>4, <1>6, <1>8, <2>1 DEF FilesPlaced, Stored
<1>15. CASE RemoveTemporary("api")
  <2>1. /\ FilesSound(files') /\ files'.held = files.held
        /\ At("api") = "remove" /\ Saved("api", FALSE)
    BY <1>15, SaveParts
  <2> QED BY <1>3, <1>4, <1>7, <1>8, <2>1 DEF FilesPlaced, Stored
<1> QED BY <1>9, <1>10, <1>11, <1>12, <1>13, <1>14, <1>15 DEF SaveStep

\* There is no file at first.
LEMMA FilesInit == Init => FilesSound(files) /\ FilesPlaced
<1> SUFFICES ASSUME Init PROVE FilesSound(files) /\ FilesPlaced
  OBVIOUS
<1>1. /\ files.data = << >> /\ files.path = NoFile /\ files.tmp = NoFile
      /\ files.held = [w \in Writers |-> NoFile] /\ files.taken = [w \in Writers |-> 0]
      /\ files = [data |-> files.data, path |-> files.path, tmp |-> files.tmp,
                  held |-> files.held, taken |-> files.taken]
  BY DEF Init, NewFiles
<1>2. files.data \in FileData /\ DOMAIN files.data = {}
  <2>1. << >> \in [{} -> Contents] /\ DOMAIN << >> = {}
    OBVIOUS
  <2> QED BY <1>1, <2>1, DataTyped
<1>3. files \in FileRecord
  BY <1>1, <1>2, StateFileAssumption DEF FileRecord
<1>4. FilesSound(files)
  BY <1>1, <1>2, <1>3 DEF FilesSound, InUse, Range
<1>5. /\ api.at = "idle" /\ api.after = "nothing" /\ ~api.stops /\ loop.at = "off" /\ version = 0
  BY DEF Init, IdleApi, IdleLoop
<1>6. files.held["loop"] = NoFile /\ files.held["api"] = NoFile
  BY <1>1, ClientAssumption
<1>7. FilesPlaced
  BY <1>5, <1>6, StateFileAssumption DEF FilesPlaced, Saving
<1> QED BY <1>4, <1>7

\* The file stays sound, and what Stop saves last stays the state of the client.
LEMMA FilesNext ==
  ASSUME Placed, Placed', FilesSound(files), FilesPlaced, [Next]_vars
  PROVE  FilesSound(files') /\ FilesPlaced'
<1> USE DEF Saving
<1>1. CASE UNCHANGED vars
  BY <1>1 DEF vars, FilesPlaced, Stored, Loaded
<1>2. CASE Next /\ SaveWork
  BY <1>2, LoopSaves, ApiSaves DEF SaveWork, Savers
<1> DEFINE Apart == Next /\ ~SaveWork
<1>3. ASSUME Next PROVE Stored' = Stored
  BY <1>3, BudgetUsed DEF Placed, Stored
<1>4. CASE Next /\ LoopWork
  <2>1. UNCHANGED <<files, api, life, version>>
    BY <1>4, LoopWorkLeaves
  <2> QED BY <1>3, <1>4, <2>1, LoopWorkPlaces DEF FilesPlaced
<1>5. CASE Next /\ (WatchWork \/ MapWork \/ TimePasses)
  <2>1. UNCHANGED <<files, loop, api, life, version>>
    BY <1>5, WatchWorkLeaves, MapWorkLeaves, TimeLeaves
  <2> QED BY <1>3, <1>5, <2>1 DEF FilesPlaced
<1>6. CASE Next /\ (ServerCalls \/ SearchWork \/ ChangeCalls)
  <2>1. UNCHANGED <<files, loop, life>>
    BY <1>6, ServerCallsLeave, SearchWorkLeaves, ChangeCallsLeave
  <2>2. version' \in 0..MaxVersion
    <3>1. CASE ServerCalls \/ SearchWork
      BY <3>1, ServerCallsLeave, SearchWorkLeaves DEF FilesPlaced
    <3>2. CASE ChangeCalls
      <4>1. ASSUME version' = version + 1, version < MaxVersion PROVE version' \in 0..MaxVersion
        BY <4>1, StateFileAssumption DEF FilesPlaced
      <4>2. CASE Change
        BY <4>1, <4>2 DEF Change
      <4>3. CASE SendStatus \/ SendProgress
        BY <4>3 DEF SendStatus, SendProgress, FilesPlaced
      <4>4. ASSUME NEW t \in Transfers, NEW state, ChangeTransfer(t, state)
            PROVE  version' \in 0..MaxVersion
        BY <4>1, <4>4 DEF ChangeTransfer
      <4> QED BY <3>2, <4>2, <4>3, <4>4 DEF ChangeCalls
    <3> QED BY <1>6, <3>1, <3>2
  <2> QED BY <1>3, <1>6, <2>1, <2>2, CallPlaces DEF FilesPlaced
<1>7. CASE Next /\ StopCalls
  <2>1. UNCHANGED <<files, loop, version>>
    BY <1>7, StopCallsLeave
  <2>2. CASE Stop
    <3>1. /\ api.at = "idle" /\ ~api.stops /\ api'.at = "disconnect" /\ api'.after = "nothing"
      BY <2>2 DEF Stop, Calls, Placed, ApiPlaced, ApiRecord, Unmapping
    <3> QED BY <1>3, <1>7, <2>1, <3>1 DEF FilesPlaced
  <2>3. ASSUME NEW late \in BOOLEAN, EndWait(late) PROVE FilesPlaced'
    <3>1. /\ api.at = "wait" /\ api'.at = AfterStop /\ api'.after = "nothing"
          /\ life'.late = late /\ (late \/ loop.at = "done")
      BY <2>3 DEF EndWait, Placed, ApiPlaced, ApiRecord, LifePlaced, LifeRecord, Unmapping
    <3> QED BY <1>3, <1>7, <2>1, <3>1 DEF FilesPlaced, AfterStop
  <2> QED BY <1>7, <2>1, <2>2, <2>3 DEF StopCalls
<1>8. CASE Next /\ PortCalls
  <2>1. UNCHANGED <<files, version>>
    BY <1>8, PortCallsLeave
  <2>2. ASSUME NEW ok \in BOOLEAN, Started(ok), life.run = "new", api.at # "write"
        PROVE  FilesPlaced'
    <3>1. /\ ~api'.stops /\ api'.after = "nothing" /\ api'.at \in {"idle", "status"}
      BY <2>2 DEF Started, Emitting, IdleApi
    <3>2. loop.at = "off" /\ loop'.at \in {"off", "idle"}
      BY <2>2 DEF Started, Placed, LoopPlaced, LoopRecord
    <3> QED BY <1>3, <1>8, <2>1, <2>2, <3>1, <3>2 DEF FilesPlaced
  <2>3. ASSUME NEW ok \in BOOLEAN, Start(ok) PROVE FilesPlaced'
    BY <2>2, <2>3 DEF Start, Calls
  <2>4. ASSUME UNCHANGED <<loop, life>>, api.at # "write",
               api'.at \notin Saving \cup {"stopped"}, api'.after \notin {"snapshot", "stopped"}
        PROVE  FilesPlaced'
    BY <1>3, <1>8, <2>1, <2>4 DEF FilesPlaced
  <2>5. ASSUME NEW udp \in BOOLEAN, Listen(udp) PROVE FilesPlaced'
    <3>1. api.at = "idle" /\ api'.at = "tracker" /\ api'.after = "nothing"
      BY <2>5 DEF Listen, Calls, Placed, ApiPlaced, ApiRecord, Unmapping
    <3> QED BY <2>4, <2>5, <3>1 DEF Listen
  <2>6. CASE StartWithoutTracker
    BY <2>2, <2>6 DEF StartWithoutTracker, Placed, LifePlaced
  <2>7. ASSUME NEW ok \in BOOLEAN, StartTracker(ok) PROVE FilesPlaced'
    <3>1. api.at = "tracker" /\ api'.at = "unmap" /\ api'.after \in {"refresh", "fail"}
      BY <2>7 DEF StartTracker, Placed, ApiPlaced, ApiRecord, Unmapping
    <3> QED BY <2>4, <2>7, <3>1 DEF StartTracker
  <2>8. CASE EndUnmapWait
    <3>1. /\ api.at = "unmap" /\ api'.at = "delete" /\ api'.after = api.after
          /\ api'.stops = api.stops /\ UNCHANGED <<loop, life>>
      BY <2>8 DEF EndUnmapWait, Placed, ApiPlaced, ApiRecord
    <3> QED BY <1>3, <1>8, <2>1, <3>1 DEF FilesPlaced
  <2>9. ASSUME NEW ok \in BOOLEAN, Delete(ok) PROVE FilesPlaced'
    <3>1. UNCHANGED <<loop, life, api>>
      BY <2>9 DEF Delete
    <3> QED BY <1>3, <1>8, <2>1, <3>1 DEF FilesPlaced
  <2>10. CASE EndUnmap
    <3>1. CASE api.after \in {"refresh", "fail"}
      BY <2>2, <2>10, <3>1 DEF EndUnmap, Placed, LifePlaced
    <3>2. CASE api.after \notin {"refresh", "fail"}
      <4>1. /\ api.at = "delete" /\ api'.at = api.after /\ api'.after = "nothing"
            /\ api'.stops = api.stops /\ UNCHANGED <<loop, life>>
        BY <2>10, <3>2 DEF EndUnmap, Placed, ApiPlaced, ApiRecord
      <4>2. api.after \in {"wait", "snapshot", "stopped"}
        BY <3>2, <4>1 DEF Placed, ApiPlaced, ApiRecord, AfterPlaces, Unmapping
      <4> QED BY <1>3, <1>8, <2>1, <4>1, <4>2 DEF FilesPlaced
    <3> QED BY <3>1, <3>2
  <2>11. CASE DisconnectFrom
    <3>1. /\ api.at = "disconnect" /\ api'.stops = api.stops /\ UNCHANGED <<loop, life>>
          /\ \/ /\ api'.at = IF life.stopping THEN "wait" ELSE AfterStop
                /\ api'.after = "nothing"
             \/ /\ api'.after = IF life.stopping THEN "wait" ELSE AfterStop
                /\ api'.at = "unmap"
      BY <2>11 DEF DisconnectFrom, Placed, ApiPlaced, ApiRecord, Unmapping
    <3>2. ~life.stopping => loop.at = "off"
      BY <3>1 DEF Placed, LifePlaced, ApiPlaced, LoopPlaced
    <3> QED BY <1>3, <1>8, <2>1, <3>1, <3>2 DEF FilesPlaced, AfterStop
  <2> QED BY <1>8, <2>1, <2>3, <2>5, <2>6, <2>7, <2>8, <2>9, <2>10, <2>11 DEF PortCalls
<1> QED BY <1>1, <1>2, <1>4, <1>5, <1>6, <1>7, <1>8, NextParts

(***************************************************************************)
(* The server connections                                                  *)
(***************************************************************************)
ConnData == UNION {[D -> ConnRecord] : D \in SUBSET Conns}
ServerRecord ==
  [conn : ConnData, entry : [Servers -> Conns \cup {NoConn}], primary : Conns \cup {NoConn},
   identity : Conns \cup {NoConn}, configured : SUBSET Servers, policy : [Servers -> Policy],
   losses : [Servers -> 0..MaxReconnects]]

\* A policy without attempts left is due never, one that is due has one.
PolicySound(p) ==
  /\ p \in Policy
  /\ p.due = "never" => p.iteration = MaxReconnects
  /\ p.due = "later" => p.known /\ p.iteration \in 1..MaxReconnects - 1
  /\ p.due = "now" => p.known /\ p.iteration < MaxReconnects

ServersSound(v) ==
  /\ v \in ServerRecord
  /\ Active(v) \cup {v.identity} \subseteq DOMAIN v.conn \cup {NoConn}
  /\ \A s \in Servers : v.entry[s] # NoConn => v.conn[v.entry[s]].server = s
  /\ \A s \in Servers : PolicySound(v.policy[s])
  /\ \A c \in DOMAIN v.conn : v.conn[c].socket = "dialing" => ~v.conn[c].shaken

\* A connection that has closed and has shaken hands is in no field of the
\* session, but for the one that the loop is about to take out of them. While
\* there is none such, the identity is nobody's if no server has given one, the
\* one apart that the session is about to take, and else that of the primary
\* server or of a connection that a call replaced.
IdentitySound(v, served, shaking) ==
  /\ shaking # NoConn => shaking \in DOMAIN v.conn /\ Shaken(v, shaking)
  /\ \A c \in Active(v) : Disconnecting(v, c) /\ Shaken(v, c) => c = served
  /\ served = NoConn /\ v.identity = NoConn => \A c \in Active(v) : Shaken(v, c) => c = shaking
  /\ served = NoConn /\ v.identity # NoConn =>
       /\ Shaken(v, v.identity)
       /\ \/ v.identity = v.primary
          \/ /\ v.identity \notin Active(v) /\ Disconnecting(v, v.identity)
             /\ ~v.conn[v.identity].lost
Served(v, l) ==
  IF l.at \in {"shaken", "served"} /\ Disconnecting(v, Head(l.todo)) THEN Head(l.todo) ELSE NoConn
Shaking(l) == IF l.at = "shaken" THEN Head(l.todo) ELSE NoConn

\* What the loop and the calling thread have at hand
Held(l, a) == Range(l.todo) \cup {l.conn, a.conn}
ConnsPlaced(v, l, a) ==
  /\ Held(l, a) \subseteq DOMAIN v.conn \cup {NoConn}
  /\ l.at \in Serving => v.conn[Head(l.todo)].socket # "dialing"
  /\ \A c \in {l.conn, a.conn} \ {NoConn} : v.conn[c].socket # "open"
  /\ l.conn = a.conn => l.conn = NoConn

Good(v, l, a) ==
  ServersSound(v) /\ IdentitySound(v, Served(v, l), Shaking(l)) /\ ConnsPlaced(v, l, a)

\* There are not more connections than somebody has, so that a new one is free.
Bounded(v, l, a) ==
  /\ DOMAIN v.conn \subseteq Active(v) \cup {v.identity} \cup Held(l, a)
  /\ Cardinality(Range(l.todo)) <= Cardinality(Servers) + 1

ServersPlaced ==
  /\ Good(srv, loop, api) /\ Bounded(srv, loop, api)
  /\ loop.at = "dialing" => loop.conn # NoConn
  /\ api.at = "dialing" => api.conn # NoConn

\* A function from connections to their records is a connection table.
LEMMA ConnsTyped ==
  ASSUME NEW D \in SUBSET Conns, NEW conn \in [D -> ConnRecord]
  PROVE  conn \in ConnData
  BY DEF ConnData

\* A connection table is a function from connections to their records.
LEMMA ConnsAre ==
  ASSUME NEW v, v \in ServerRecord
  PROVE  v.conn \in [DOMAIN v.conn -> ConnRecord] /\ DOMAIN v.conn \subseteq Conns
  BY DEF ServerRecord, ConnData

\* Another connection table with the same connections, of which some closed
SameFields(v, q) ==
  /\ q.entry = v.entry /\ q.primary = v.primary /\ q.identity = v.identity
  /\ q.configured = v.configured /\ q.policy = v.policy /\ q.losses = v.losses

\* The active connections depend on the entries and the primary server.
LEMMA SameActive ==
  ASSUME NEW v, NEW q, q.entry = v.entry, q.primary = v.primary
  PROVE  Active(q) = Active(v) /\ Entries(q) = Entries(v)
  BY DEF Active, Entries

\* Entries and active connections, by their members.
LEMMA ActiveIs ==
  ASSUME NEW v, v \in ServerRecord
  PROVE  /\ \A c : c \in Entries(v) <=> c # NoConn /\ \E s \in Servers : v.entry[s] = c
         /\ \A c : c \in Active(v) <=> c # NoConn /\ (c = v.primary \/ \E s \in Servers : v.entry[s] = c)
  BY DEF Active, Entries, Range, ServerRecord

\* Close closes one connection, at most once, and moves no field.
LEMMA CloseIs ==
  ASSUME NEW v, v \in ServerRecord, NEW c \in DOMAIN v.conn, NEW lost \in BOOLEAN
  PROVE  LET q == Close(v, c, lost)
         IN /\ q \in ServerRecord /\ SameFields(v, q) /\ DOMAIN q.conn = DOMAIN v.conn
            /\ q.conn[c].socket = "closed"
            /\ q.conn[c].lost = IF Disconnecting(v, c) THEN v.conn[c].lost ELSE lost
            /\ \A d \in DOMAIN v.conn : /\ q.conn[d].shaken = v.conn[d].shaken
                                        /\ q.conn[d].server = v.conn[d].server
                                        /\ d # c => q.conn[d] = v.conn[d]
<1>1. CASE Disconnecting(v, c)
  BY <1>1 DEF Close, Disconnecting, SameFields
<1>2. CASE ~Disconnecting(v, c)
  <2> DEFINE new == [v.conn[c] EXCEPT !.socket = "closed", !.lost = lost]
             conn == [v.conn EXCEPT ![c] = new]
             q == [v EXCEPT !.conn = conn]
  <2>1. v.conn \in [DOMAIN v.conn -> ConnRecord] /\ DOMAIN v.conn \in SUBSET Conns
    BY ConnsAre
  <2>2. /\ new \in ConnRecord /\ new.socket = "closed" /\ new.lost = lost
        /\ new.shaken = v.conn[c].shaken /\ new.server = v.conn[c].server
    BY <2>1 DEF ConnRecord
  <2>3. Close(v, c, lost) = q
    BY <1>2 DEF Close
  <2> HIDE DEF new
  <2>4. /\ conn \in [DOMAIN v.conn -> ConnRecord]
        /\ \A d \in DOMAIN v.conn : conn[d] = IF d = c THEN new ELSE v.conn[d]
    BY <2>1, <2>2
  <2>5. conn \in ConnData
    BY <2>1, <2>4, ConnsTyped
  <2> HIDE DEF conn
  <2>6. q \in ServerRecord /\ SameFields(v, q) /\ q.conn = conn
    BY <2>5 DEF ServerRecord, SameFields
  <2> HIDE DEF q
  <2> QED BY <1>2, <2>2, <2>3, <2>4, <2>6
<1> QED BY <1>1, <1>2

\* A policy that is told of a success or a failure
LEMMA PolicyTold ==
  ASSUME NEW v, ServersSound(v), NEW s \in Servers,
         NEW q, q \in {SetConnectCandidate(v, s), SetServerConnectionFailed(v, s)}
  PROVE  /\ ServersSound(q) /\ q.conn = v.conn /\ q.entry = v.entry /\ q.primary = v.primary
         /\ q.identity = v.identity /\ q.configured = v.configured
<1>1. v \in ServerRecord /\ PolicySound(v.policy[s]) /\ v.policy[s] \in Policy
  BY DEF ServersSound, PolicySound
<1>2. ASSUME NEW p, PolicySound(p), NEW n \in 0..MaxReconnects,
             q = [v EXCEPT !.policy[s] = p, !.losses[s] = n]
      PROVE  /\ ServersSound(q) /\ q.conn = v.conn /\ q.entry = v.entry /\ q.primary = v.primary
             /\ q.identity = v.identity /\ q.configured = v.configured
  <2> DEFINE policy == [v.policy EXCEPT ![s] = p]
             losses == [v.losses EXCEPT ![s] = n]
  <2>1. q = [v EXCEPT !.policy = policy, !.losses = losses]
    BY <1>2
  <2>2. /\ policy \in [Servers -> Policy] /\ losses \in [Servers -> 0..MaxReconnects]
        /\ \A t \in Servers : policy[t] = IF t = s THEN p ELSE v.policy[t]
    BY <1>1, <1>2 DEF PolicySound, ServerRecord
  <2> HIDE DEF policy, losses
  <2>3. /\ q \in ServerRecord /\ q.conn = v.conn /\ q.entry = v.entry /\ q.primary = v.primary
        /\ q.identity = v.identity /\ q.configured = v.configured /\ q.policy = policy
    BY <1>1, <2>1, <2>2 DEF ServerRecord
  <2>4. Active(q) = Active(v)
    BY <2>3, SameActive
  <2> QED BY <1>2, <2>2, <2>3, <2>4 DEF ServersSound
<1>3. CASE q = SetConnectCandidate(v, s)
  <2> DEFINE p == [known |-> TRUE, iteration |-> 0, due |-> "now"]
  <2>1. PolicySound(p) /\ 0 \in 0..MaxReconnects
    BY ServersAssumption DEF PolicySound, Policy
  <2>2. q = [v EXCEPT !.policy[s] = p, !.losses[s] = 0]
    BY <1>3 DEF SetConnectCandidate
  <2> HIDE DEF p
  <2> QED BY <1>2, <2>1, <2>2
<1>4. CASE q = SetServerConnectionFailed(v, s)
  <2> DEFINE n == IF v.policy[s].known THEN v.policy[s].iteration + 1 ELSE 0
             i == IF n > MaxReconnects THEN MaxReconnects ELSE n
             due == IF n >= MaxReconnects THEN "never" ELSE IF n = 0 THEN "now" ELSE "later"
             p == [known |-> TRUE, iteration |-> i, due |-> due]
             m == IF v.losses[s] < MaxReconnects THEN v.losses[s] + 1 ELSE v.losses[s]
  <2>1. n \in Nat
    BY <1>1 DEF Policy
  <2> HIDE DEF n
  <2>2. /\ i \in 0..MaxReconnects /\ due \in {"now", "later", "never"}
        /\ (due = "never" => i = MaxReconnects) /\ (due = "later" => i \in 1..MaxReconnects - 1)
        /\ (due = "now" => i < MaxReconnects)
    BY <2>1, ServersAssumption
  <2>3. m \in 0..MaxReconnects
    BY <1>1, ServersAssumption DEF ServerRecord
  <2>4. q = [v EXCEPT !.policy[s] = p, !.losses[s] = m]
    BY <1>4 DEF SetServerConnectionFailed, FailedWithin, n
  <2> HIDE DEF i, due, m
  <2>5. PolicySound(p)
    BY <2>2 DEF PolicySound, Policy
  <2> HIDE DEF p
  <2> QED BY <1>2, <2>3, <2>4, <2>5
<1> QED BY <1>3, <1>4

\* A new connection is one that nobody has.
LEMMA FreshIsFree ==
  ASSUME NEW v, v \in ServerRecord, Cardinality(DOMAIN v.conn) < Cardinality(Conns)
  PROVE  Fresh(v) \in Conns \ DOMAIN v.conn
<1> DEFINE F == Conns \ DOMAIN v.conn
<1>1. DOMAIN v.conn \subseteq Conns /\ IsFiniteSet(Conns)
  BY ConnsAre, ClientAssumption
<1>2. F # {}
  <2>1. ASSUME F = {} PROVE FALSE
    <3>1. DOMAIN v.conn = Conns
      BY <1>1, <2>1
    <3>2. Cardinality(DOMAIN v.conn) = Cardinality(Conns) /\ Cardinality(Conns) \in Nat
      BY <1>1, <3>1, FS_CardinalityType
    <3> QED BY <3>2
  <2> QED BY <2>1
<1>3. F \subseteq Nat
  BY ServersAssumption
<1>4. \E c \in F : \A d \in F : c <= d
  <2>1. PICK c \in F : \A d \in F : <<d, c>> \notin OpToRel(<, Nat)
    BY <1>2, <1>3, NatLessThanWellFounded, WFMin
  <2>2. \A d \in F : ~(d < c)
    BY <1>3, <2>1 DEF OpToRel
  <2> QED BY <1>3, <2>2
<1> QED BY <1>4 DEF Fresh, Free

\* The size of a set with one more element
LEMMA OneMore ==
  ASSUME NEW S, IsFiniteSet(S), NEW n \in Nat, Cardinality(S) <= n, NEW x
  PROVE  IsFiniteSet(S \cup {x}) /\ Cardinality(S \cup {x}) <= n + 1
<1>1. Cardinality(S) \in Nat
  BY FS_CardinalityType
<1>2. /\ IsFiniteSet(S \cup {x})
      /\ Cardinality(S \cup {x}) = IF x \in S THEN Cardinality(S) ELSE Cardinality(S) + 1
  BY FS_AddElement
<1> QED BY <1>1, <1>2

\* The size of a union
LEMMA BothTogether ==
  ASSUME NEW S, IsFiniteSet(S), NEW n \in Nat, Cardinality(S) <= n,
         NEW T, IsFiniteSet(T), NEW m \in Nat, Cardinality(T) <= m
  PROVE  IsFiniteSet(S \cup T) /\ Cardinality(S \cup T) <= n + m
<1>1. Cardinality(S) \in Nat /\ Cardinality(T) \in Nat
  BY FS_CardinalityType
<1>2. IsFiniteSet(S \cap T)
  BY FS_Subset
<1>3. Cardinality(S \cap T) \in Nat
  BY <1>2, FS_CardinalityType
<1>4. /\ IsFiniteSet(S \cup T)
      /\ Cardinality(S \cup T) = Cardinality(S) + Cardinality(T) - Cardinality(S \cap T)
  BY FS_Union
<1> QED BY <1>1, <1>3, <1>4

\* Each server has one entry, and one connection is the primary one.
LEMMA FewActive ==
  ASSUME NEW v, v \in ServerRecord
  PROVE  IsFiniteSet(Active(v)) /\ Cardinality(Active(v)) <= Cardinality(Servers) + 1
<1> DEFINE R == Range(v.entry)
<1>1. IsFiniteSet(Servers) /\ Cardinality(Servers) \in Nat
  BY ClientAssumption, FS_CardinalityType
<1>2. v.entry \in Surjection(Servers, R)
  BY DEF Surjection, Range, ServerRecord
<1>3. IsFiniteSet(R) /\ Cardinality(R) <= Cardinality(Servers)
  BY <1>1, <1>2, FS_Surjection
<1> HIDE DEF R
<1>4. IsFiniteSet(R \cup {v.primary}) /\ Cardinality(R \cup {v.primary}) <= Cardinality(Servers) + 1
  BY <1>1, <1>3, OneMore
<1>5. Active(v) \in SUBSET (R \cup {v.primary})
  BY DEF Active, Entries, R
<1>6. IsFiniteSet(Active(v)) /\ Cardinality(Active(v)) <= Cardinality(R \cup {v.primary})
  BY <1>4, <1>5, FS_Subset
<1> QED BY <1>1, <1>4, <1>6, FS_CardinalityType

\* There is always a connection object that nobody has, for a new one.
LEMMA RoomForOne ==
  ASSUME NEW v, ServersSound(v), NEW l, NEW a, Bounded(v, l, a), ConnsPlaced(v, l, a),
         l.todo \in Seq(Conns), l.conn = NoConn \/ a.conn = NoConn
  PROVE  Fresh(v) \in Conns \ DOMAIN v.conn
<1> DEFINE T == Range(l.todo)
           A == Active(v)
           n == Cardinality(Servers) + 1
<1>1. /\ v \in ServerRecord /\ DOMAIN v.conn \subseteq Conns /\ IsFiniteSet(Conns)
      /\ Cardinality(Conns) >= 2 * n + 3 /\ n \in Nat /\ Cardinality(Conns) \in Nat
  BY ConnsAre, ClientAssumption, FS_CardinalityType DEF ServersSound
<1>2. IsFiniteSet(T) /\ Cardinality(T) <= n
  <2>1. T \in SUBSET Conns
    BY DEF Range
  <2> QED BY <1>1, <2>1, FS_Subset DEF Bounded
<1>3. IsFiniteSet(A) /\ Cardinality(A) <= n
  BY <1>1, FewActive
<1>4. PICK x : l.conn \in {x, NoConn} /\ a.conn \in {x, NoConn}
  <2>1. CASE l.conn = NoConn
    BY <2>1
  <2>2. CASE a.conn = NoConn
    BY <2>2
  <2> QED BY <2>1, <2>2
<1> DEFINE S == ((A \cup T) \cup {v.identity}) \cup {x}
<1>5. DOMAIN v.conn \in SUBSET S
  <2>1. NoConn \notin DOMAIN v.conn
    BY <1>1, ServersAssumption
  <2> QED BY <1>4, <2>1 DEF Bounded, Held
<1> HIDE DEF A, T, n
<1>6. IsFiniteSet(A \cup T) /\ Cardinality(A \cup T) <= n + n
  BY <1>1, <1>2, <1>3, BothTogether
<1>7. /\ IsFiniteSet((A \cup T) \cup {v.identity})
      /\ Cardinality((A \cup T) \cup {v.identity}) <= (n + n) + 1
  <2>1. n + n \in Nat
    BY <1>1
  <2> QED BY <1>6, <2>1, OneMore
<1>8. IsFiniteSet(S) /\ Cardinality(S) <= ((n + n) + 1) + 1
  <2>1. (n + n) + 1 \in Nat
    BY <1>1
  <2> QED BY <1>7, <2>1, OneMore
<1> HIDE DEF S
<1>9. Cardinality(DOMAIN v.conn) < Cardinality(Conns)
  <2>1. IsFiniteSet(DOMAIN v.conn) /\ Cardinality(DOMAIN v.conn) <= Cardinality(S)
    BY <1>5, <1>8, FS_Subset
  <2>2. Cardinality(DOMAIN v.conn) \in Nat /\ Cardinality(S) \in Nat
    BY <1>8, <2>1, FS_CardinalityType
  <2> QED BY <1>1, <1>8, <2>1, <2>2
<1> QED BY <1>1, <1>9, FreshIsFree

\* Only connections that nobody has are forgotten.
LEMMA KeptGood ==
  ASSUME NEW v, NEW l, NEW a, Good(v, l, a), l.todo \in Seq(Conns),
         l.at \in Serving => l.todo # << >>
  PROVE  LET q == Kept(v, Held(l, a))
         IN /\ Good(q, l, a) /\ q.configured = v.configured
            /\ DOMAIN q.conn \subseteq Active(q) \cup {q.identity} \cup Held(l, a)
<1> DEFINE D == DOMAIN v.conn \cap (Active(v) \cup {v.identity} \cup Held(l, a))
           conn == [c \in D |-> v.conn[c]]
           q == Kept(v, Held(l, a))
<1>1. v \in ServerRecord /\ v.conn \in [DOMAIN v.conn -> ConnRecord] /\ DOMAIN v.conn \subseteq Conns
  BY ConnsAre DEF Good, ServersSound
<1>2. q = [v EXCEPT !.conn = conn]
  BY DEF Kept, Restrict
<1>3. conn \in ConnData /\ DOMAIN conn = D /\ \A c \in D : conn[c] = v.conn[c]
  <2>1. conn \in [D -> ConnRecord] /\ D \in SUBSET Conns /\ \A c \in D : conn[c] = v.conn[c]
    BY <1>1
  <2> HIDE DEF conn, D
  <2> QED BY <2>1, ConnsTyped
<1> HIDE DEF conn
<1>4. q \in ServerRecord /\ q.conn = conn /\ SameFields(v, q)
  BY <1>1, <1>2, <1>3 DEF ServerRecord, SameFields
<1> HIDE DEF q
<1>5. Active(q) = Active(v)
  BY <1>4, SameActive DEF SameFields
<1>6. /\ Active(v) \cup {v.identity} \subseteq D \cup {NoConn}
      /\ Held(l, a) \subseteq D \cup {NoConn}
  BY DEF Good, ServersSound, ConnsPlaced
<1>7. \A c \in D : c \in DOMAIN q.conn /\ q.conn[c] = v.conn[c] /\ c \in DOMAIN v.conn
  BY <1>3, <1>4
<1>8. \A c \in Active(v) : c \in D
  BY <1>6 DEF Active
<1>9. l.at \in Serving => Head(l.todo) \in D
  <2>1. SUFFICES ASSUME l.at \in Serving PROVE Head(l.todo) \in D
    OBVIOUS
  <2>2. Head(l.todo) \in Range(l.todo) /\ Head(l.todo) \in Conns
    BY <2>1 DEF Range
  <2> QED BY <1>6, <2>2, ServersAssumption DEF Held
<1>10. ServersSound(q)
  <2>1. \A s \in Servers : q.entry[s] # NoConn => q.conn[q.entry[s]].server = s
    <3>1. SUFFICES ASSUME NEW s \in Servers, q.entry[s] # NoConn
                   PROVE  q.conn[q.entry[s]].server = s
      OBVIOUS
    <3>2. q.entry[s] \in Active(v)
      BY <1>1, <1>4, <3>1, ActiveIs DEF SameFields
    <3> QED BY <1>4, <1>7, <1>8, <3>1, <3>2 DEF Good, ServersSound, SameFields
  <2>2. \A c \in DOMAIN q.conn : q.conn[c].socket = "dialing" => ~q.conn[c].shaken
    BY <1>3, <1>4, <1>7 DEF Good, ServersSound
  <2> QED BY <1>3, <1>4, <1>5, <1>6, <2>1, <2>2 DEF Good, ServersSound, SameFields
<1>11. Served(q, l) = Served(v, l)
  BY <1>7, <1>9 DEF Served, Disconnecting, Serving
<1>12. IdentitySound(q, Served(q, l), Shaking(l))
  <2>1. \A c \in Active(v) : /\ Disconnecting(q, c) = Disconnecting(v, c)
                             /\ Shaken(q, c) = Shaken(v, c)
    BY <1>7, <1>8 DEF Disconnecting, Shaken
  <2>2. v.identity # NoConn => q.conn[v.identity] = v.conn[v.identity]
    BY <1>6, <1>7
  <2>3. Shaking(l) # NoConn => Shaking(l) \in D
    BY <1>9 DEF Shaking, Serving
  <2>4. Shaking(l) # NoConn => Shaking(l) \in DOMAIN q.conn /\ Shaken(q, Shaking(l))
    BY <1>7, <2>3 DEF Good, IdentitySound, Shaken
  <2> QED BY <1>4, <1>5, <1>11, <2>1, <2>2, <2>4
          DEF Good, IdentitySound, SameFields, Disconnecting, Shaken
<1>13. ConnsPlaced(q, l, a)
  <2>1. Held(l, a) \subseteq DOMAIN q.conn \cup {NoConn}
    BY <1>3, <1>4, <1>6
  <2>2. l.at \in Serving => q.conn[Head(l.todo)].socket # "dialing"
    BY <1>7, <1>9 DEF Good, ConnsPlaced
  <2>3. \A c \in {l.conn, a.conn} \ {NoConn} : q.conn[c].socket # "open"
    BY <1>6, <1>7 DEF Good, ConnsPlaced, Held
  <2> QED BY <2>1, <2>2, <2>3 DEF Good, ConnsPlaced
<1> QED BY <1>3, <1>4, <1>5, <1>10, <1>12, <1>13 DEF Good, SameFields, q

\* With no closed connection in the fields, it makes no difference which one
\* the loop is at.
LEMMA IdentityAnyhow ==
  ASSUME NEW v, NEW shaking, IdentitySound(v, NoConn, shaking), NEW served
  PROVE  IdentitySound(v, served, shaking)
<1>1. NoConn \notin Active(v)
  BY DEF Active
<1> QED BY <1>1 DEF IdentitySound

\* The identity is as sound when the connection that the loop serves stays closed.
LEMMA ServedStays ==
  ASSUME NEW v, NEW q, NEW l, IdentitySound(q, Served(v, l), Shaking(l)),
         l.at \in {"shaken", "served"}
           => (Disconnecting(v, Head(l.todo)) => Disconnecting(q, Head(l.todo)))
  PROVE  IdentitySound(q, Served(q, l), Shaking(l))
<1>1. CASE Served(v, l) = NoConn
  BY <1>1, IdentityAnyhow
<1>2. CASE Served(v, l) # NoConn
  BY <1>2 DEF Served
<1> QED BY <1>1, <1>2

\* Another table of connections, other fields
LEMMA FieldsSound ==
  ASSUME NEW v, ServersSound(v), NEW q, q \in ServerRecord,
         DOMAIN v.conn \subseteq DOMAIN q.conn,
         \A c \in DOMAIN v.conn : /\ q.conn[c].server = v.conn[c].server
                                  /\ q.conn[c].socket = "dialing" => ~q.conn[c].shaken,
         \A c \in DOMAIN q.conn \ DOMAIN v.conn : ~q.conn[c].shaken,
         \A s \in Servers : \/ q.entry[s] \in {v.entry[s], NoConn}
                            \/ q.entry[s] \in DOMAIN q.conn /\ q.conn[q.entry[s]].server = s,
         {q.primary, q.identity} \subseteq DOMAIN q.conn \cup {NoConn},
         \A s \in Servers : PolicySound(q.policy[s])
  PROVE  ServersSound(q)
<1>1. Active(q) \cup {q.identity} \subseteq DOMAIN q.conn \cup {NoConn}
  <2>1. SUFFICES ASSUME NEW c \in Active(q) PROVE c \in DOMAIN q.conn
    OBVIOUS
  <2>2. c = q.primary \/ \E s \in Servers : q.entry[s] = c
    BY <2>1, ActiveIs
  <2>3. c # NoConn
    BY DEF Active
  <2>4. ASSUME NEW s \in Servers, q.entry[s] = c PROVE c \in DOMAIN q.conn
    <3>1. CASE q.entry[s] = v.entry[s]
      <4>1. v.entry[s] \in Active(v)
        BY <2>3, <2>4, <3>1, ActiveIs DEF ServersSound
      <4> QED BY <2>3, <2>4, <3>1, <4>1 DEF ServersSound
    <3>2. CASE q.entry[s] # v.entry[s]
      BY <2>3, <2>4, <3>2
    <3> QED BY <3>1, <3>2
  <2> QED BY <2>2, <2>3, <2>4
<1>2. ASSUME NEW s \in Servers, q.entry[s] # NoConn PROVE q.conn[q.entry[s]].server = s
  <2>1. CASE q.entry[s] = v.entry[s]
    <3>1. v.entry[s] \in Active(v)
      BY <1>2, <2>1, ActiveIs DEF ServersSound
    <3>2. v.entry[s] \in DOMAIN v.conn
      BY <1>2, <2>1, <3>1 DEF ServersSound
    <3> QED BY <1>2, <2>1, <3>2 DEF ServersSound
  <2>2. CASE q.entry[s] # v.entry[s]
    BY <1>2, <2>2
  <2> QED BY <2>1, <2>2
<1>3. ASSUME NEW c \in DOMAIN q.conn, q.conn[c].socket = "dialing" PROVE ~q.conn[c].shaken
  BY <1>3
<1> QED BY <1>1, <1>2, <1>3 DEF ServersSound

\* promotePrimaryServer of an entry leaves the identity sound.
LEMMA PromotedIs ==
  ASSUME NEW v, ServersSound(v), NEW served, NEW shaking, IdentitySound(v, served, shaking),
         NEW c \in Entries(v)
  PROVE  LET q == Promote(v, c)
         IN /\ ServersSound(q) /\ IdentitySound(q, served, shaking) /\ q.conn = v.conn
            /\ q.configured = v.configured
<1> DEFINE q == Promote(v, c)
<1>1. c \in Active(v) /\ c \in DOMAIN v.conn /\ c # NoConn /\ v \in ServerRecord
  BY DEF Active, Entries, ServersSound
<1>2. CASE q = v
  BY <1>2
<1>3. CASE q # v
  <2>1. /\ q = [v EXCEPT !.primary = c]
        /\ v.primary = NoConn \/ Disconnecting(v, v.primary) \/ ~Shaken(v, v.primary)
    BY <1>3 DEF Promote
  <2>2. /\ q \in ServerRecord /\ q.conn = v.conn /\ q.entry = v.entry /\ q.primary = c
        /\ q.identity = v.identity /\ q.configured = v.configured /\ q.policy = v.policy
    BY <1>1, <2>1, ConnsAre DEF ServerRecord
  <2> HIDE DEF q
  <2>3. ServersSound(q)
    <3>1. Active(q) \subseteq Active(v)
      BY <1>1, <2>2, ActiveIs
    <3> QED BY <2>2, <3>1 DEF ServersSound
  <2>4. Active(q) \subseteq Active(v)
    BY <1>1, <2>2, ActiveIs
  <2>5. /\ \A d \in Active(q) : Disconnecting(q, d) = Disconnecting(v, d) /\ Shaken(q, d) = Shaken(v, d)
        /\ Shaken(q, v.identity) = Shaken(v, v.identity)
        /\ Disconnecting(q, v.identity) = Disconnecting(v, v.identity)
    BY <2>2 DEF Disconnecting, Shaken
  <2>6. served = NoConn /\ v.primary # NoConn => ~Shaken(v, v.primary)
    BY <1>1, <2>1, ActiveIs DEF IdentitySound
  <2>7. IdentitySound(q, served, shaking)
    <3>1. shaking # NoConn => shaking \in DOMAIN q.conn /\ Shaken(q, shaking)
      BY <2>2 DEF IdentitySound, Shaken
    <3> QED BY <2>2, <2>4, <2>5, <2>6, <3>1 DEF IdentitySound
  <2> QED BY <2>2, <2>3, <2>7 DEF q
<1> QED BY <1>2, <1>3

\* The end of a dial opens the connection or closes it, unless it was closed meanwhile.
LEMMA DialedIs ==
  ASSUME NEW v, ServersSound(v), NEW served, NEW shaking, IdentitySound(v, served, shaking),
         NEW c \in DOMAIN v.conn, v.conn[c].socket # "open", NEW ok \in BOOLEAN
  PROVE  LET q == Dialed(v, c, ok)
         IN /\ ServersSound(q) /\ IdentitySound(q, served, shaking) /\ DOMAIN q.conn = DOMAIN v.conn
            /\ q.configured = v.configured
            /\ \A d \in DOMAIN v.conn : d # c => q.conn[d] = v.conn[d]
            /\ Disconnecting(v, c) => q = v
            /\ q.conn[c].socket # "dialing"
<1> DEFINE q == Dialed(v, c, ok)
<1>0. v \in ServerRecord /\ v.conn \in [DOMAIN v.conn -> ConnRecord] /\ DOMAIN v.conn \in SUBSET Conns
  BY ConnsAre DEF ServersSound
<1>1. CASE Disconnecting(v, c)
  BY <1>1 DEF Dialed, Disconnecting
<1>2. CASE ~Disconnecting(v, c)
  <2>1. v.conn[c].socket = "dialing" /\ ~v.conn[c].shaken
    BY <1>0, <1>2 DEF ServersSound, Disconnecting, ConnRecord
  <2>2. /\ q \in ServerRecord /\ SameFields(v, q) /\ DOMAIN q.conn = DOMAIN v.conn
        /\ q.conn[c].socket \in {"open", "closed"} /\ ~q.conn[c].shaken
        /\ q.conn[c].server = v.conn[c].server
        /\ \A d \in DOMAIN v.conn : d # c => q.conn[d] = v.conn[d]
    <3>1. CASE ok
      <4> DEFINE new == [v.conn[c] EXCEPT !.socket = "open"]
                 conn == [v.conn EXCEPT ![c] = new]
      <4>1. /\ new \in ConnRecord /\ new.socket = "open" /\ new.server = v.conn[c].server
            /\ new.shaken = v.conn[c].shaken
        BY <1>0 DEF ConnRecord
      <4>2. q = [v EXCEPT !.conn = conn]
        BY <1>2, <3>1 DEF Dialed
      <4> HIDE DEF new
      <4>3. /\ conn \in [DOMAIN v.conn -> ConnRecord] /\ DOMAIN conn = DOMAIN v.conn
            /\ \A d \in DOMAIN v.conn : conn[d] = IF d = c THEN new ELSE v.conn[d]
        BY <1>0, <4>1
      <4>4. conn \in ConnData
        BY <1>0, <4>3, ConnsTyped
      <4> HIDE DEF conn
      <4>5. q \in ServerRecord /\ SameFields(v, q) /\ q.conn = conn
        BY <1>0, <4>2, <4>4 DEF ServerRecord, SameFields
      <4> QED BY <2>1, <4>1, <4>3, <4>5
    <3>2. CASE ~ok
      <4>1. q = Close(v, c, TRUE)
        BY <1>2, <3>2 DEF Dialed
      <4> HIDE DEF q
      <4>2. /\ q \in ServerRecord /\ SameFields(v, q) /\ DOMAIN q.conn = DOMAIN v.conn
            /\ q.conn[c].socket = "closed"
            /\ \A d \in DOMAIN v.conn : /\ q.conn[d].shaken = v.conn[d].shaken
                                        /\ q.conn[d].server = v.conn[d].server
                                        /\ d # c => q.conn[d] = v.conn[d]
        <5> DEFINE r(lost) == Close(v, c, lost)
        <5>1. \A lost \in BOOLEAN :
                /\ r(lost) \in ServerRecord /\ SameFields(v, r(lost))
                /\ DOMAIN r(lost).conn = DOMAIN v.conn /\ r(lost).conn[c].socket = "closed"
                /\ \A d \in DOMAIN v.conn : /\ r(lost).conn[d].shaken = v.conn[d].shaken
                                            /\ r(lost).conn[d].server = v.conn[d].server
                                            /\ d # c => r(lost).conn[d] = v.conn[d]
          BY <1>0, CloseIs
        <5>2. q = r(TRUE)
          BY <4>1
        <5> HIDE DEF r
        <5> QED BY <5>1, <5>2
      <4> QED BY <2>1, <4>2
    <3> QED BY <3>1, <3>2
  <2> HIDE DEF q
  <2>4. Active(q) = Active(v)
    BY <2>2, SameActive DEF SameFields
  <2>3. ServersSound(q)
    <3>1. \A s \in Servers : v.entry[s] # NoConn => v.entry[s] \in DOMAIN v.conn
      BY <1>0, ActiveIs DEF ServersSound
    <3>2. \A d \in DOMAIN v.conn : q.conn[d].server = v.conn[d].server
      BY <2>2
    <3>3. \A d \in DOMAIN q.conn : q.conn[d].socket = "dialing" => ~q.conn[d].shaken
      BY <2>2 DEF ServersSound
    <3> QED BY <2>2, <2>4, <3>1, <3>2, <3>3 DEF SameFields, ServersSound
  <2>5. \A d \in DOMAIN v.conn : /\ Shaken(q, d) <=> Shaken(v, d)
                                 /\ Shaken(v, d) => q.conn[d] = v.conn[d]
    BY <2>1, <2>2 DEF Shaken
  <2>6. Active(v) \subseteq DOMAIN v.conn /\ v.identity \in DOMAIN v.conn \cup {NoConn}
    BY DEF ServersSound, Active
  <2>7. IdentitySound(q, served, shaking)
    <3>1. shaking # NoConn => shaking \in DOMAIN q.conn /\ Shaken(q, shaking)
      BY <2>2, <2>5 DEF IdentitySound
    <3> QED BY <2>2, <2>4, <2>5, <2>6, <3>1 DEF IdentitySound, SameFields, Disconnecting, Shaken
  <2> QED BY <1>2, <2>2, <2>3, <2>7 DEF SameFields, q
<1> QED BY <1>1, <1>2

\* A connection that is closed keeps what it told, and is in the same fields.
LEMMA ClosedSound ==
  ASSUME NEW v, ServersSound(v), NEW c \in DOMAIN v.conn, NEW lost \in BOOLEAN
  PROVE  LET q == Close(v, c, lost)
         IN /\ ServersSound(q) /\ SameFields(v, q) /\ DOMAIN q.conn = DOMAIN v.conn
            /\ Active(q) = Active(v) /\ Entries(q) = Entries(v)
            /\ q.conn[c].socket = "closed"
            /\ q.conn[c].lost = IF Disconnecting(v, c) THEN v.conn[c].lost ELSE lost
            /\ \A d \in DOMAIN v.conn : /\ q.conn[d].shaken = v.conn[d].shaken
                                        /\ q.conn[d].server = v.conn[d].server
                                        /\ d # c => q.conn[d] = v.conn[d]
<1> DEFINE q == Close(v, c, lost)
<1>1. v \in ServerRecord
  BY DEF ServersSound
<1>2. /\ q \in ServerRecord /\ SameFields(v, q) /\ DOMAIN q.conn = DOMAIN v.conn
      /\ q.conn[c].socket = "closed"
      /\ q.conn[c].lost = IF Disconnecting(v, c) THEN v.conn[c].lost ELSE lost
      /\ \A d \in DOMAIN v.conn : /\ q.conn[d].shaken = v.conn[d].shaken
                                  /\ q.conn[d].server = v.conn[d].server
                                  /\ d # c => q.conn[d] = v.conn[d]
  BY <1>1, CloseIs
<1> HIDE DEF q
<1>3. Active(q) = Active(v) /\ Entries(q) = Entries(v)
  BY <1>2, SameActive DEF SameFields
<1>4. \A s \in Servers : v.entry[s] # NoConn => v.entry[s] \in DOMAIN v.conn
  BY <1>1, ActiveIs DEF ServersSound
<1>5. \A d \in DOMAIN q.conn : q.conn[d].socket = "dialing" => ~q.conn[d].shaken
  BY <1>2 DEF ServersSound
<1>6. ServersSound(q)
  BY <1>2, <1>3, <1>4, <1>5 DEF SameFields, ServersSound
<1> QED BY <1>2, <1>3, <1>6 DEF q

\* What holds when the connection of s is about to be replaced. It may have
\* been closed for that.
Replaceable(v, s, served, shaking) ==
  /\ shaking # NoConn => shaking \in DOMAIN v.conn /\ Shaken(v, shaking)
  /\ \A c \in Active(v) \ {v.entry[s]} : Disconnecting(v, c) /\ Shaken(v, c) => c = served
  /\ served = NoConn /\ v.identity = NoConn => \A c \in Active(v) : Shaken(v, c) => c = shaking
  /\ served = NoConn /\ v.identity # NoConn =>
       /\ Shaken(v, v.identity)
       /\ \/ /\ v.identity = v.primary
             /\ Disconnecting(v, v.primary) => v.primary = v.entry[s] /\ ~v.conn[v.primary].lost
          \/ /\ v.identity \notin Active(v) /\ Disconnecting(v, v.identity)
             /\ ~v.conn[v.identity].lost

\* A connection that is in no field may be replaced.
LEMMA ReplaceableAnyhow ==
  ASSUME NEW v, ServersSound(v), NEW served, NEW shaking, IdentitySound(v, served, shaking),
         NEW s \in Servers
  PROVE  Replaceable(v, s, served, shaking)
<1>1. v \in ServerRecord /\ Active(v) \cup {v.identity} \subseteq DOMAIN v.conn \cup {NoConn}
  BY DEF ServersSound
<1>2. served = NoConn /\ v.identity = v.primary /\ v.identity # NoConn
        => ~(Disconnecting(v, v.primary) /\ Shaken(v, v.primary))
  BY <1>1, ActiveIs DEF IdentitySound
<1> QED BY <1>2 DEF Replaceable, IdentitySound

\* ConnectTo closes the connection it replaces.
LEMMA ReplacedIs ==
  ASSUME NEW v, ServersSound(v), NEW served, NEW shaking, IdentitySound(v, served, shaking),
         NEW s \in Servers
  PROVE  LET q == Replaced(v, s)
         IN /\ ServersSound(q) /\ Replaceable(q, s, served, shaking) /\ DOMAIN q.conn = DOMAIN v.conn
            /\ SameFields(v, q) /\ Active(q) = Active(v)
            /\ \A d \in DOMAIN v.conn : q.conn[d] = v.conn[d] \/ q.conn[d].socket = "closed"
<1> DEFINE q == Replaced(v, s)
           e == v.entry[s]
<1>0. v \in ServerRecord /\ Active(v) \cup {v.identity} \subseteq DOMAIN v.conn \cup {NoConn}
  BY DEF ServersSound
<1>1. CASE e = NoConn
  <2>1. q = v
    BY <1>1 DEF Replaced
  <2>3. Replaceable(v, s, served, shaking)
    BY ReplaceableAnyhow
  <2> QED BY <2>1, <2>3 DEF SameFields
<1>2. CASE e # NoConn
  <2>1. e \in Active(v) /\ e \in DOMAIN v.conn
    BY <1>0, <1>2, ActiveIs
  <2>2. q = Close(v, e, FALSE)
    BY <1>2 DEF Replaced
  <2>3. /\ ServersSound(q) /\ SameFields(v, q) /\ DOMAIN q.conn = DOMAIN v.conn
        /\ Active(q) = Active(v)
        /\ q.conn[e].socket = "closed"
        /\ q.conn[e].lost = IF Disconnecting(v, e) THEN v.conn[e].lost ELSE FALSE
        /\ \A d \in DOMAIN v.conn : q.conn[d].shaken = v.conn[d].shaken
        /\ \A d \in DOMAIN v.conn : d # e => q.conn[d] = v.conn[d]
    <3> DEFINE r(lost) == Close(v, e, lost)
    <3>1. \A lost \in BOOLEAN :
            /\ ServersSound(r(lost)) /\ SameFields(v, r(lost)) /\ DOMAIN r(lost).conn = DOMAIN v.conn
            /\ Active(r(lost)) = Active(v) /\ r(lost).conn[e].socket = "closed"
            /\ r(lost).conn[e].lost = IF Disconnecting(v, e) THEN v.conn[e].lost ELSE lost
            /\ \A d \in DOMAIN v.conn : /\ r(lost).conn[d].shaken = v.conn[d].shaken
                                        /\ d # e => r(lost).conn[d] = v.conn[d]
      BY <2>1, ClosedSound
    <3>2. q = r(FALSE)
      BY <2>2
    <3> HIDE DEF r, q, e
    <3> QED BY <3>1, <3>2
  <2> HIDE DEF q, e
  <2>4. \A c \in Active(v) : c \in DOMAIN v.conn
    BY <1>0 DEF Active
  <2>5. \A c \in Active(v) \ {e} : Disconnecting(q, c) /\ Shaken(q, c) => c = served
    BY <2>3, <2>4 DEF Disconnecting, Shaken, IdentitySound
  <2>6. /\ served = NoConn /\ v.identity = NoConn => \A c \in Active(v) : Shaken(q, c) => c = shaking
        /\ shaking # NoConn => shaking \in DOMAIN q.conn /\ Shaken(q, shaking)
    BY <2>3, <2>4 DEF Shaken, IdentitySound
  <2>7. ASSUME served = NoConn, v.identity # NoConn
        PROVE  /\ Shaken(q, v.identity)
               /\ \/ /\ v.identity = v.primary
                     /\ Disconnecting(q, v.primary) => v.primary = e /\ ~q.conn[v.primary].lost
                  \/ /\ v.identity \notin Active(v) /\ Disconnecting(q, v.identity)
                     /\ ~q.conn[v.identity].lost
    <3>1. v.identity \in DOMAIN v.conn
      BY <1>0, <2>7
    <3>2. Shaken(q, v.identity)
      BY <2>3, <2>7, <3>1 DEF Shaken, IdentitySound
    <3>3. CASE v.identity = v.primary
      <4>1. v.primary \in Active(v) /\ v.primary # NoConn
        BY <2>7, <3>3, <1>0, ActiveIs
      <4>2. ~Disconnecting(v, v.primary)
        BY <2>7, <3>3, <4>1 DEF IdentitySound
      <4> QED BY <2>3, <2>4, <3>2, <3>3, <4>1, <4>2 DEF Disconnecting
    <3>4. CASE v.identity # v.primary
      <4>1. v.identity # e
        BY <2>1, <2>7, <3>4 DEF IdentitySound
      <4> QED BY <2>3, <2>7, <3>1, <3>2, <3>4, <4>1 DEF Disconnecting, IdentitySound
    <3> QED BY <3>3, <3>4
  <2>8. Replaceable(q, s, served, shaking)
    BY <2>3, <2>5, <2>6, <2>7 DEF Replaceable, SameFields, e
  <2> QED BY <2>3, <2>8 DEF q
<1> QED BY <1>1, <1>2

\* A new connection is dialed; it takes the entry and no identity.
LEMMA CreatedIs ==
  ASSUME NEW v, ServersSound(v), NEW s \in Servers, Fresh(v) \in Conns \ DOMAIN v.conn,
         NEW served, NEW shaking, Replaceable(v, s, served, shaking)
  PROVE  LET q == Create(v, s)
         IN /\ ServersSound(q) /\ IdentitySound(q, served, shaking) /\ q.configured = v.configured
            /\ DOMAIN q.conn = DOMAIN v.conn \cup {Fresh(v)}
            /\ q.conn[Fresh(v)].socket = "dialing"
            /\ \A d \in DOMAIN v.conn : q.conn[d] = v.conn[d]
<1> DEFINE q == Create(v, s)
           c == Fresh(v)
           new == [server |-> s, socket |-> "dialing", lost |-> FALSE, shaken |-> FALSE]
           conn == [d \in DOMAIN v.conn \cup {c} |-> IF d = c THEN new ELSE v.conn[d]]
           entry == [v.entry EXCEPT ![s] = c]
           w == [v EXCEPT !.conn = conn, !.entry = entry]
<1>1. /\ v \in ServerRecord /\ v.conn \in [DOMAIN v.conn -> ConnRecord]
      /\ DOMAIN v.conn \subseteq Conns /\ c \in Conns /\ c \notin DOMAIN v.conn /\ c # NoConn
      /\ Active(v) \cup {v.identity} \subseteq DOMAIN v.conn \cup {NoConn}
  BY ConnsAre, ServersAssumption DEF ServersSound
<1>2. q = Promote(w, c)
  BY DEF Create
<1>3. new \in ConnRecord /\ new.server = s /\ new.socket = "dialing" /\ ~new.shaken
  BY DEF ConnRecord
<1> HIDE DEF new, c
<1>4. /\ conn \in ConnData /\ DOMAIN conn = DOMAIN v.conn \cup {c} /\ conn[c] = new
      /\ \A d \in DOMAIN v.conn : conn[d] = v.conn[d]
  <2>1. DOMAIN v.conn \cup {c} \in SUBSET Conns /\ conn \in [DOMAIN v.conn \cup {c} -> ConnRecord]
    BY <1>1, <1>3
  <2>2. conn \in ConnData
    BY <2>1, ConnsTyped
  <2> QED BY <1>1, <2>2
<1>5. /\ entry \in [Servers -> Conns \cup {NoConn}]
      /\ \A t \in Servers : entry[t] = IF t = s THEN c ELSE v.entry[t]
  BY <1>1 DEF ServerRecord
<1> HIDE DEF conn, entry
<1>6. /\ w.conn = conn /\ w.entry = entry /\ w.primary = v.primary /\ w.identity = v.identity
      /\ w.configured = v.configured /\ w.policy = v.policy /\ w \in ServerRecord
  BY <1>1, <1>4, <1>5 DEF ServerRecord
<1> HIDE DEF w
<1>7. /\ q \in ServerRecord /\ q.conn = conn /\ q.entry = entry /\ q.identity = v.identity
      /\ q.configured = v.configured /\ q.policy = v.policy /\ q.primary \in {v.primary, c}
  BY <1>1, <1>2, <1>6 DEF Promote, ServerRecord
<1>8. /\ v.primary = NoConn \/ Disconnecting(w, v.primary) \/ ~Shaken(w, v.primary) => q.primary = c
      /\ v.primary # NoConn /\ ~Disconnecting(w, v.primary) /\ Shaken(w, v.primary)
           => q.primary = v.primary
  BY <1>2, <1>6 DEF Promote
<1> HIDE DEF q
<1>9. v.primary # NoConn => v.primary \in Active(v) /\ v.primary \in DOMAIN v.conn
  BY <1>1, ActiveIs
<1>10. v.entry[s] # NoConn =>
         v.entry[s] \in DOMAIN v.conn /\ \A t \in Servers : v.entry[t] = v.entry[s] => t = s
  <2>1. v.entry[s] # NoConn => v.entry[s] \in DOMAIN v.conn
    BY <1>1, ActiveIs
  <2> QED BY <2>1 DEF ServersSound
<1>11. ServersSound(q)
  <2>1. \A d \in DOMAIN v.conn : /\ q.conn[d].server = v.conn[d].server
                                 /\ q.conn[d].socket = "dialing" => ~q.conn[d].shaken
    BY <1>4, <1>7 DEF ServersSound
  <2>2. \A d \in DOMAIN q.conn \ DOMAIN v.conn : ~q.conn[d].shaken
    BY <1>3, <1>4, <1>7
  <2>3. \A t \in Servers : \/ q.entry[t] \in {v.entry[t], NoConn}
                           \/ q.entry[t] \in DOMAIN q.conn /\ q.conn[q.entry[t]].server = t
    BY <1>3, <1>4, <1>5, <1>7
  <2>4. {q.primary, q.identity} \subseteq DOMAIN q.conn \cup {NoConn}
    BY <1>1, <1>4, <1>7, <1>9
  <2>5. \A t \in Servers : PolicySound(q.policy[t])
    BY <1>7 DEF ServersSound
  <2>6. DOMAIN v.conn \subseteq DOMAIN q.conn
    BY <1>4, <1>7
  <2> QED BY <1>7, <2>1, <2>2, <2>3, <2>4, <2>5, <2>6, FieldsSound
<1>12. \A d \in Active(q) : d = c \/ (d \in Active(v) /\ d \in DOMAIN v.conn /\ d # NoConn)
  <2>1. SUFFICES ASSUME NEW d \in Active(q), d # c PROVE d \in Active(v)
    BY <1>1 DEF Active
  <2>2. d # NoConn /\ (d = v.primary \/ \E t \in Servers : v.entry[t] = d)
    BY <1>5, <1>7, <2>1, ActiveIs
  <2> QED BY <1>1, <2>2, ActiveIs
\* the connection that is replaced
<1>13. ASSUME v.entry[s] # NoConn, v.entry[s] \in Active(q) 
       PROVE  ~Disconnecting(v, v.entry[s])
  <2>1. v.entry[s] \in DOMAIN v.conn /\ v.entry[s] # c
    BY <1>1, <1>10, <1>13
  <2>2. \A t \in Servers : q.entry[t] # v.entry[s]
    BY <1>5, <1>7, <1>10, <1>13, <2>1
  <2>3. v.entry[s] = q.primary
    BY <1>7, <1>13, <2>2, ActiveIs
  <2>4. v.entry[s] = v.primary
    BY <1>7, <2>1, <2>3
  <2>5. ~Disconnecting(w, v.primary)
    BY <1>8, <2>1, <2>3, <2>4
  <2> QED BY <1>4, <1>6, <2>1, <2>4, <2>5 DEF Disconnecting
<1>14. \A d \in DOMAIN v.conn : q.conn[d] = v.conn[d] /\ w.conn[d] = v.conn[d]
  BY <1>4, <1>6, <1>7
<1>15. ~Shaken(q, c)
  BY <1>3, <1>4, <1>7 DEF Shaken
<1>16. IdentitySound(q, served, shaking)
  <2>1. ASSUME NEW d \in Active(q), Disconnecting(q, d), Shaken(q, d) PROVE d = served
    <3>1. d \in Active(v) /\ d \in DOMAIN v.conn /\ d # NoConn
      BY <1>12, <1>15, <2>1
    <3>2. Disconnecting(v, d) /\ Shaken(v, d)
      BY <1>14, <2>1, <3>1 DEF Disconnecting, Shaken
    <3>3. d # v.entry[s]
      BY <1>13, <2>1, <3>1, <3>2
    <3> QED BY <3>1, <3>2, <3>3 DEF Replaceable
  <2>2. ASSUME served = NoConn, v.identity = NoConn, NEW d \in Active(q), Shaken(q, d)
        PROVE  d = shaking
    BY <1>12, <1>14, <1>15, <2>2 DEF Replaceable, Shaken
  <2>4. shaking # NoConn => shaking \in DOMAIN q.conn /\ Shaken(q, shaking)
    BY <1>4, <1>7, <1>14 DEF Replaceable, Shaken
  <2>3. ASSUME served = NoConn, v.identity # NoConn
        PROVE  /\ Shaken(q, v.identity)
               /\ \/ v.identity = q.primary
                  \/ /\ v.identity \notin Active(q) /\ Disconnecting(q, v.identity)
                     /\ ~q.conn[v.identity].lost
    <3>1. v.identity \in DOMAIN v.conn /\ v.identity # c
      BY <1>1, <2>3
    <3>2. Shaken(q, v.identity) /\ Shaken(v, v.identity)
      BY <1>14, <2>3, <3>1 DEF Replaceable, Shaken
    <3>3. CASE v.identity = v.primary /\ ~Disconnecting(v, v.primary)
      BY <1>8, <1>14, <2>3, <3>1, <3>2, <3>3 DEF Disconnecting, Shaken
    <3>4. CASE v.identity = v.primary /\ Disconnecting(v, v.primary)
      <4>1. v.identity = v.entry[s] /\ ~v.conn[v.identity].lost
        BY <2>3, <3>1, <3>2, <3>4 DEF Replaceable, Active
      <4>2. v.identity \notin Active(q)
        BY <1>13, <2>3, <3>4, <4>1
      <4> QED BY <1>14, <3>1, <3>2, <3>4, <4>1, <4>2 DEF Disconnecting
    <3>5. CASE v.identity # v.primary
      <4>1. v.identity \notin Active(v) /\ Disconnecting(v, v.identity) /\ ~v.conn[v.identity].lost
        BY <2>3, <3>5 DEF Replaceable
      <4> QED BY <1>12, <1>14, <3>1, <3>2, <4>1 DEF Disconnecting
    <3> QED BY <3>3, <3>4, <3>5
  <2> QED BY <1>7, <2>1, <2>2, <2>3, <2>4 DEF IdentitySound
<1>17. DOMAIN q.conn = DOMAIN v.conn \cup {c} /\ q.conn[c].socket = "dialing"
  BY <1>3, <1>4, <1>7
<1> QED BY <1>7, <1>11, <1>14, <1>16, <1>17 DEF q, c

\* Other names for connections that the session has
Named(v, p, i) == [v EXCEPT !.primary = p, !.identity = i]

\* Another primary server and identity, out of the connections there are
LEMMA NamedIs ==
  ASSUME NEW v, ServersSound(v), NEW p \in Active(v) \cup {NoConn},
         NEW i \in Active(v) \cup {NoConn, v.identity}
  PROVE  LET q == Named(v, p, i)
         IN /\ ServersSound(q) /\ q.conn = v.conn /\ q.primary = p /\ q.identity = i
            /\ q.configured = v.configured /\ q.entry = v.entry
            /\ Active(q) \subseteq Active(v) /\ Entries(q) = Entries(v)
<1> DEFINE q == Named(v, p, i)
<1>1. /\ v \in ServerRecord /\ DOMAIN v.conn \subseteq Conns
      /\ Active(v) \cup {v.identity} \subseteq DOMAIN v.conn \cup {NoConn}
  BY ConnsAre DEF ServersSound
<1>2. /\ q \in ServerRecord /\ q.conn = v.conn /\ q.primary = p /\ q.identity = i
      /\ q.configured = v.configured /\ q.entry = v.entry /\ q.policy = v.policy
  BY <1>1 DEF Named, ServerRecord
<1> HIDE DEF q
<1>3. Active(q) \subseteq Active(v)
  <2>1. SUFFICES ASSUME NEW d \in Active(q) PROVE d \in Active(v)
    OBVIOUS
  <2>2. d # NoConn /\ (d = p \/ \E s \in Servers : v.entry[s] = d)
    BY <1>2, <2>1, ActiveIs
  <2> QED BY <1>1, <2>2, ActiveIs
<1>4. Entries(q) = Entries(v)
  BY <1>2 DEF Entries
<1>5. ServersSound(q)
  BY <1>1, <1>2, <1>3 DEF ServersSound
<1> QED BY <1>2, <1>3, <1>4, <1>5 DEF q

\* promotePrimaryServer(nil) chooses among the entries.
LEMMA PromotedAny ==
  ASSUME NEW v, ServersSound(v), NEW q \in PromoteAny(v)
  PROVE  /\ ServersSound(q) /\ q.conn = v.conn /\ q.configured = v.configured
         /\ Active(q) \subseteq Active(v)
<1>1. CASE q = v
  BY <1>1
<1>2. CASE q # v
  <2>1. PICK p \in Entries(v) \cup {NoConn} : q = [v EXCEPT !.primary = p]
    BY <1>2 DEF PromoteAny
  <2>2. q = Named(v, p, v.identity)
    BY <2>1 DEF Named, ServersSound, ServerRecord
  <2>3. p \in Active(v) \cup {NoConn}
    BY <2>1 DEF Active, Entries
  <2> QED BY <2>2, <2>3, NamedIs
<1> QED BY <1>1, <1>2

\* refreshPrimaryServerIdentity makes the identity that of the primary server.
LEMMA RefreshedIs ==
  ASSUME NEW v, ServersSound(v), NEW q \in Refresh(v),
         \A c \in Active(v) : Disconnecting(v, c) => ~Shaken(v, c)
  PROVE  /\ ServersSound(q) /\ q.conn = v.conn /\ q.configured = v.configured
         /\ IdentitySound(q, NoConn, NoConn)
<1>0. v \in ServerRecord /\ NoConn \notin Active(v)
  BY DEF ServersSound, Active
<1>1. PICK p \in Active(v) \cup {NoConn}, i \in Active(v) \cup {NoConn} :
        /\ q = Named(v, p, i)
        /\ \/ i # NoConn /\ i = p /\ Shaken(v, i)
           \/ i = NoConn /\ p = v.primary /\ \A c \in Active(v) : ~Shaken(v, c)
  <2>1. CASE v.primary # NoConn /\ Shaken(v, v.primary)
    <3>1. q = Named(v, v.primary, v.primary)
      BY <1>0, <2>1 DEF Refresh, Named, ServerRecord
    <3>2. v.primary \in Active(v)
      BY <1>0, <2>1, ActiveIs
    <3> QED BY <2>1, <3>1, <3>2
  <2>2. CASE /\ ~(v.primary # NoConn /\ Shaken(v, v.primary))
             /\ {c \in Entries(v) : Shaken(v, c)} = {}
    <3>1. q = [v EXCEPT !.identity = NoConn]
      BY <2>2 DEF Refresh
    <3>2. q = Named(v, v.primary, NoConn)
      BY <1>0, <3>1 DEF Named, ServerRecord
    <3>3. \A c \in Active(v) : ~Shaken(v, c)
      BY <2>2 DEF Active
    <3>4. v.primary \in Active(v) \cup {NoConn}
      BY <1>0, ActiveIs
    <3> QED BY <3>2, <3>3, <3>4
  <2>3. CASE /\ ~(v.primary # NoConn /\ Shaken(v, v.primary))
             /\ {c \in Entries(v) : Shaken(v, c)} # {}
    <3>1. PICK c \in Entries(v) : Shaken(v, c) /\ q = Named(v, c, c)
      <4> DEFINE candidates == {c \in Entries(v) : Shaken(v, c)}
                 r(c) == [v EXCEPT !.primary = c, !.identity = c]
      <4>2. Refresh(v) = {r(c) : c \in candidates}
        <5>1. ~(v.primary # NoConn /\ Shaken(v, v.primary)) /\ {c \in Entries(v) : Shaken(v, c)} # {}
          BY <2>3
        <5> QED BY <5>1, ZenonT(30) DEF Refresh
      <4>3. \A c : r(c) = Named(v, c, c)
        BY DEF Named
      <4> HIDE DEF r
      <4>4. PICK c \in candidates : q = r(c)
        BY <4>2
      <4> QED BY <4>3, <4>4
    <3>2. c \in Active(v) /\ c # NoConn
      BY <3>1 DEF Active, Entries
    <3> QED BY <3>1, <3>2
  <2> QED BY <2>1, <2>2, <2>3
<1>2. /\ ServersSound(q) /\ q.conn = v.conn /\ q.primary = p /\ q.identity = i
      /\ q.configured = v.configured /\ Active(q) \subseteq Active(v)
  BY <1>1, NamedIs
<1>3. \A c : Shaken(q, c) = Shaken(v, c) /\ Disconnecting(q, c) = Disconnecting(v, c)
  BY <1>2 DEF Shaken, Disconnecting
<1>4. IdentitySound(q, NoConn, NoConn)
  BY <1>1, <1>2, <1>3 DEF IdentitySound
<1> QED BY <1>2, <1>4

\* OnServerConnectionClosed takes the connection out, and refreshes the identity.
LEMMA EndedIs ==
  ASSUME NEW v, ServersSound(v), NEW c \in DOMAIN v.conn, IdentitySound(v, c, NoConn),
         NEW q \in OnServerConnectionClosed(v, c)
  PROVE  /\ ServersSound(q) /\ IdentitySound(q, NoConn, NoConn) /\ q.configured = v.configured
         /\ DOMAIN q.conn = DOMAIN v.conn
         /\ \A d \in DOMAIN v.conn : q.conn[d].socket = v.conn[d].socket
<1> DEFINE s == v.conn[c].server
           new == [v.conn[c] EXCEPT !.shaken = FALSE]
           conn == [v.conn EXCEPT ![c] = new]
           entry == [v.entry EXCEPT ![s] = NoConn]
           primary == IF v.primary = c THEN NoConn ELSE v.primary
           gone == [v EXCEPT !.conn = conn, !.entry = entry, !.primary = primary]
           told == IF v.conn[c].lost THEN SetServerConnectionFailed(gone, s) ELSE gone
<1>1. /\ v \in ServerRecord /\ v.conn \in [DOMAIN v.conn -> ConnRecord]
      /\ DOMAIN v.conn \subseteq Conns /\ DOMAIN v.conn \in SUBSET Conns
      /\ Active(v) \cup {v.identity} \subseteq DOMAIN v.conn \cup {NoConn}
  BY ConnsAre DEF ServersSound
<1>2. PICK w \in PromoteAny(told) : q \in Refresh(w)
  <2>1. gone = [v EXCEPT !.conn[c].shaken = FALSE, !.entry[s] = NoConn,
                         !.primary = IF @ = c THEN NoConn ELSE @]
    OBVIOUS
  <2> QED BY <2>1 DEF OnServerConnectionClosed
<1>3. /\ s \in Servers /\ new \in ConnRecord /\ new.server = s /\ ~new.shaken
      /\ new.socket = v.conn[c].socket
  <2>1. v.conn[c] \in ConnRecord
    BY <1>1
  <2> QED BY <2>1 DEF ConnRecord
<1> HIDE DEF s, new
<1>4. /\ conn \in ConnData /\ DOMAIN conn = DOMAIN v.conn
      /\ \A d \in DOMAIN v.conn : conn[d] = IF d = c THEN new ELSE v.conn[d]
  <2>1. conn \in [DOMAIN v.conn -> ConnRecord]
    BY <1>1, <1>3
  <2>2. conn \in ConnData
    BY <1>1, <2>1, ConnsTyped
  <2> QED BY <1>1, <2>2
<1>5. /\ entry \in [Servers -> Conns \cup {NoConn}] /\ primary \in Conns \cup {NoConn}
      /\ \A t \in Servers : entry[t] = IF t = s THEN NoConn ELSE v.entry[t]
      /\ primary \in {v.primary, NoConn}
  BY <1>1 DEF ServerRecord
<1> HIDE DEF conn, entry, primary
<1>6. /\ gone \in ServerRecord /\ gone.conn = conn /\ gone.entry = entry /\ gone.primary = primary
      /\ gone.identity = v.identity /\ gone.configured = v.configured /\ gone.policy = v.policy
  BY <1>1, <1>4, <1>5 DEF ServerRecord
<1> HIDE DEF gone
<1>7. ServersSound(gone)
  <2>1. \A d \in DOMAIN v.conn : /\ gone.conn[d].server = v.conn[d].server
                                 /\ gone.conn[d].socket = "dialing" => ~gone.conn[d].shaken
    <3>1. v.conn[c].server = s
      BY DEF s
    <3> QED BY <1>3, <1>4, <1>6, <3>1 DEF ServersSound
  <2>2. \A t \in Servers : gone.entry[t] \in {v.entry[t], NoConn}
    BY <1>5, <1>6
  <2>3. {gone.primary, gone.identity} \subseteq DOMAIN gone.conn \cup {NoConn}
    <3>1. v.primary \in DOMAIN v.conn \cup {NoConn}
      BY <1>1, ActiveIs
    <3> QED BY <1>1, <1>4, <1>5, <1>6, <3>1
  <2>4. \A t \in Servers : PolicySound(gone.policy[t])
    BY <1>6 DEF ServersSound
  <2>5. DOMAIN v.conn = DOMAIN gone.conn
    BY <1>4, <1>6
  <2> QED BY <1>6, <2>1, <2>2, <2>3, <2>4, <2>5, FieldsSound
<1>8. Active(gone) \subseteq Active(v)
  <2>1. SUFFICES ASSUME NEW d \in Active(gone) PROVE d \in Active(v)
    OBVIOUS
  <2>2. d # NoConn /\ (d = v.primary \/ \E t \in Servers : v.entry[t] = d)
    BY <1>5, <1>6, <2>1, ActiveIs
  <2> QED BY <1>1, <2>2, ActiveIs
<1>9. /\ ServersSound(told) /\ told.conn = conn /\ told.configured = v.configured
      /\ Active(told) \subseteq Active(v)
  <2>1. CASE v.conn[c].lost
    <3>1. told = SetServerConnectionFailed(gone, s)
      BY <2>1
    <3> HIDE DEF told
    <3>2. /\ ServersSound(told) /\ told.conn = gone.conn /\ told.entry = gone.entry
          /\ told.primary = gone.primary /\ told.configured = gone.configured
      BY <1>3, <1>7, <3>1, PolicyTold
    <3> QED BY <1>6, <1>8, <3>2, SameActive
  <2>2. CASE ~v.conn[c].lost
    BY <1>6, <1>7, <1>8, <2>2
  <2> QED BY <2>1, <2>2
<1> HIDE DEF told
<1>10. /\ ServersSound(w) /\ w.conn = conn /\ w.configured = v.configured
       /\ Active(w) \subseteq Active(v)
  BY <1>2, <1>9, PromotedAny
<1>11. ASSUME NEW d \in Active(w), Disconnecting(w, d) PROVE ~Shaken(w, d)
  <2>1. d \in Active(v) /\ d \in DOMAIN v.conn
    BY <1>1, <1>10, <1>11 DEF Active
  <2> QED BY <1>3, <1>4, <1>10, <1>11, <2>1 DEF Disconnecting, Shaken, IdentitySound
<1>12. /\ ServersSound(q) /\ q.conn = conn /\ q.configured = v.configured
       /\ IdentitySound(q, NoConn, NoConn)
  BY <1>2, <1>10, <1>11, RefreshedIs
<1> QED BY <1>3, <1>4, <1>12

\* A connection that shakes hands is the one whose identity comes next.
LEMMA HandshakeIs ==
  ASSUME NEW v, ServersSound(v), NEW c \in DOMAIN v.conn, v.conn[c].socket # "dialing",
         IdentitySound(v, NoConn, NoConn)
  PROVE  LET q == HandshakeCompleted(v, c)
         IN /\ ServersSound(q) /\ DOMAIN q.conn = DOMAIN v.conn
            /\ IdentitySound(q, IF Disconnecting(q, c) THEN c ELSE NoConn, c)
            /\ \A d \in DOMAIN v.conn : q.conn[d].socket = v.conn[d].socket
<1> DEFINE q == HandshakeCompleted(v, c)
           new == [v.conn[c] EXCEPT !.shaken = TRUE]
           conn == [v.conn EXCEPT ![c] = new]
           served == IF Disconnecting(q, c) THEN c ELSE NoConn
<1>1. /\ v \in ServerRecord /\ v.conn \in [DOMAIN v.conn -> ConnRecord] /\ c \in Conns /\ c # NoConn
      /\ DOMAIN v.conn \subseteq Conns /\ DOMAIN v.conn \in SUBSET Conns /\ NoConn \notin Active(v)
      /\ Active(v) \cup {v.identity} \subseteq DOMAIN v.conn \cup {NoConn}
  BY ConnsAre, ServersAssumption DEF ServersSound, Active
<1>2. /\ new \in ConnRecord /\ new.server = v.conn[c].server /\ new.shaken
      /\ new.socket = v.conn[c].socket /\ new.lost = v.conn[c].lost
  <2>1. v.conn[c] \in ConnRecord
    BY <1>1
  <2> QED BY <2>1 DEF ConnRecord
<1>3. q = [v EXCEPT !.conn = conn]
  BY DEF HandshakeCompleted
<1> HIDE DEF new, q
<1>4. /\ conn \in ConnData /\ DOMAIN conn = DOMAIN v.conn
      /\ \A d \in DOMAIN v.conn : conn[d] = IF d = c THEN new ELSE v.conn[d]
  <2>1. conn \in [DOMAIN v.conn -> ConnRecord]
    BY <1>1, <1>2
  <2>2. conn \in ConnData
    BY <1>1, <2>1, ConnsTyped
  <2> QED BY <1>1, <2>2
<1> HIDE DEF conn
<1>5. q \in ServerRecord /\ q.conn = conn /\ SameFields(v, q)
  BY <1>1, <1>3, <1>4 DEF ServerRecord, SameFields
<1>6. Active(q) = Active(v)
  BY <1>5, SameActive DEF SameFields
<1>7. \A d \in DOMAIN v.conn : /\ d # c => q.conn[d] = v.conn[d]
                               /\ q.conn[d].server = v.conn[d].server
                               /\ q.conn[d].socket = v.conn[d].socket
                               /\ q.conn[d].lost = v.conn[d].lost
  BY <1>2, <1>4, <1>5
<1>8. ServersSound(q)
  <2>1. \A d \in DOMAIN v.conn : /\ q.conn[d].server = v.conn[d].server
                                 /\ q.conn[d].socket = "dialing" => ~q.conn[d].shaken
    BY <1>7 DEF ServersSound
  <2>2. DOMAIN v.conn = DOMAIN q.conn
    BY <1>4, <1>5
  <2>3. {q.primary, q.identity} \subseteq DOMAIN q.conn \cup {NoConn}
    <3>1. v.primary \in DOMAIN v.conn \cup {NoConn}
      BY <1>1, ActiveIs
    <3> QED BY <1>1, <1>5, <2>2, <3>1 DEF SameFields
  <2>4. \A t \in Servers : q.entry[t] \in {v.entry[t], NoConn}
    BY <1>5 DEF SameFields
  <2>5. \A t \in Servers : PolicySound(q.policy[t])
    BY <1>5 DEF ServersSound, SameFields
  <2> QED BY <1>5, <2>1, <2>2, <2>3, <2>4, <2>5, FieldsSound
<1>9. Shaken(q, c) /\ c \in DOMAIN q.conn
  BY <1>2, <1>4, <1>5 DEF Shaken
<1>10. \A d \in DOMAIN v.conn : /\ Disconnecting(q, d) = Disconnecting(v, d)
                                /\ d # c => Shaken(q, d) = Shaken(v, d)
                                /\ Shaken(v, d) => Shaken(q, d)
  BY <1>7, <1>9 DEF Disconnecting, Shaken
<1>11. \A d \in Active(q) : d \in Active(v) /\ d \in DOMAIN v.conn
  BY <1>1, <1>6
<1>12. \A d \in Active(q) : Disconnecting(q, d) /\ Shaken(q, d) => d = served
  <2>1. SUFFICES ASSUME NEW d \in Active(q), Disconnecting(q, d), Shaken(q, d) PROVE d = served
    OBVIOUS
  <2>2. d = c
    BY <1>1, <1>10, <1>11, <2>1 DEF IdentitySound
  <2> QED BY <2>1, <2>2
<1>13. v.identity = NoConn => \A d \in Active(q) : Shaken(q, d) => d = c
  BY <1>1, <1>10, <1>11 DEF IdentitySound
<1>14. v.identity # NoConn =>
         /\ Shaken(q, v.identity)
         /\ \/ v.identity = v.primary
            \/ /\ v.identity \notin Active(q) /\ Disconnecting(q, v.identity)
               /\ ~q.conn[v.identity].lost
  <2>1. SUFFICES ASSUME v.identity # NoConn
                 PROVE  /\ Shaken(q, v.identity)
                        /\ \/ v.identity = v.primary
                           \/ /\ v.identity \notin Active(q) /\ Disconnecting(q, v.identity)
                              /\ ~q.conn[v.identity].lost
    OBVIOUS
  <2>2. v.identity \in DOMAIN v.conn
    BY <1>1, <2>1
  <2> QED BY <1>6, <1>7, <1>10, <2>1, <2>2 DEF IdentitySound
<1> HIDE DEF served
<1>15. IdentitySound(q, served, c)
  BY <1>5, <1>9, <1>12, <1>13, <1>14 DEF IdentitySound, SameFields
<1> QED BY <1>4, <1>5, <1>7, <1>8, <1>15 DEF q, served

\* OnServerIDChange of the session gives the primary server its identity.
LEMMA IDChanged ==
  ASSUME NEW v, ServersSound(v), NEW c \in DOMAIN v.conn,
         IdentitySound(v, IF Disconnecting(v, c) THEN c ELSE NoConn, c)
  PROVE  LET q == OnServerIDChange(v, c)
         IN /\ ServersSound(q) /\ q.conn = v.conn
            /\ IdentitySound(q, IF Disconnecting(q, c) THEN c ELSE NoConn, NoConn)
<1> DEFINE q == OnServerIDChange(v, c)
           primary == IF v.primary = NoConn \/ ~Shaken(v, v.primary) THEN c ELSE v.primary
           identity == IF primary = c \/ v.identity = NoConn THEN c ELSE v.identity
           served == IF Disconnecting(v, c) THEN c ELSE NoConn
<1>1. /\ v \in ServerRecord /\ c \in Conns /\ c # NoConn /\ Shaken(v, c)
      /\ DOMAIN v.conn \subseteq Conns /\ NoConn \notin Active(v)
      /\ Active(v) \cup {v.identity} \subseteq DOMAIN v.conn \cup {NoConn}
  BY ConnsAre, ServersAssumption DEF ServersSound, Active, IdentitySound
<1>2. IdentitySound(v, served, c) /\ (served = NoConn => ~Disconnecting(v, c))
  BY <1>1
<1>3. q = [v EXCEPT !.primary = primary, !.identity = identity]
  <2> DEFINE w == [v EXCEPT !.primary = primary]
  <2>1. w = [v EXCEPT !.primary = IF @ = NoConn \/ ~Shaken(v, @) THEN c ELSE @]
    OBVIOUS
  <2>2. q = IF w.primary = c \/ w.identity = NoConn THEN [w EXCEPT !.identity = c] ELSE w
    BY <2>1 DEF OnServerIDChange
  <2> HIDE DEF primary, q
  <2>3. w.primary = primary /\ w.identity = v.identity
    BY <1>1 DEF ServerRecord
  <2>4. [w EXCEPT !.identity = c] = [v EXCEPT !.primary = primary, !.identity = c]
    OBVIOUS
  <2>5. w = [v EXCEPT !.primary = primary, !.identity = v.identity]
    BY <1>1 DEF ServerRecord
  <2> HIDE DEF w
  <2> QED BY <2>2, <2>3, <2>4, <2>5
<1> HIDE DEF q, served
<1>5. /\ primary \in DOMAIN v.conn /\ primary \in {v.primary, c} /\ identity \in DOMAIN v.conn
      /\ identity \in {v.identity, c}
  <2>1. v.primary \in DOMAIN v.conn \cup {NoConn}
    BY <1>1, ActiveIs
  <2> QED BY <1>1, <2>1
<1>6. /\ primary # c => /\ v.primary = primary /\ Shaken(v, primary) /\ primary # NoConn
      /\ primary = c => identity = c
      /\ v.identity = NoConn => identity = c
      /\ primary # c /\ v.identity # NoConn => identity = v.identity
  BY <1>1
<1> HIDE DEF primary, identity
<1>7. /\ q \in ServerRecord /\ q.conn = v.conn /\ q.entry = v.entry /\ q.primary = primary
      /\ q.identity = identity /\ q.policy = v.policy
  BY <1>1, <1>3, <1>5 DEF ServerRecord
<1>8. ServersSound(q)
  <2>1. \A d \in DOMAIN v.conn : /\ q.conn[d].server = v.conn[d].server
                                 /\ q.conn[d].socket = "dialing" => ~q.conn[d].shaken
    BY <1>7 DEF ServersSound
  <2>3. {q.primary, q.identity} \subseteq DOMAIN q.conn \cup {NoConn}
    BY <1>5, <1>7
  <2>4. \A t \in Servers : q.entry[t] \in {v.entry[t], NoConn}
    BY <1>7
  <2>5. \A t \in Servers : PolicySound(q.policy[t])
    BY <1>7 DEF ServersSound
  <2> QED BY <1>7, <2>1, <2>3, <2>4, <2>5, FieldsSound
<1>9. \A d \in Active(q) : d = c \/ (d \in Active(v) /\ d \in DOMAIN v.conn)
  <2>1. SUFFICES ASSUME NEW d \in Active(q), d # c PROVE d \in Active(v)
    BY <1>1
  <2>2. d # NoConn /\ (d = v.primary \/ \E t \in Servers : v.entry[t] = d)
    BY <1>5, <1>7, <2>1, ActiveIs
  <2> QED BY <1>1, <2>2, ActiveIs
<1>10. /\ \A d : Disconnecting(q, d) = Disconnecting(v, d) /\ Shaken(q, d) = Shaken(v, d)
       /\ Disconnecting(v, c) => served = c
  BY <1>7 DEF Disconnecting, Shaken, served
<1>12. IdentitySound(q, served, NoConn)
  <2>1. ASSUME NEW d \in Active(q), Disconnecting(q, d), Shaken(q, d) PROVE d = served
    BY <1>2, <1>9, <1>10, <2>1 DEF IdentitySound
  <2>2. ASSUME served = NoConn
        PROVE  /\ q.identity # NoConn /\ Shaken(q, q.identity)
               /\ \/ q.identity = q.primary
                  \/ /\ q.identity \notin Active(q) /\ Disconnecting(q, q.identity)
                     /\ ~q.conn[q.identity].lost
    <3>2. q.identity # NoConn
      BY <1>1, <1>5, <1>7, ServersAssumption
    <3>3. CASE primary = c
      BY <1>1, <1>6, <1>7, <1>10, <3>2, <3>3
    <3>4. CASE primary # c
      <4>1. v.primary = primary /\ Shaken(v, primary) /\ primary \in Active(v)
        BY <1>1, <1>6, <3>4, ActiveIs
      <4>2. v.identity # NoConn /\ identity = v.identity
        BY <1>2, <1>6, <2>2, <3>4, <4>1 DEF IdentitySound
      <4>3. Active(q) = Active(v)
        BY <1>7, <4>1, SameActive
      <4> QED BY <1>2, <1>7, <1>10, <2>2, <3>2, <4>1, <4>2, <4>3 DEF IdentitySound
    <3> QED BY <3>3, <3>4
  <2> QED BY <2>1, <2>2 DEF IdentitySound
<1>13. served = IF Disconnecting(q, c) THEN c ELSE NoConn
  BY <1>10 DEF served
<1> QED BY <1>7, <1>8, <1>12, <1>13 DEF q

\* DisconnectFrom closes every connection and forgets the configured servers.
LEMMA AllDisconnected ==
  ASSUME NEW v, ServersSound(v), NEW served, NEW shaking, IdentitySound(v, served, shaking)
  PROVE  LET q == DisconnectAll(v)
         IN /\ ServersSound(q) /\ IdentitySound(q, served, shaking) /\ q.configured = {}
            /\ DOMAIN q.conn = DOMAIN v.conn
            /\ \A d \in DOMAIN v.conn : q.conn[d] = v.conn[d] \/ q.conn[d].socket = "closed"
<1> DEFINE q == DisconnectAll(v)
           closed(d) == Close(v, d, FALSE)
           conn == [d \in DOMAIN v.conn |-> IF d \in Entries(v) THEN closed(d).conn[d] ELSE v.conn[d]]
<1>1. /\ v.conn \in [DOMAIN v.conn -> ConnRecord]
      /\ DOMAIN v.conn \subseteq Conns /\ DOMAIN v.conn \in SUBSET Conns
  BY ConnsAre DEF ServersSound
<1>2. q = [NewServers EXCEPT !.conn = conn]
  BY DEF DisconnectAll
<1>3. \A d \in DOMAIN v.conn : /\ closed(d).conn[d] \in ConnRecord
                               /\ closed(d).conn[d].socket = "closed"
                               /\ closed(d).conn[d].shaken = v.conn[d].shaken
  <2>1. SUFFICES ASSUME NEW d \in DOMAIN v.conn
                 PROVE  /\ closed(d).conn[d] \in ConnRecord /\ closed(d).conn[d].socket = "closed"
                        /\ closed(d).conn[d].shaken = v.conn[d].shaken
    OBVIOUS
  <2> DEFINE r(lost) == Close(v, d, lost)
  <2>2. \A lost \in BOOLEAN : /\ r(lost) \in ServerRecord /\ DOMAIN r(lost).conn = DOMAIN v.conn
                              /\ r(lost).conn[d].socket = "closed"
                              /\ r(lost).conn[d].shaken = v.conn[d].shaken
    BY CloseIs DEF ServersSound
  <2> HIDE DEF r
  <2>3. /\ r(FALSE) \in ServerRecord /\ d \in DOMAIN r(FALSE).conn
        /\ r(FALSE).conn[d].socket = "closed" /\ r(FALSE).conn[d].shaken = v.conn[d].shaken
    BY <2>2
  <2>4. r(FALSE).conn \in [DOMAIN r(FALSE).conn -> ConnRecord]
    BY <2>3, ConnsAre
  <2>5. r(FALSE).conn[d] \in ConnRecord
    BY <2>3, <2>4
  <2> QED BY <2>3, <2>5 DEF r
<1> HIDE DEF closed
<1>4. /\ conn \in ConnData /\ DOMAIN conn = DOMAIN v.conn
      /\ \A d \in DOMAIN v.conn : /\ conn[d] = v.conn[d] \/ conn[d].socket = "closed"
                                  /\ conn[d].shaken = v.conn[d].shaken
  <2>1. conn \in [DOMAIN v.conn -> ConnRecord]
    BY <1>1, <1>3
  <2>2. conn \in ConnData
    BY <1>1, <2>1, ConnsTyped
  <2> QED BY <1>3, <2>2
<1> HIDE DEF conn, q
<1>5. /\ q.conn = conn /\ q.entry = [s \in Servers |-> NoConn] /\ q.primary = NoConn
      /\ q.identity = NoConn /\ q.configured = {} /\ q.policy = [s \in Servers |-> NewPolicy]
      /\ q.losses = [s \in Servers |-> 0]
      /\ q = [conn |-> conn, entry |-> q.entry, primary |-> NoConn, identity |-> NoConn,
              configured |-> {}, policy |-> q.policy, losses |-> q.losses]
  BY <1>2 DEF NewServers
<1>6. PolicySound(NewPolicy) /\ NewPolicy \in Policy /\ 0 \in 0..MaxReconnects
  BY ServersAssumption DEF PolicySound, NewPolicy, Policy
<1>7. q \in ServerRecord
  <2>1. /\ q.entry \in [Servers -> Conns \cup {NoConn}] /\ q.policy \in [Servers -> Policy]
        /\ q.losses \in [Servers -> 0..MaxReconnects]
    BY <1>5, <1>6
  <2> QED BY <1>4, <1>5, <2>1 DEF ServerRecord
<1>8. Active(q) = {}
  BY <1>5, <1>7, ActiveIs
<1>9. \A d \in DOMAIN conn : conn[d].socket = "dialing" => ~conn[d].shaken
  BY <1>4 DEF ServersSound
<1>10. ServersSound(q)
  BY <1>5, <1>6, <1>7, <1>8, <1>9 DEF ServersSound
<1>11. IdentitySound(q, served, shaking)
  <2>1. shaking # NoConn => shaking \in DOMAIN q.conn /\ Shaken(q, shaking)
    BY <1>4, <1>5 DEF IdentitySound, Shaken
  <2> QED BY <1>5, <1>8, <2>1 DEF IdentitySound
<1> QED BY <1>4, <1>5, <1>10, <1>11 DEF q

\* ConnectTo makes the server a candidate at once.
LEMMA WantedIs ==
  ASSUME NEW v, ServersSound(v), NEW s \in Servers
  PROVE  LET q == Wanted(v, s)
         IN /\ ServersSound(q) /\ q.conn = v.conn /\ q.entry = v.entry /\ q.primary = v.primary
            /\ q.identity = v.identity /\ q.configured = v.configured \cup {s}
<1> DEFINE w == [v EXCEPT !.configured = @ \cup {s}]
           q == SetConnectCandidate(w, s)
<1>1. /\ w \in ServerRecord /\ w.conn = v.conn /\ w.entry = v.entry /\ w.primary = v.primary
      /\ w.identity = v.identity /\ w.configured = v.configured \cup {s} /\ w.policy = v.policy
  BY DEF ServersSound, ServerRecord
<1> HIDE DEF w
<1>2. Active(w) = Active(v)
  BY <1>1, SameActive
<1>3. ServersSound(w)
  BY <1>1, <1>2 DEF ServersSound
<1> HIDE DEF q
<1>4. q \in {SetConnectCandidate(w, s), SetServerConnectionFailed(w, s)}
  BY DEF q
<1>5. /\ ServersSound(q) /\ q.conn = w.conn /\ q.entry = w.entry /\ q.primary = w.primary
      /\ q.identity = w.identity /\ q.configured = w.configured
  BY <1>3, <1>4, PolicyTold
<1>6. Wanted(v, s) = q
  BY DEF Wanted, q, w
<1> QED BY <1>1, <1>5, <1>6

\* A reconnect that falls due concerns the policy only.
LEMMA NowDue ==
  ASSUME NEW v, ServersSound(v), NEW s \in Servers, v.policy[s].due = "later"
  PROVE  LET q == [v EXCEPT !.policy[s].due = "now"]
         IN /\ ServersSound(q) /\ q.conn = v.conn /\ q.entry = v.entry /\ q.primary = v.primary
            /\ q.identity = v.identity /\ q.configured = v.configured
<1> DEFINE p == [v.policy[s] EXCEPT !.due = "now"]
           policy == [v.policy EXCEPT ![s] = p]
           q == [v EXCEPT !.policy = policy]
<1>1. v \in ServerRecord /\ PolicySound(v.policy[s]) /\ v.policy[s] \in Policy
  BY DEF ServersSound, PolicySound
<1>2. PolicySound(p)
  <2>1. p.known = v.policy[s].known /\ p.iteration = v.policy[s].iteration /\ p.due = "now" /\ p \in Policy
    BY <1>1 DEF Policy
  <2> QED BY <1>1, <2>1, ServersAssumption DEF PolicySound
<1> HIDE DEF p
<1>3. policy \in [Servers -> Policy] /\ \A t \in Servers : policy[t] = IF t = s THEN p ELSE v.policy[t]
  BY <1>1, <1>2 DEF PolicySound, ServerRecord
<1> HIDE DEF policy
<1>4. /\ q \in ServerRecord /\ q.conn = v.conn /\ q.entry = v.entry /\ q.primary = v.primary
      /\ q.identity = v.identity /\ q.configured = v.configured /\ q.policy = policy
  BY <1>1, <1>3 DEF ServerRecord
<1> HIDE DEF q
<1>5. Active(q) = Active(v)
  BY <1>4, SameActive
<1>6. ServersSound(q)
  BY <1>2, <1>3, <1>4, <1>5 DEF ServersSound
<1>7. q = [v EXCEPT !.policy[s].due = "now"]
  BY DEF q, policy, p
<1> QED BY <1>4, <1>6, <1>7

(***************************************************************************)
(* The steps, and the server connections                                   *)
(***************************************************************************)
Fine(v, l, a) ==
  /\ Good(v, l, a) /\ Bounded(v, l, a) /\ l.todo \in Seq(Conns)
  /\ l.at \in Serving => l.todo # << >>
  /\ l.at = "dialing" => l.conn # NoConn
  /\ a.at = "dialing" => a.conn # NoConn

\* The same, of the variables.
LEMMA AllFine == ASSUME Placed, ServersPlaced PROVE Fine(srv, loop, api)
  BY DEF Placed, LoopPlaced, LoopRecord, ServersPlaced, Fine

\* What the loop has left to serve
LEMMA TailIs ==
  ASSUME NEW todo \in Seq(Conns), todo # << >>,
         Cardinality(Range(todo)) <= Cardinality(Servers) + 1
  PROVE  /\ Tail(todo) \in Seq(Conns) /\ Range(Tail(todo)) \subseteq Range(todo)
         /\ Head(todo) \in Range(todo) /\ Head(todo) \in Conns
         /\ Cardinality(Range(Tail(todo))) <= Cardinality(Servers) + 1
<1>1. Tail(todo) \in Seq(Conns)
  OBVIOUS
<1>2. Range(Tail(todo)) \subseteq Range(todo)
  BY DEF Range
<1>3. Head(todo) \in Range(todo) /\ Head(todo) \in Conns
  BY DEF Range
<1>4. Range(todo) \in SUBSET Conns
  BY DEF Range
<1>5. IsFiniteSet(Range(todo))
  BY <1>4, ClientAssumption, FS_Subset
<1>6. /\ IsFiniteSet(Range(Tail(todo)))
      /\ Cardinality(Range(Tail(todo))) <= Cardinality(Range(todo))
  BY <1>2, <1>5, FS_Subset
<1>7. /\ Cardinality(Range(Tail(todo))) \in Nat /\ Cardinality(Range(todo)) \in Nat
      /\ Cardinality(Servers) \in Nat
  BY <1>5, <1>6, ClientAssumption, FS_CardinalityType
<1> HIDE DEF Range
<1> QED BY <1>1, <1>2, <1>3, <1>6, <1>7

\* What the next value of srv is made of
LEMMA BecomesFine ==
  ASSUME NEW v, Becomes(v), Good(v, loop', api'), loop'.todo \in Seq(Conns),
         loop'.at \in Serving => loop'.todo # << >>,
         Cardinality(Range(loop'.todo)) <= Cardinality(Servers) + 1,
         loop'.at = "dialing" => loop'.conn # NoConn,
         api'.at = "dialing" => api'.conn # NoConn
  PROVE  Fine(srv', loop', api')
<1>1. srv' = Kept(v, Held(loop', api'))
  BY DEF Becomes, Held
<1>2. /\ Good(srv', loop', api')
      /\ DOMAIN srv'.conn \subseteq Active(srv') \cup {srv'.identity} \cup Held(loop', api')
  BY <1>1, KeptGood
<1> QED BY <1>2 DEF Fine, Bounded

\* Nothing of it changes.
LEMMA Unmoved ==
  ASSUME Fine(srv, loop, api), srv' = srv, loop'.todo = loop.todo, loop'.conn = loop.conn,
         api'.conn = api.conn,
         \/ loop'.at = loop.at
         \/ loop.at \notin Serving /\ loop'.at \notin Serving \cup {"dialing"},
         api'.at = "dialing" => api.at = "dialing"
  PROVE  Fine(srv', loop', api')
<1>1. Held(loop', api') = Held(loop, api)
  BY DEF Held
<1>2. Served(srv', loop') = Served(srv, loop) /\ Shaking(loop') = Shaking(loop)
  BY DEF Served, Shaking, Serving
<1>3. Good(srv', loop', api')
  BY <1>1, <1>2 DEF Fine, Good, ConnsPlaced
<1>4. Bounded(srv', loop', api')
  BY <1>1 DEF Fine, Bounded
<1> QED BY <1>3, <1>4 DEF Fine

\* Connections close, and the loop's list gets shorter.
LEMMA PlacedStill ==
  ASSUME NEW v, NEW q, NEW l, NEW m, NEW a, NEW b, ConnsPlaced(v, l, a),
         DOMAIN v.conn \subseteq DOMAIN q.conn, Range(m.todo) \subseteq Range(l.todo),
         m.conn \in {l.conn, NoConn}, b.conn \in {a.conn, NoConn},
         \A c \in {m.conn, b.conn} \ {NoConn} :
            c \in DOMAIN v.conn /\ v.conn[c].socket # "open" => q.conn[c].socket # "open",
         m.at \in Serving => q.conn[Head(m.todo)].socket # "dialing"
  PROVE  ConnsPlaced(q, m, b)
<1>1. Held(m, b) \subseteq DOMAIN q.conn \cup {NoConn}
  BY DEF ConnsPlaced, Held
<1>2. \A c \in {m.conn, b.conn} \ {NoConn} : q.conn[c].socket # "open"
  BY DEF ConnsPlaced, Held
<1> QED BY <1>1, <1>2 DEF ConnsPlaced

\* What the loop does to the server connections
LEMMA LoopFine ==
  ASSUME Placed, ServersPlaced, LoopWork, UNCHANGED api
  PROVE  Fine(srv', loop', api')
<1> USE DEF Serving
<1>1. Fine(srv, loop, api)
  BY AllFine
<1>2. /\ ServersSound(srv) /\ srv \in ServerRecord /\ IdentitySound(srv, Served(srv, loop), Shaking(loop))
      /\ ConnsPlaced(srv, loop, api) /\ Bounded(srv, loop, api) /\ loop.todo \in Seq(Conns)
      /\ Cardinality(Range(loop.todo)) <= Cardinality(Servers) + 1
  BY <1>1 DEF Fine, Good, ServersSound, Bounded
<1>3. api'.at = "dialing" => api'.conn # NoConn
  BY <1>1 DEF Fine
<1>4. \A c \in Range(loop.todo) : c \in DOMAIN srv.conn
  <2>1. Range(loop.todo) \subseteq Conns
    BY <1>2 DEF Range
  <2> QED BY <1>2, <2>1, ServersAssumption DEF ConnsPlaced, Held
<1>5. loop.at \notin {"shaken", "served"} =>
        IdentitySound(srv, NoConn, NoConn) /\ \A served : IdentitySound(srv, served, NoConn)
  BY <1>2, IdentityAnyhow DEF Served, Shaking
<1>6. loop.at # "dialing" => loop.conn = NoConn
  BY DEF Placed, LoopPlaced
<1>7. CASE LoopEnds \/ EndPump \/ GetConnectCandidate \/ EndTick \/ \E s \in Servers : LookUp(s)
  <2>1. /\ srv' = srv /\ loop'.todo = loop.todo /\ loop'.conn = loop.conn
        /\ loop.at \notin Serving /\ loop'.at \notin Serving \cup {"dialing"}
    <3> USE DEF Placed, LoopPlaced, LoopRecord
    <3>1. CASE LoopEnds
      BY <3>1 DEF LoopEnds
    <3>2. CASE EndPump
      BY <3>2 DEF EndPump
    <3>3. CASE GetConnectCandidate
      BY <3>3 DEF GetConnectCandidate
    <3>4. CASE EndTick
      BY <3>4 DEF EndTick
    <3>5. ASSUME NEW s \in Servers, LookUp(s)
          PROVE  /\ srv' = srv /\ loop'.todo = loop.todo /\ loop'.conn = loop.conn
                 /\ loop.at \notin Serving /\ loop'.at \notin Serving \cup {"dialing"}
      BY <3>5 DEF LookUp
    <3> QED BY <1>7, <3>1, <3>2, <3>3, <3>4, <3>5
  <2> QED BY <1>1, <2>1, Unmoved
<1>8. CASE Tick
  <2>1. PICK order \in SetToSeqs(Active(srv)) : loop' = [loop EXCEPT !.at = "pump", !.todo = order]
    <3> DEFINE r(order) == [loop EXCEPT !.at = "pump", !.todo = order]
    <3>1. \E order \in SetToSeqs(Active(srv)) : loop' = r(order)
      BY <1>8, Zenon DEF Tick
    <3> QED BY <3>1
  <2>2. /\ srv' = srv /\ loop.at = "idle" /\ loop.todo = << >> /\ loop.conn = NoConn
    BY <1>8 DEF Tick, Placed, LoopPlaced
  <2>3. loop'.at = "pump" /\ loop'.todo = order /\ loop'.conn = NoConn
    BY <2>1, <2>2 DEF Placed, LoopPlaced, LoopRecord
  <2>4. /\ Active(srv) \subseteq DOMAIN srv.conn /\ DOMAIN srv.conn \subseteq Conns
        /\ IsFiniteSet(Active(srv)) /\ Cardinality(Active(srv)) <= Cardinality(Servers) + 1
        /\ Cardinality(Active(srv)) \in Nat
    BY <1>2, ConnsAre, FewActive, FS_CardinalityType DEF ServersSound, Active
  <2>5. order \in [1..Cardinality(Active(srv)) -> Active(srv)]
    BY <2>1 DEF SetToSeqs
  <2>6. order \in Seq(Conns) /\ Range(order) \subseteq Active(srv)
    BY <2>4, <2>5 DEF Range
  <2>7. Cardinality(Range(order)) <= Cardinality(Servers) + 1
    <3>1. /\ IsFiniteSet(Range(order)) /\ Cardinality(Range(order)) <= Cardinality(Active(srv))
      BY <2>4, <2>6, FS_Subset
    <3>2. Cardinality(Range(order)) \in Nat /\ Cardinality(Servers) \in Nat
      BY <3>1, ClientAssumption, FS_CardinalityType
    <3> QED BY <2>4, <3>1, <3>2
  <2>8. ConnsPlaced(srv', loop', api')
    <3>1. api.conn \in DOMAIN srv.conn \cup {NoConn}
      BY <1>2 DEF ConnsPlaced, Held
    <3>2. Held(loop', api') = Range(order) \cup {NoConn, api.conn}
      BY <2>3 DEF Held
    <3>3. \A c \in {loop'.conn, api'.conn} \ {NoConn} : srv.conn[c].socket # "open"
      BY <1>2, <2>3 DEF ConnsPlaced
    <3> QED BY <2>2, <2>3, <2>4, <2>6, <3>1, <3>2, <3>3 DEF ConnsPlaced
  <2>9. Served(srv', loop') = NoConn /\ Shaking(loop') = NoConn
    BY <2>3 DEF Served, Shaking
  <2>10. DOMAIN srv'.conn \subseteq Active(srv') \cup {srv'.identity} \cup Held(loop', api')
    <3>1. Held(loop, api) = {NoConn, api.conn}
      BY <2>2 DEF Held, Range
    <3>2. api.conn \in Held(loop', api') /\ NoConn \in Held(loop', api')
      BY <2>3 DEF Held
    <3> QED BY <1>2, <2>2, <3>1, <3>2 DEF Bounded
  <2> QED BY <1>2, <1>3, <1>5, <2>2, <2>3, <2>6, <2>7, <2>8, <2>9, <2>10 DEF Fine, Good, Bounded
<1>9. ASSUME loop.todo # << >>
      PROVE  /\ Tail(loop.todo) \in Seq(Conns) /\ Range(Tail(loop.todo)) \subseteq Range(loop.todo)
             /\ Head(loop.todo) \in DOMAIN srv.conn /\ Head(loop.todo) \in Conns
             /\ Head(loop.todo) # NoConn
             /\ Cardinality(Range(Tail(loop.todo))) <= Cardinality(Servers) + 1
  BY <1>2, <1>4, <1>9, TailIs, ServersAssumption
\* The loop goes on to the next connection.
<1>10. ASSUME NEW v, Becomes(v), ServersSound(v), IdentitySound(v, NoConn, NoConn), loop.todo # << >>,
              loop.at # "dialing", loop'.todo = Tail(loop.todo), loop'.at = "pump",
              loop'.conn = loop.conn, DOMAIN v.conn = DOMAIN srv.conn,
              \A d \in DOMAIN srv.conn : v.conn[d].socket = srv.conn[d].socket
       PROVE  Fine(srv', loop', api')
  <2>1. ConnsPlaced(v, loop', api')
    BY <1>2, <1>9, <1>10, PlacedStill
  <2>2. Served(v, loop') = NoConn /\ Shaking(loop') = NoConn
    BY <1>10 DEF Served, Shaking
  <2>3. Good(v, loop', api')
    BY <1>10, <2>1, <2>2 DEF Good
  <2> QED BY <1>3, <1>9, <1>10, <2>3, BecomesFine
<1>11. CASE PumpClosed
  <2>1. PICK v \in OnServerConnectionClosed(srv, Head(loop.todo)) : Becomes(v)
    BY <1>11 DEF PumpClosed
  <2>2. /\ loop.at = "pump" /\ loop.todo # << >> /\ loop'.todo = Tail(loop.todo)
        /\ loop'.at = "pump" /\ loop'.conn = loop.conn
    BY <1>11 DEF PumpClosed, Placed, LoopPlaced, LoopRecord
  <2>3. IdentitySound(srv, Head(loop.todo), NoConn) /\ Head(loop.todo) \in DOMAIN srv.conn
    BY <1>5, <1>9, <2>2
  <2>4. /\ ServersSound(v) /\ IdentitySound(v, NoConn, NoConn) /\ DOMAIN v.conn = DOMAIN srv.conn
        /\ \A d \in DOMAIN srv.conn : v.conn[d].socket = srv.conn[d].socket
    BY <1>2, <2>1, <2>3, EndedIs
  <2> QED BY <1>10, <2>1, <2>2, <2>4
<1>12. CASE EndServe
  <2>1. PICK v \in IF Disconnecting(srv, Head(loop.todo))
                   THEN OnServerConnectionClosed(srv, Head(loop.todo)) ELSE {srv} : Becomes(v)
    BY <1>12 DEF EndServe
  <2>2. /\ loop.at = "served" /\ loop.todo # << >> /\ loop'.todo = Tail(loop.todo)
        /\ loop'.at = "pump" /\ loop'.conn = loop.conn
    BY <1>12 DEF EndServe, Placed, LoopPlaced, LoopRecord
  <2>3. /\ ServersSound(v) /\ IdentitySound(v, NoConn, NoConn) /\ DOMAIN v.conn = DOMAIN srv.conn
        /\ \A d \in DOMAIN srv.conn : v.conn[d].socket = srv.conn[d].socket
    <3>1. CASE Disconnecting(srv, Head(loop.todo))
      <4>1. /\ Served(srv, loop) = Head(loop.todo) /\ Shaking(loop) = NoConn
            /\ Head(loop.todo) \in DOMAIN srv.conn
        BY <1>9, <2>2, <3>1 DEF Served, Shaking
      <4> QED BY <1>2, <2>1, <3>1, <4>1, EndedIs
    <3>2. CASE ~Disconnecting(srv, Head(loop.todo))
      BY <1>2, <2>1, <2>2, <3>2 DEF Served, Shaking
    <3> QED BY <3>1, <3>2
  <2> QED BY <1>10, <2>1, <2>2, <2>3
\* The loop is at the head of the list.
<1>13. ASSUME NEW v, Becomes(v), ServersSound(v), IdentitySound(v, Served(v, loop'), Shaking(loop')),
              loop.todo # << >>, loop.at # "dialing", loop'.todo = loop.todo,
              loop'.at \in Serving, loop'.conn = loop.conn, DOMAIN v.conn = DOMAIN srv.conn,
              \A d \in DOMAIN srv.conn : v.conn[d].socket \in {srv.conn[d].socket, "closed"},
              srv.conn[Head(loop.todo)].socket # "dialing"
       PROVE  Fine(srv', loop', api')
  <2>1. ConnsPlaced(v, loop', api')
    <3>1. v.conn[Head(loop'.todo)].socket # "dialing"
      BY <1>9, <1>13
    <3> QED BY <1>2, <1>13, <3>1, PlacedStill
  <2>2. Good(v, loop', api')
    BY <1>13, <2>1 DEF Good
  <2> QED BY <1>2, <1>3, <1>13, <2>2, BecomesFine
<1>14. ASSUME NEW packet \in Packets, Serve(packet)
       PROVE  Fine(srv', loop', api')
  <2> DEFINE c == Head(loop.todo)
  <2>1. /\ loop.at = "pump" /\ loop.todo # << >> /\ ~Disconnecting(srv, c)
        /\ packet # "nothing" => srv.conn[c].socket = "open"
        /\ Becomes(IF packet = "closed" THEN Close(srv, c, TRUE) ELSE srv)
    BY <1>14 DEF Serve
  <2>2. CASE packet = "nothing"
    <3>1. /\ loop'.todo = Tail(loop.todo) /\ loop'.at = "pump" /\ loop'.conn = loop.conn
      BY <1>14, <2>1, <2>2 DEF Serve, Placed, LoopPlaced, LoopRecord
    <3>2. Becomes(srv)
      BY <2>1, <2>2
    <3> QED BY <1>2, <1>5, <1>10, <2>1, <3>1, <3>2
  <2>3. CASE packet = "closed"
    <3>1. /\ loop'.todo = loop.todo /\ loop'.at = "served" /\ loop'.conn = loop.conn
      BY <1>14, <2>1, <2>3 DEF Serve, Placed, LoopPlaced, LoopRecord
    <3> DEFINE r(lost) == Close(srv, c, lost)
    <3>2. Becomes(r(TRUE))
      BY <2>1, <2>3
    <3>3. c \in DOMAIN srv.conn /\ c # NoConn
      BY <1>9, <2>1
    <3>4. \A lost \in BOOLEAN :
            /\ ServersSound(r(lost)) /\ SameFields(srv, r(lost))
            /\ DOMAIN r(lost).conn = DOMAIN srv.conn /\ Active(r(lost)) = Active(srv)
            /\ r(lost).conn[c].socket = "closed"
            /\ \A d \in DOMAIN srv.conn : d # c => r(lost).conn[d] = srv.conn[d]
      <4> HIDE DEF c
      <4> QED BY <1>2, <3>3, ClosedSound
    <3> HIDE DEF r
    <3> DEFINE v == r(TRUE)
    <3>5. /\ ServersSound(v) /\ SameFields(srv, v)
          /\ DOMAIN v.conn = DOMAIN srv.conn /\ Active(v) = Active(srv)
          /\ v.conn[c].socket = "closed"
          /\ \A d \in DOMAIN srv.conn : d # c => v.conn[d] = srv.conn[d]
      BY <3>4
    <3> HIDE DEF v
    <3>6. \A d \in Active(srv) : d \in DOMAIN srv.conn
      BY <1>2 DEF ServersSound, Active
    <3>7. \A d \in Active(srv) : Disconnecting(srv, d) => ~Shaken(srv, d)
      BY <1>5, <2>1 DEF IdentitySound, Active
    <3>8. IdentitySound(v, c, NoConn)
      BY <3>3, <3>5, <3>6, <3>7 DEF IdentitySound, Disconnecting, Shaken
    <3>9. Served(v, loop') = c /\ Shaking(loop') = NoConn
      BY <3>1, <3>5 DEF Served, Shaking, Disconnecting
    <3>10. Becomes(v)
      BY <3>2 DEF v
    <3>11. \A d \in DOMAIN srv.conn : v.conn[d].socket \in {srv.conn[d].socket, "closed"}
      BY <3>5
    <3> QED BY <1>13, <2>1, <2>3, <3>1, <3>5, <3>8, <3>9, <3>10, <3>11
  <2>4. CASE packet \notin {"nothing", "closed"}
    <3>1. /\ loop'.todo = loop.todo /\ loop'.at = "serving" /\ loop'.conn = loop.conn
      BY <1>14, <2>1, <2>4 DEF Serve, Placed, LoopPlaced, LoopRecord
    <3>2. Becomes(srv)
      BY <2>1, <2>4
    <3>3. IdentitySound(srv, Served(srv, loop'), Shaking(loop'))
      BY <1>5, <2>1, <3>1 DEF Shaking
    <3> QED BY <1>2, <1>13, <2>1, <2>4, <3>1, <3>2, <3>3
  <2> QED BY <2>2, <2>3, <2>4
<1>15. CASE ProcessIncoming
  <2> DEFINE c == Head(loop.todo)
  <2>1. /\ loop.at = "serving" /\ loop.todo # << >> /\ loop'.todo = loop.todo
        /\ loop'.at = (IF loop.packet = "id" THEN "shaken" ELSE "served")
        /\ loop'.conn = loop.conn
    BY <1>15 DEF ProcessIncoming, Placed, LoopPlaced, LoopRecord
  <2>2. Becomes(IF loop.packet = "id" THEN HandshakeCompleted(srv, c) ELSE srv)
    BY <1>15 DEF ProcessIncoming
  <2>3. srv.conn[c].socket # "dialing" /\ c \in DOMAIN srv.conn
    BY <1>2, <1>9, <2>1 DEF ConnsPlaced
  <2>4. CASE loop.packet = "id"
    <3> DEFINE v == HandshakeCompleted(srv, c)
    <3>1. /\ ServersSound(v) /\ DOMAIN v.conn = DOMAIN srv.conn
          /\ IdentitySound(v, IF Disconnecting(v, c) THEN c ELSE NoConn, c)
          /\ \A d \in DOMAIN srv.conn : v.conn[d].socket = srv.conn[d].socket
      BY <1>2, <1>5, <2>1, <2>3, HandshakeIs
    <3>2. Becomes(v)
      BY <2>2, <2>4
    <3> HIDE DEF v
    <3>3. /\ Served(v, loop') = IF Disconnecting(v, c) THEN c ELSE NoConn
          /\ Shaking(loop') = c
      BY <2>1, <2>4 DEF Served, Shaking
    <3> QED BY <1>13, <2>1, <2>3, <2>4, <3>1, <3>2, <3>3
  <2>5. CASE loop.packet # "id"
    <3>1. Becomes(srv)
      BY <2>2, <2>5
    <3>2. IdentitySound(srv, Served(srv, loop'), Shaking(loop'))
      BY <1>5, <2>1, <2>5 DEF Shaking
    <3> QED BY <1>2, <1>13, <2>1, <2>3, <2>5, <3>1, <3>2
  <2> QED BY <2>4, <2>5
<1>18. CASE TakeIdentity
  <2> DEFINE c == Head(loop.todo)
             v == OnServerIDChange(srv, c)
  <2>1. /\ loop.at = "shaken" /\ loop.todo # << >> /\ loop'.todo = loop.todo
        /\ loop'.at = "served" /\ loop'.conn = loop.conn /\ Becomes(v)
    BY <1>18 DEF TakeIdentity, Placed, LoopPlaced, LoopRecord
  <2>2. srv.conn[c].socket # "dialing" /\ c \in DOMAIN srv.conn
    BY <1>2, <1>9, <2>1 DEF ConnsPlaced
  <2>3. IdentitySound(srv, IF Disconnecting(srv, c) THEN c ELSE NoConn, c)
    BY <1>2, <2>1 DEF Served, Shaking
  <2> HIDE DEF c
  <2>4. /\ ServersSound(v) /\ v.conn = srv.conn
        /\ IdentitySound(v, IF Disconnecting(v, c) THEN c ELSE NoConn, NoConn)
    BY <1>2, <2>2, <2>3, IDChanged
  <2> HIDE DEF v
  <2>5. /\ Served(v, loop') = IF Disconnecting(v, c) THEN c ELSE NoConn
        /\ Shaking(loop') = NoConn
    BY <2>1 DEF Served, Shaking, c
  <2> QED BY <1>13, <2>1, <2>2, <2>4, <2>5 DEF c
<1>16. CASE CreateConnection
  <2> DEFINE c == Fresh(srv)
             v == Create(srv, loop.server)
  <2>1. /\ loop.at = "create" /\ loop.server \in Servers /\ loop.todo = << >> /\ loop.conn = NoConn
        /\ loop'.todo = loop.todo /\ loop'.at = "dialing" /\ loop'.conn = c /\ Becomes(v)
    BY <1>16 DEF CreateConnection, Placed, LoopPlaced, LoopRecord
  <2>2. c \in Conns /\ c \notin DOMAIN srv.conn /\ c # NoConn
    BY <1>2, <2>1, RoomForOne, ServersAssumption
  <2>3. Replaceable(srv, loop.server, NoConn, NoConn)
    BY <1>2, <1>5, <2>1, ReplaceableAnyhow
  <2>4. /\ ServersSound(v) /\ IdentitySound(v, NoConn, NoConn) /\ DOMAIN v.conn = DOMAIN srv.conn \cup {c}
        /\ v.conn[c].socket = "dialing" /\ \A d \in DOMAIN srv.conn : v.conn[d] = srv.conn[d]
    BY <1>2, <2>1, <2>2, <2>3, CreatedIs
  <2> HIDE DEF c, v
  <2>5. api.conn \in DOMAIN srv.conn \cup {NoConn} /\ api.conn # c
    BY <1>2, <2>2 DEF ConnsPlaced, Held
  <2>6. ConnsPlaced(v, loop', api')
    <3>1. Held(loop', api') \subseteq DOMAIN v.conn \cup {NoConn}
      BY <1>2, <2>1, <2>4 DEF ConnsPlaced, Held
    <3>2. \A d \in {loop'.conn, api'.conn} \ {NoConn} : v.conn[d].socket # "open"
      BY <1>2, <2>1, <2>4, <2>5 DEF ConnsPlaced
    <3> QED BY <2>1, <2>5, <3>1, <3>2 DEF ConnsPlaced
  <2>7. Good(v, loop', api')
    BY <2>1, <2>4, <2>6 DEF Good, Served, Shaking
  <2> QED BY <1>2, <1>3, <2>1, <2>2, <2>7, BecomesFine
<1>17. ASSUME NEW ok \in BOOLEAN, LoopDialEnds(ok)
       PROVE  Fine(srv', loop', api')
  <2> DEFINE c == loop.conn
             v == Dialed(srv, c, ok)
  <2>1. /\ loop.at = "dialing" /\ loop'.todo = loop.todo /\ loop'.at = "servers"
        /\ loop'.conn = NoConn /\ Becomes(v)
    BY <1>17 DEF LoopDialEnds, Placed, LoopPlaced, LoopRecord
  <2>2. c # NoConn /\ c \in DOMAIN srv.conn /\ srv.conn[c].socket # "open"
    BY <1>1, <1>2, <2>1 DEF Fine, ConnsPlaced, Held
  <2>3. /\ ServersSound(v) /\ IdentitySound(v, NoConn, NoConn) /\ DOMAIN v.conn = DOMAIN srv.conn
        /\ \A d \in DOMAIN srv.conn : d # c => v.conn[d] = srv.conn[d]
    BY <1>2, <1>5, <2>1, <2>2, DialedIs
  <2> HIDE DEF v
  <2>4. ConnsPlaced(v, loop', api')
    <3>1. api.conn # c \/ api.conn = NoConn
      BY <1>2 DEF ConnsPlaced
    <3> QED BY <1>2, <2>1, <2>2, <2>3, <3>1, PlacedStill
  <2>5. Good(v, loop', api')
    BY <2>1, <2>3, <2>4 DEF Good, Served, Shaking
  <2> QED BY <1>2, <1>3, <2>1, <2>5, BecomesFine
<1> QED BY <1>7, <1>8, <1>11, <1>12, <1>14, <1>15, <1>16, <1>17, <1>18 DEF LoopWork

\* What the calling thread and the time do to the server connections
LEMMA CallFine ==
  ASSUME Placed, ServersPlaced, UNCHANGED loop,
         \/ \E s \in Servers, moved \in BOOLEAN : ConnectTo(s, moved)
         \/ \E ok \in BOOLEAN : ApiDialEnds(ok)
         \/ DisconnectFrom
  PROVE  Fine(srv', loop', api')
<1>1. Fine(srv, loop, api)
  BY AllFine
<1>2. /\ ServersSound(srv) /\ srv \in ServerRecord /\ IdentitySound(srv, Served(srv, loop), Shaking(loop))
      /\ ConnsPlaced(srv, loop, api) /\ Bounded(srv, loop, api) /\ loop.todo \in Seq(Conns)
      /\ Cardinality(Range(loop.todo)) <= Cardinality(Servers) + 1
      /\ loop.at \in Serving => loop.todo # << >>
      /\ loop.at = "dialing" => loop.conn # NoConn
  BY <1>1 DEF Fine, Good, ServersSound, Bounded
<1>3. loop.at \in Serving => Head(loop.todo) \in DOMAIN srv.conn
  <2>1. ASSUME loop.at \in Serving PROVE Head(loop.todo) \in Range(loop.todo) /\ Head(loop.todo) \in Conns
    BY <1>2, <2>1, TailIs
  <2> QED BY <1>2, <2>1, ServersAssumption DEF ConnsPlaced, Held
<1>4. loop.conn \in DOMAIN srv.conn \cup {NoConn} /\ api.conn \in DOMAIN srv.conn \cup {NoConn}
  BY <1>2 DEF ConnsPlaced, Held
<1>5. api.at # "dialing" => api.conn = NoConn
  BY DEF Placed, ApiPlaced
\* Connections may be closed by the call.
<1>6. ASSUME NEW v, Becomes(v), ServersSound(v), IdentitySound(v, Served(srv, loop), Shaking(loop)),
             DOMAIN srv.conn \subseteq DOMAIN v.conn,
             api'.conn \in DOMAIN v.conn \cup {NoConn},
             api'.at = "dialing" => api'.conn # NoConn,
             api'.conn # NoConn => v.conn[api'.conn].socket # "open" /\ api'.conn # loop.conn,
             \A d \in DOMAIN srv.conn :
                /\ srv.conn[d].socket = "closed" => v.conn[d].socket = "closed"
                /\ srv.conn[d].socket # "dialing" => v.conn[d].socket # "dialing",
             loop.conn # NoConn => v.conn[loop.conn].socket # "open"
      PROVE  Fine(srv', loop', api')
  <2>1. ConnsPlaced(v, loop, api')
    <3>1. Held(loop, api') \subseteq DOMAIN v.conn \cup {NoConn}
      BY <1>2, <1>6 DEF ConnsPlaced, Held
    <3>2. loop.at \in Serving => v.conn[Head(loop.todo)].socket # "dialing"
      BY <1>2, <1>3, <1>6 DEF ConnsPlaced
    <3> QED BY <1>6, <3>1, <3>2 DEF ConnsPlaced
  <2>2. IdentitySound(v, Served(v, loop), Shaking(loop))
    <3>1. loop.at \in {"shaken", "served"} =>
            (Disconnecting(srv, Head(loop.todo)) => Disconnecting(v, Head(loop.todo)))
      BY <1>3, <1>6 DEF Disconnecting, Serving
    <3> QED BY <1>6, <3>1, ServedStays
  <2>3. Good(v, loop', api')
    BY <1>6, <2>1, <2>2 DEF Good
  <2> QED BY <1>2, <1>6, <2>3, BecomesFine
<1>7. ASSUME NEW ok \in BOOLEAN, ApiDialEnds(ok)
      PROVE  Fine(srv', loop', api')
  <2> DEFINE c == api.conn
             v == Dialed(srv, c, ok)
  <2>1. /\ api.at = "dialing" /\ Becomes(v) /\ api'.conn = NoConn /\ api'.at = "idle"
    BY <1>7 DEF ApiDialEnds, IdleApi
  <2>2. c # NoConn /\ c \in DOMAIN srv.conn /\ srv.conn[c].socket # "open" /\ loop.conn # c
    BY <1>1, <1>2, <1>4, <2>1 DEF Fine, ConnsPlaced
  <2>3. /\ ServersSound(v) /\ IdentitySound(v, Served(srv, loop), Shaking(loop)) /\ DOMAIN v.conn = DOMAIN srv.conn
        /\ \A d \in DOMAIN srv.conn : d # c => v.conn[d] = srv.conn[d]
        /\ Disconnecting(srv, c) => v = srv
        /\ v.conn[c].socket # "dialing"
    <3> HIDE DEF c
    <3> QED BY <1>2, <2>2, DialedIs
  <2> HIDE DEF v
  <2>4. \A d \in DOMAIN srv.conn :
          /\ srv.conn[d].socket = "closed" => v.conn[d].socket = "closed"
          /\ srv.conn[d].socket # "dialing" => v.conn[d].socket # "dialing"
    BY <2>3 DEF Disconnecting
  <2>5. loop.conn # NoConn => v.conn[loop.conn].socket # "open"
    BY <1>2, <1>4, <2>2, <2>3 DEF ConnsPlaced
  <2> QED BY <1>6, <2>1, <2>3, <2>4, <2>5
<1>8. CASE DisconnectFrom
  <2> DEFINE v == DisconnectAll(srv)
  <2>1. /\ Becomes(v) /\ api'.conn = NoConn /\ api'.at # "dialing"
    BY <1>5, <1>8 DEF DisconnectFrom, AfterStop, Placed, ApiPlaced, ApiRecord
  <2>2. /\ ServersSound(v) /\ IdentitySound(v, Served(srv, loop), Shaking(loop)) /\ DOMAIN v.conn = DOMAIN srv.conn
        /\ \A d \in DOMAIN srv.conn : v.conn[d] = srv.conn[d] \/ v.conn[d].socket = "closed"
    BY <1>2, AllDisconnected
  <2> HIDE DEF v
  <2>3. loop.conn # NoConn => v.conn[loop.conn].socket # "open"
    BY <1>2, <1>4, <2>2 DEF ConnsPlaced
  <2>4. \A d \in DOMAIN srv.conn :
          /\ srv.conn[d].socket = "closed" => v.conn[d].socket = "closed"
          /\ srv.conn[d].socket # "dialing" => v.conn[d].socket # "dialing"
    BY <2>2
  <2> QED BY <1>6, <2>1, <2>2, <2>3, <2>4
<1>9. ASSUME NEW s \in Servers, NEW moved \in BOOLEAN, ConnectTo(s, moved)
      PROVE  Fine(srv', loop', api')
  <2> DEFINE w == Wanted(srv, s)
  <2>1. /\ api.at = "idle" /\ api.conn = NoConn
        /\ Becomes(IF Reused(w, s, moved) THEN Promote(w, w.entry[s]) ELSE Create(Replaced(w, s), s))
        /\ api' = IF Reused(w, s, moved) THEN api
                  ELSE [api EXCEPT !.at = "dialing", !.conn = Fresh(w)]
    <3>1. api.at = "idle"
      BY <1>9, Zenon DEF ConnectTo, Calls
    <3>2. /\ Becomes(IF Reused(w, s, moved) THEN Promote(w, w.entry[s]) ELSE Create(Replaced(w, s), s))
          /\ api' = IF Reused(w, s, moved) THEN api
                    ELSE [api EXCEPT !.at = "dialing", !.conn = Fresh(w)]
      BY <1>9, Zenon DEF ConnectTo
    <3> QED BY <1>5, <3>1, <3>2
  <2>2. /\ ServersSound(w) /\ w.conn = srv.conn /\ w.entry = srv.entry /\ w.primary = srv.primary
        /\ w.identity = srv.identity
    BY <1>2, WantedIs
  <2> HIDE DEF w
  <2>3. Active(w) = Active(srv) /\ Entries(w) = Entries(srv)
    BY <2>2, SameActive
  <2>4. IdentitySound(w, Served(srv, loop), Shaking(loop))
    BY <1>2, <2>2, <2>3 DEF IdentitySound, Disconnecting, Shaken
  <2>5. CASE Reused(w, s, moved)
    <3> DEFINE c == w.entry[s]
               v == Promote(w, c)
    <3>1. Becomes(v) /\ api' = api
      BY <2>1, <2>5
    <3>2. c \in Entries(w)
      BY <2>2, <2>5, ActiveIs DEF Reused, ServersSound
    <3> HIDE DEF c
    <3>3. ServersSound(v) /\ IdentitySound(v, Served(srv, loop), Shaking(loop)) /\ v.conn = srv.conn
      BY <2>2, <2>4, <3>2, PromotedIs
    <3> HIDE DEF v
    <3>4. loop.conn # NoConn => v.conn[loop.conn].socket # "open"
      BY <1>2, <3>3 DEF ConnsPlaced
    <3> QED BY <1>6, <2>1, <3>1, <3>3, <3>4
  <2>6. CASE ~Reused(w, s, moved)
    <3> DEFINE r == Replaced(w, s)
               c == Fresh(w)
               v == Create(r, s)
    <3>1. Becomes(v)
      BY <2>1, <2>6
    <3>2. api'.at = "dialing" /\ api'.conn = c
      BY <2>1, <2>6 DEF Placed, ApiPlaced, ApiRecord
    <3>3. /\ ServersSound(r) /\ Replaceable(r, s, Served(srv, loop), Shaking(loop)) /\ DOMAIN r.conn = DOMAIN srv.conn
          /\ \A d \in DOMAIN srv.conn : r.conn[d] = srv.conn[d] \/ r.conn[d].socket = "closed"
      BY <2>2, <2>4, ReplacedIs
    <3> HIDE DEF r
    <3>4. Fresh(srv) = c /\ Fresh(r) = c
      BY <2>2, <3>3 DEF Fresh, Free
    <3>5. c \in Conns /\ c \notin DOMAIN srv.conn /\ c # NoConn
      BY <1>2, <2>1, <3>4, RoomForOne, ServersAssumption
    <3> HIDE DEF c
    <3>6. /\ ServersSound(v) /\ IdentitySound(v, Served(srv, loop), Shaking(loop))
          /\ DOMAIN v.conn = DOMAIN srv.conn \cup {c} /\ v.conn[c].socket = "dialing"
          /\ \A d \in DOMAIN srv.conn : v.conn[d] = r.conn[d]
      BY <3>3, <3>4, <3>5, CreatedIs
    <3> HIDE DEF v
    <3>7. loop.conn # NoConn => v.conn[loop.conn].socket # "open"
      BY <1>2, <1>4, <3>3, <3>6 DEF ConnsPlaced
    <3>8. \A d \in DOMAIN srv.conn :
            /\ srv.conn[d].socket = "closed" => v.conn[d].socket = "closed"
            /\ srv.conn[d].socket # "dialing" => v.conn[d].socket # "dialing"
      BY <3>3, <3>6
    <3>9. c # loop.conn
      BY <1>4, <3>5
    <3> QED BY <1>6, <3>1, <3>2, <3>5, <3>6, <3>7, <3>8, <3>9
  <2> QED BY <2>5, <2>6
<1> QED BY <1>7, <1>8, <1>9

\* The server connections stay sound in every step of either thread.
LEMMA ServersNext ==
  ASSUME Placed, ServersPlaced, [Next]_vars
  PROVE  Fine(srv', loop', api')
<1>1. Fine(srv, loop, api)
  BY AllFine
<1>2. ASSUME UNCHANGED <<srv, loop, api>> PROVE Fine(srv', loop', api')
  BY <1>1, <1>2, Unmoved
<1>3. ASSUME UNCHANGED <<srv, loop>>, api.at # "dialing", api'.at # "dialing", ApiPlaced'
      PROVE  Fine(srv', loop', api')
  BY <1>1, <1>3, Unmoved DEF Placed, ApiPlaced
<1>4. CASE LoopWork
  BY <1>4, LoopWorkLeaves, LoopFine
<1>5. ASSUME NEW w \in Savers, SaveStep(w) PROVE Fine(srv', loop', api')
  <2>1. srv' = srv /\ At(w) \in Saving
    BY <1>5, SaveWorkLeaves DEF SaveWork, SaveStep, snapshotState, OpenTemporary, WriteTemporary,
       WriteFails, RenameTemporary, RenameFails, RemoveTemporary, Saving
  <2>2. \/ \E at \in Saving : Goes(w, at)
        \/ \E ok \in BOOLEAN : Saved(w, ok)
    BY <1>5 DEF SaveStep, snapshotState, OpenTemporary, WriteTemporary, WriteFails,
       RenameTemporary, RenameFails, RemoveTemporary, Saving
  <2>3. CASE w = "loop"
    <3>1. loop \in LoopRecord
      BY DEF Placed, LoopPlaced
    <3>2. /\ api' = api /\ loop'.todo = loop.todo /\ loop'.conn = loop.conn
          /\ loop.at \in Saving /\ loop'.at \in Saving \cup {"idle"}
      BY <2>1, <2>2, <2>3, <3>1 DEF Goes, Saved, At, LoopRecord
    <3> QED BY <1>1, <2>1, <3>2, Unmoved DEF Saving, Serving
  <2>4. CASE w = "api"
    <3>1. api \in ApiRecord
      BY DEF Placed, ApiPlaced
    <3>2. loop' = loop /\ api.at \in Saving
      <4>1. loop' = loop
        <5>1. ASSUME NEW at, Goes("api", at) PROVE loop' = loop
          BY <5>1, Zenon DEF Goes
        <5>2. ASSUME NEW ok, Saved("api", ok) PROVE loop' = loop
          BY <5>2 DEF Saved
        <5> QED BY <2>2, <2>4, <5>1, <5>2
      <4> QED BY <2>1, <2>4, <4>1 DEF At
    <3>3. api'.at # "dialing"
      <4>1. ASSUME NEW at \in Saving, Goes("api", at) PROVE api'.at # "dialing"
        BY <3>1, <4>1 DEF Goes, ApiRecord, Saving
      <4>2. ASSUME NEW ok, Saved("api", ok) PROVE api'.at # "dialing"
        <5>1. /\ Emitting.at = "status"
              /\ \A at, stops, failed : [IdleApi EXCEPT !.at = at, !.stops = stops, !.failed = failed].at = at
          BY DEF Emitting, IdleApi
        <5>2. CASE Emits(ok)
          BY <4>2, <5>1, <5>2 DEF Saved
        <5>3. CASE ~Emits(ok)
          <6> DEFINE at == IF api.stops THEN "stopped" ELSE "idle"
          <6>1. api' = [IdleApi EXCEPT !.at = at, !.stops = api.stops, !.failed = ~ok]
            BY <4>2, <5>3 DEF Saved
          <6>2. at # "dialing"
            OBVIOUS
          <6> HIDE DEF at
          <6>3. api'.at = at
            BY <5>1, <6>1, Zenon
          <6> QED BY <6>2, <6>3
        <5> QED BY <5>2, <5>3
      <4> QED BY <2>2, <2>4, <4>1, <4>2
    <3>4. ApiPlaced'
      BY <1>5, SavesMove DEF Placed, SaveWork
    <3> QED BY <1>3, <2>1, <3>2, <3>3, <3>4 DEF Saving
  <2> QED BY <2>3, <2>4 DEF Savers
<1>6. CASE PortCalls
  <2>1. CASE DisconnectFrom
    BY <2>1, CallFine DEF DisconnectFrom
  <2>2. CASE ~DisconnectFrom
    <3>0. /\ loop \in LoopRecord /\ api \in ApiRecord
          /\ LoopPlaced' /\ ApiPlaced'
      BY <1>6, PortCallsMove DEF Placed, ApiPlaced, LoopPlaced
    <3>1. /\ srv' = srv /\ api.at # "dialing"
          /\ \/ loop' = loop /\ api'.at # "dialing"
             \/ \E ok \in BOOLEAN : Started(ok) /\ life.run = "new"
      <4> USE DEF Calls
      <4>1. ASSUME NEW ok \in BOOLEAN, Start(ok) \/ StartWithoutTracker
            PROVE  srv' = srv /\ api.at # "dialing" /\ \E yes \in BOOLEAN : Started(yes) /\ life.run = "new"
        BY <4>1 DEF Start, StartWithoutTracker, Placed, LifePlaced
      <4>2. ASSUME NEW ok \in BOOLEAN, Listen(ok) \/ StartTracker(ok) \/ Delete(ok) \/ EndUnmapWait
            PROVE  srv' = srv /\ api.at # "dialing" /\ loop' = loop /\ api'.at # "dialing"
        BY <3>0, <4>2 DEF Listen, StartTracker, Delete, EndUnmapWait, ApiRecord, aside
      <4>3. CASE EndUnmap
        <5>1. CASE api.after \in {"refresh", "fail"}
          BY <4>3, <5>1 DEF EndUnmap, Placed, LifePlaced
        <5>2. CASE api.after \notin {"refresh", "fail"}
          <6>1. api.after \in {"wait", "snapshot", "stopped", "nothing"}
            BY <3>0, <5>2 DEF ApiRecord, AfterPlaces
          <6> QED BY <3>0, <4>3, <5>2, <6>1 DEF EndUnmap, ApiRecord
        <5> QED BY <5>1, <5>2
      <4> QED BY <1>6, <2>2, <4>1, <4>2, <4>3 DEF PortCalls
    <3>2. api'.at # "dialing" /\ loop'.todo = loop.todo /\ loop'.conn = loop.conn
      <4>1. ASSUME NEW ok \in BOOLEAN, Started(ok)
            PROVE  api'.at # "dialing" /\ loop'.todo = loop.todo /\ loop'.conn = loop.conn
        <5>1. Emitting.at = "status" /\ IdleApi.at = "idle"
          BY DEF Emitting, IdleApi
        <5>2. api'.at # "dialing"
          BY <4>1, <5>1 DEF Started
        <5>3. loop' = loop \/ loop' = [loop EXCEPT !.at = "idle"]
          BY <4>1 DEF Started
        <5> QED BY <3>0, <5>2, <5>3 DEF LoopRecord
      <4> QED BY <3>1, <4>1
    <3>3. loop'.at = loop.at \/ (loop.at \notin Serving /\ loop'.at \notin Serving \cup {"dialing"})
      <4>1. ASSUME NEW ok \in BOOLEAN, Started(ok), life.run = "new"
            PROVE  loop'.at = loop.at \/ (loop.at \notin Serving /\ loop'.at \notin Serving \cup {"dialing"})
        <5>1. loop' = loop \/ loop' = [loop EXCEPT !.at = "idle"]
          BY <4>1 DEF Started
        <5>2. loop.at = "off"
          BY <4>1 DEF Placed, LoopPlaced
        <5> QED BY <3>0, <5>1, <5>2 DEF LoopRecord, Serving
      <4>2. loop' = loop => loop'.at = loop.at
        OBVIOUS
      <4> QED BY <3>1, <4>1, <4>2
    <3>4. api'.conn = api.conn
      BY <3>0, <3>1, <3>2 DEF ApiPlaced, Placed
    <3> QED BY <1>1, <3>1, <3>2, <3>3, <3>4, Unmoved
  <2> QED BY <2>1, <2>2
<1>7. CASE ServerCalls
  BY <1>7, ServerCallsLeave, CallFine DEF ServerCalls
<1>8. CASE SearchWork
  <2>1. UNCHANGED <<srv, loop>> /\ ApiPlaced' /\ api \in ApiRecord
    BY <1>8, SearchWorkLeaves, SearchWorkMoves DEF Placed, ApiPlaced
  <2>2. UNCHANGED api \/ (api.at # "dialing" /\ api'.at # "dialing")
    <3>1. CASE sendSearchRequest
      BY <2>1, <3>1 DEF sendSearchRequest, IdleApi, ApiRecord
    <3>2. CASE StopSearch \/ DHTAnswers \/ DeadlinePasses
      BY <3>2 DEF StopSearch, DHTAnswers, DeadlinePasses, Calls
    <3>3. ASSUME NEW scope \in SUBSET {"server", "dht"}, StartSearch(scope)
          PROVE  api.at # "dialing" /\ api'.at # "dialing"
      BY <2>1, <3>3 DEF StartSearch, Calls, ApiRecord
    <3>4. ASSUME NEW ok \in BOOLEAN, startDHTSearch(ok) \/ SearchKeywords(ok)
          PROVE  api.at # "dialing" /\ api'.at # "dialing"
      BY <2>1, <3>4 DEF startDHTSearch, SearchKeywords, IdleApi, ApiRecord
    <3> QED BY <1>8, <3>1, <3>2, <3>3, <3>4 DEF SearchWork
  <2> QED BY <1>2, <1>3, <2>1, <2>2
<1>9. CASE ChangeCalls
  <2>1. UNCHANGED <<srv, loop>> /\ ApiPlaced' /\ api \in ApiRecord
    BY <1>9, ChangeCallsLeave, ChangeCallsMove DEF Placed, ApiPlaced
  <2>2. api.at # "dialing" /\ api'.at # "dialing"
    <3>1. CASE Change \/ SendStatus \/ SendProgress
      <4>1. CASE Change
        BY <2>1, <4>1 DEF Change, Calls, ApiRecord
      <4>2. CASE SendStatus
        BY <2>1, <4>2 DEF SendStatus, ApiRecord
      <4>3. CASE SendProgress
        BY <4>3 DEF SendProgress, IdleApi
      <4> QED BY <3>1, <4>1, <4>2, <4>3
    <3>2. ASSUME NEW t \in Transfers, NEW state, ChangeTransfer(t, state)
          PROVE  api.at # "dialing" /\ api'.at # "dialing"
      BY <2>1, <3>2 DEF ChangeTransfer, Calls, IdleApi, ApiRecord
    <3> QED BY <1>9, <3>1, <3>2 DEF ChangeCalls
  <2> QED BY <1>3, <2>1, <2>2
<1>10. CASE StopCalls
  <2>1. UNCHANGED <<srv, loop>> /\ ApiPlaced' /\ api \in ApiRecord
    BY <1>10, StopCallsLeave, StopCallsMove DEF Placed, ApiPlaced
  <2>2. api.at # "dialing" /\ api'.at # "dialing"
    BY <1>10, <2>1 DEF StopCalls, Stop, EndWait, Calls, AfterStop, ApiRecord
  <2> QED BY <1>3, <2>1, <2>2
<1>11. CASE WatchWork \/ MapWork
  BY <1>2, <1>11, WatchWorkLeaves, MapWorkLeaves
<1>12. CASE TimePasses
  <2>1. CASE SaveFallsDue
    BY <1>2, <2>1 DEF SaveFallsDue
  <2>2. ASSUME NEW s \in Servers, ReconnectFallsDue(s) PROVE Fine(srv', loop', api')
    <3>1. /\ srv.policy[s].due = "later" /\ srv' = [srv EXCEPT !.policy[s].due = "now"]
          /\ UNCHANGED <<loop, api>>
      BY <2>2 DEF ReconnectFallsDue
    <3>2. ServersSound(srv)
      BY <1>1 DEF Fine, Good
    <3>3. /\ ServersSound(srv') /\ srv'.conn = srv.conn /\ srv'.entry = srv.entry
          /\ srv'.primary = srv.primary /\ srv'.identity = srv.identity
      BY <3>1, <3>2, NowDue
    <3>4. Active(srv') = Active(srv)
      BY <3>3, SameActive
    <3>5. Served(srv', loop) = Served(srv, loop)
      BY <3>3 DEF Served, Disconnecting
    <3>6. IdentitySound(srv', Served(srv', loop), Shaking(loop))
      BY <1>1, <3>3, <3>4, <3>5 DEF Fine, Good, IdentitySound, Disconnecting, Shaken
    <3>7. ConnsPlaced(srv', loop, api) /\ Bounded(srv', loop, api)
      BY <1>1, <3>3, <3>4 DEF Fine, Good, ConnsPlaced, Bounded
    <3>8. Fine(srv', loop, api)
      BY <1>1, <3>3, <3>6, <3>7 DEF Fine, Good
    <3> QED BY <3>1, <3>8
  <2> QED BY <1>12, <2>1, <2>2 DEF TimePasses
<1>13. CASE UNCHANGED vars
  BY <1>2, <1>13 DEF vars
<1> QED BY <1>4, <1>5, <1>6, <1>7, <1>8, <1>9, <1>10, <1>11, <1>12, <1>13, NextParts DEF SaveWork

(***************************************************************************)
(* The subscribers                                                         *)
(***************************************************************************)
SubSound(sub) == sub \in SubRecord /\ Len(sub.queue) <= Buffer
EventsSound(v) == v \in EventsRecord /\ SubSound(v.sub)
WatchFits(w) == w \in WatchRecord /\ EventsSound(w.events)
WatchSound == WatchFits(watch)

Told(v, sub) == [v EXCEPT !.sub = sub]
Emitted(v, last, sub) == [v EXCEPT !.last = last, !.sub = sub]
Watching(w, events, at, seen) == [w EXCEPT !.events = events, !.at = at, !.seen = seen]

\* A snapshot, or a part of one, is an event.
LEMMA SnapshotsAreEvents ==
  ASSUME NEW current \in Snapshots, NEW T \in SUBSET Transfers
  PROVE  current \in Events /\ Restrict(current, T) \in Events
<1>1. current \in [Transfers -> States \cup {"absent"}] /\ Transfers \in SUBSET Transfers
  BY DEF Snapshots
<1>2. Restrict(current, T) \in [T -> States \cup {"absent"}]
  BY <1>1 DEF Restrict
<1> QED BY <1>1, <1>2 DEF Events

\* Nobody subscribes at first.
LEMMA NoSubSound == SubSound(NoSub) /\ EventsSound(NewListeners)
<1>1. NoTransfers \in Snapshots
  BY DEF NoTransfers, Snapshots
<1>2. << >> \in Seq(Events) /\ Len(<< >>) <= Buffer
  BY ListenersAssumption
<1>3. SubSound(NoSub)
  BY <1>1, <1>2 DEF NoSub, SubSound, SubRecord
<1> QED BY <1>1, <1>3 DEF NewListeners, EventsSound, EventsRecord, SubSound

\* An event is put in the buffer only if there is room.
LEMMA SendSound ==
  ASSUME NEW sub, SubSound(sub), NEW event \in Events
  PROVE  SubSound(Send(sub, event))
<1>0. DOMAIN event \in SUBSET Transfers
  BY DEF Events
<1>1. CASE ~Registered(sub)
  BY <1>1 DEF Send
<1>2. CASE Registered(sub) /\ Len(sub.queue) < Buffer
  <2> DEFINE queue == Append(sub.queue, event)
             missed == sub.missed \ DOMAIN event
  <2>1. queue \in Seq(Events) /\ Len(queue) = Len(sub.queue) + 1 /\ missed \in SUBSET Transfers
    BY DEF SubSound, SubRecord
  <2>2. Send(sub, event) = [sub EXCEPT !.queue = queue, !.missed = missed]
    BY <1>2 DEF Send
  <2> HIDE DEF queue, missed
  <2>3. Len(queue) <= Buffer
    BY <1>2, <2>1, ListenersAssumption DEF SubSound, SubRecord
  <2> QED BY <2>1, <2>2, <2>3 DEF SubSound, SubRecord
<1>3. CASE Registered(sub) /\ ~(Len(sub.queue) < Buffer)
  <2> DEFINE missed == sub.missed \cup DOMAIN event
  <2>1. missed \in SUBSET Transfers
    BY <1>0 DEF SubSound, SubRecord
  <2>2. Send(sub, event) = [sub EXCEPT !.missed = missed]
    BY <1>3 DEF Send
  <2> HIDE DEF missed
  <2> QED BY <2>1, <2>2 DEF SubSound, SubRecord
<1> QED BY <1>1, <1>2, <1>3

\* Only the subscriber and lastProgress change.
LEMMA SubChanges ==
  ASSUME NEW v, EventsSound(v), NEW sub, SubSound(sub), NEW last \in Snapshots
  PROVE  EventsSound(Told(v, sub)) /\ EventsSound(Emitted(v, last, sub))
  BY DEF EventsSound, EventsRecord, SubSound, Told, Emitted

\* Whatever is sent, the buffer does not overflow.
LEMMA SentSound ==
  ASSUME NEW v, EventsSound(v), NEW current \in Snapshots, NEW force \in BOOLEAN
  PROVE  /\ EventsSound(emitStatusUpdate(v, current))
         /\ EventsSound(emitTransferProgressUpdate(v, current, force))
<1>1. SubSound(v.sub)
  BY DEF EventsSound
<1>2. EventsSound(emitStatusUpdate(v, current))
  <2>1. SubSound(Send(v.sub, current))
    BY <1>1, SnapshotsAreEvents, SendSound
  <2>2. EventsSound(Told(v, Send(v.sub, current)))
    BY <1>1, <2>1, SubChanges
  <2> QED BY <2>2 DEF emitStatusUpdate, Told
<1>3. EventsSound(emitTransferProgressUpdate(v, current, force))
  <2> DEFINE changes == Changes(v, current, force)
             event == Restrict(current, changes)
             sub == IF changes = {} \/ v.sub.kind # "progress" THEN v.sub ELSE Send(v.sub, event)
  <2>1. changes \in SUBSET Transfers
    BY DEF Changes, PresentChanges
  <2> HIDE DEF changes
  <2>2. event \in Events
    BY <2>1, SnapshotsAreEvents
  <2> HIDE DEF event
  <2>3. SubSound(sub)
    BY <1>1, <2>2, SendSound
  <2>4. emitTransferProgressUpdate(v, current, force) = Emitted(v, current, sub)
    BY DEF emitTransferProgressUpdate, changes, event, Emitted
  <2> HIDE DEF sub
  <2> QED BY <1>1, <2>3, <2>4, SubChanges
<1> QED BY <1>2, <1>3

\* To subscribe, to receive and to cancel leave the buffer within its bound.
LEMMA SubscriberSound ==
  ASSUME NEW v, EventsSound(v), NEW current \in Snapshots, NEW kind \in {"status", "progress"}
  PROVE  /\ EventsSound(Subscribe(v, kind)) /\ EventsSound(Build(v, current))
         /\ EventsSound(emitCurrentTo(v)) /\ EventsSound(Cancel(v))
         /\ v.sub.queue # << >> => EventsSound(Receive(v))
<1>1. SubSound(v.sub) /\ v.sub \in SubRecord /\ v.last \in Snapshots
  BY DEF EventsSound, SubSound, EventsRecord
<1>2. NoTransfers \in Snapshots
  BY DEF NoTransfers, Snapshots
<1>3. EventsSound(Subscribe(v, kind))
  <2> DEFINE sub == [NoSub EXCEPT !.at = "registered", !.kind = kind]
  <2>1. SubSound(sub)
    BY NoSubSound DEF SubSound, SubRecord
  <2> HIDE DEF sub
  <2>2. EventsSound(Told(v, sub))
    BY <1>1, <2>1, SubChanges
  <2> QED BY <2>2 DEF Subscribe, sub, Told
<1>4. EventsSound(Cancel(v))
  <2> DEFINE sub == [NoSub EXCEPT !.at = "cancelled"]
  <2>1. SubSound(sub)
    BY NoSubSound DEF SubSound, SubRecord
  <2> HIDE DEF sub
  <2>2. EventsSound(Told(v, sub))
    BY <1>1, <2>1, SubChanges
  <2> QED BY <2>2 DEF Cancel, sub, Told
<1>5. EventsSound(Build(v, current))
  <2> DEFINE sub == [v.sub EXCEPT !.at = "built", !.built = current]
  <2>1. SubSound(sub)
    BY <1>1 DEF SubSound, SubRecord
  <2>2. Build(v, current) = Told(v, sub)
    BY <1>1 DEF Told, Build, EventsSound, EventsRecord
  <2> HIDE DEF sub
  <2> QED BY <1>1, <2>1, <2>2, SubChanges
<1>6. EventsSound(emitCurrentTo(v))
  <2> DEFINE first == IF v.sub.kind = "status" THEN v.sub.built
                      ELSE Restrict(v.sub.built, {t \in Transfers : v.sub.built[t] # "absent"})
             room == Len(v.sub.queue) < Buffer
             queue == IF room THEN Append(v.sub.queue, first) ELSE v.sub.queue
             missed == IF room THEN {t \in Transfers : v.sub.built[t] # v.last[t]}
                       ELSE v.sub.missed \cup
                              (DOMAIN first \ UNION {DOMAIN e : e \in Range(v.sub.queue)})
             sub == [v.sub EXCEPT !.at = "subscribed", !.built = NoTransfers,
                                  !.queue = queue, !.missed = missed]
  <2>1. first \in Events /\ DOMAIN first \in SUBSET Transfers
    <3>1. first \in Events
      <4>1. v.sub.built \in Snapshots
        BY <1>1 DEF SubRecord
      <4> DEFINE T == {t \in Transfers : v.sub.built[t] # "absent"}
      <4>2. T \in SUBSET Transfers
        OBVIOUS
      <4> HIDE DEF T
      <4>3. v.sub.built \in Events /\ Restrict(v.sub.built, T) \in Events
        BY <4>1, <4>2, SnapshotsAreEvents
      <4> QED BY <4>3 DEF T
    <3> HIDE DEF first
    <3> QED BY <3>1 DEF Events
  <2>2. emitCurrentTo(v) = Told(v, sub)
    BY DEF Told, emitCurrentTo
  <2> HIDE DEF first
  <2>3. queue \in Seq(Events) /\ Len(queue) <= Buffer
    BY <1>1, <2>1, ListenersAssumption DEF SubSound, SubRecord
  <2>4. missed \in SUBSET Transfers
    BY <1>1, <2>1 DEF SubRecord
  <2> HIDE DEF queue, missed
  <2>5. SubSound(sub)
    BY <1>1, <1>2, <2>3, <2>4 DEF SubSound, SubRecord
  <2> HIDE DEF sub
  <2> QED BY <1>1, <2>2, <2>5, SubChanges
<1>7. ASSUME v.sub.queue # << >> PROVE EventsSound(Receive(v))
  <2> DEFINE event == Head(v.sub.queue)
             rest == Tail(v.sub.queue)
             told == [t \in Transfers |-> IF t \in DOMAIN event THEN event[t] ELSE v.sub.knows[t]]
             sub == [v.sub EXCEPT !.queue = rest, !.knows = told]
  <2>1. event \in Events /\ rest \in Seq(Events) /\ Len(rest) <= Buffer
    BY <1>1, <1>7, ListenersAssumption DEF SubSound, SubRecord
  <2>2. Receive(v) = Told(v, sub)
    BY <1>1 DEF Told, Receive, EventsSound, EventsRecord
  <2> HIDE DEF event, rest
  <2>3. \A t \in DOMAIN event : event[t] \in States \cup {"absent"}
    BY <2>1 DEF Events
  <2>4. told \in Snapshots
    BY <1>1, <2>3 DEF Snapshots, SubRecord
  <2> HIDE DEF told
  <2>5. SubSound(sub)
    BY <1>1, <2>1, <2>4 DEF SubSound, SubRecord
  <2> HIDE DEF sub
  <2> QED BY <1>1, <2>2, <2>5, SubChanges
<1> QED BY <1>3, <1>4, <1>5, <1>6, <1>7

\* statusLoop goes on.
LEMMA WatchChanges ==
  ASSUME NEW w, WatchFits(w), NEW events, EventsSound(events),
         NEW at \in {"off", "idle", "status", "progress"}, NEW seen \in Snapshots
  PROVE  WatchFits(Watching(w, events, at, seen))
<1> DEFINE next == Watching(w, events, at, seen)
<1>1. next \in WatchRecord /\ next.events = events
  BY DEF WatchFits, WatchRecord, EventsSound, Watching
<1> HIDE DEF next
<1>2. WatchFits(next)
  BY <1>1 DEF WatchFits
<1> QED BY <1>2 DEF next

\* No step of any goroutine overfills the buffer of a subscriber.
LEMMA WatchNext ==
  ASSUME Placed, WatchSound, [Next]_vars
  PROVE  WatchSound'
<1> USE DEF WatchSound
<1>1. /\ transfers \in Snapshots /\ api.seen \in Snapshots /\ watch \in WatchRecord
      /\ watch.seen \in Snapshots /\ EventsSound(watch.events) /\ NoTransfers \in Snapshots
  BY NothingYet DEF Placed, ApiPlaced, ApiRecord, WatchFits, WatchRecord
<1>2. ASSUME watch' = watch PROVE WatchFits(watch')
  BY <1>2
<1>3. ASSUME NEW events, EventsSound(events), NEW at \in {"off", "idle", "status", "progress"},
             NEW seen \in Snapshots, watch' = Watching(watch, events, at, seen)
      PROVE  WatchFits(watch')
  BY <1>3, WatchChanges
<1>4. ASSUME NEW events, EventsSound(events), watch' = [watch EXCEPT !.events = events]
      PROVE  WatchFits(watch')
  <2>1. watch' \in WatchRecord /\ watch'.events = events
    BY <1>1, <1>4 DEF WatchRecord, EventsSound
  <2> QED BY <1>4, <2>1 DEF WatchFits
<1>5. ASSUME watch' \in WatchRecord, watch'.events = watch.events
      PROVE  WatchFits(watch')
  BY <1>1, <1>5 DEF WatchFits
<1>6. CASE PortCalls
  <2>1. ASSUME NEW ok \in BOOLEAN, Started(ok) PROVE WatchFits(watch')
    <3>1. watch' = watch \/ watch' = [watch EXCEPT !.at = "idle"]
      BY <2>1 DEF Started
    <3>2. watch' \in WatchRecord /\ watch'.events = watch.events
      BY <1>1, <3>1 DEF WatchRecord
    <3> QED BY <1>5, <3>2
  <2>2. ASSUME StartWithoutTracker PROVE WatchFits(watch')
    BY <2>1, <2>2 DEF StartWithoutTracker
  <2>3. ASSUME EndUnmapWait \/ DisconnectFrom PROVE WatchFits(watch')
    BY <1>2, <2>3 DEF EndUnmapWait, DisconnectFrom, aside
  <2>4. ASSUME EndUnmap PROVE WatchFits(watch')
    <3>1. Started(TRUE) \/ Started(FALSE) \/ watch' = watch
      BY <2>4, Zenon DEF EndUnmap
    <3> QED BY <1>2, <2>1, <3>1
  <2>5. ASSUME NEW ok \in BOOLEAN, Start(ok) PROVE WatchFits(watch')
    BY <2>1, <2>5 DEF Start
  <2>6. ASSUME NEW ok \in BOOLEAN, Listen(ok) \/ StartTracker(ok) \/ Delete(ok)
        PROVE  WatchFits(watch')
    BY <1>2, <2>6 DEF Listen, StartTracker, Delete
  <2> QED BY <1>6, <2>2, <2>3, <2>4, <2>5, <2>6 DEF PortCalls
<1>7. CASE ChangeCalls
  <2>1. ASSUME SendStatus PROVE WatchFits(watch')
    <3> DEFINE events == emitStatusUpdate(watch.events, api.seen)
    <3>1. watch' = [watch EXCEPT !.events = events]
      BY <2>1 DEF SendStatus
    <3>2. EventsSound(events)
      BY <1>1, SentSound
    <3> HIDE DEF events
    <3> QED BY <1>4, <3>1, <3>2
  <2>2. ASSUME SendProgress PROVE WatchFits(watch')
    <3> DEFINE r(force) == emitTransferProgressUpdate(watch.events, api.seen, force)
    <3>1. watch' = [watch EXCEPT !.events = r(TRUE)]
      BY <2>2 DEF SendProgress
    <3>2. \A force \in BOOLEAN : EventsSound(r(force))
      BY <1>1, SentSound
    <3> HIDE DEF r
    <3> QED BY <1>4, <3>1, <3>2
  <2>3. ASSUME Change PROVE WatchFits(watch')
    BY <1>2, <2>3 DEF Change, aside
  <2>4. ASSUME NEW t \in Transfers, NEW state \in States \cup {"absent"}, ChangeTransfer(t, state)
        PROVE  WatchFits(watch')
    BY <1>2, <2>4 DEF ChangeTransfer
  <2> QED BY <1>7, <2>1, <2>2, <2>3, <2>4 DEF ChangeCalls
<1>8. CASE WatchWork
  <2> USE DEF Tells
  <2>1. ASSUME StatusTick PROVE WatchFits(watch')
    BY <1>1, <1>5, <2>1 DEF StatusTick, WatchRecord
  <2>2. ASSUME StatusSent PROVE WatchFits(watch')
    <3> DEFINE events == emitStatusUpdate(watch.events, watch.seen)
    <3>1. watch' = Watching(watch, events, "progress", transfers)
      BY <1>1, <2>2 DEF StatusSent, Watching, WatchRecord
    <3>2. EventsSound(events)
      BY <1>1, SentSound
    <3> HIDE DEF events
    <3> QED BY <1>1, <1>3, <3>1, <3>2
  <2>3. ASSUME ProgressSent PROVE WatchFits(watch')
    <3> DEFINE r(force) == emitTransferProgressUpdate(watch.events, watch.seen, force)
    <3>1. watch' = Watching(watch, r(FALSE), "idle", NoTransfers)
      BY <1>1, <2>3 DEF ProgressSent, Watching, WatchRecord
    <3>2. \A force \in BOOLEAN : EventsSound(r(force))
      BY <1>1, SentSound
    <3> HIDE DEF r
    <3> QED BY <1>1, <1>3, <3>1, <3>2
  <2>4. ASSUME CancelSubscription PROVE WatchFits(watch')
    BY <1>1, <1>4, <2>4, SubscriberSound DEF CancelSubscription
  <2>5. ASSUME Wait \/ WaitEnds PROVE WatchFits(watch')
    BY <1>1, <1>5, <2>5 DEF Wait, WaitEnds, WatchRecord
  <2>6. ASSUME BuildFirst PROVE WatchFits(watch')
    BY <1>1, <1>4, <2>6, SubscriberSound DEF BuildFirst
  <2>7. ASSUME SendFirst PROVE WatchFits(watch')
    BY <1>1, <1>4, <2>7, SubscriberSound DEF SendFirst
  <2>8. ASSUME ReceiveEvent PROVE WatchFits(watch')
    BY <1>1, <1>4, <2>8, SubscriberSound DEF ReceiveEvent
  <2>9. ASSUME NEW kind \in {"status", "progress"}, SubscribeTo(kind) PROVE WatchFits(watch')
    BY <1>1, <1>4, <2>9, SubscriberSound DEF SubscribeTo
  <2>10. ASSUME NEW t \in Transfers, TransferFinishes(t) PROVE WatchFits(watch')
    BY <1>2, <2>10 DEF TransferFinishes
  <2> QED BY <1>8, <2>1, <2>2, <2>3, <2>4, <2>5, <2>6, <2>7, <2>8, <2>9, <2>10
          DEF WatchWork, StatusStep, SubscriberStep
<1>9. CASE LoopWork \/ SaveWork \/ ServerCalls \/ SearchWork \/ StopCalls \/ MapWork \/ TimePasses
  BY <1>2, <1>9, LoopWorkLeaves, SaveWorkLeaves, ServerCallsLeave, SearchWorkLeaves,
     StopCallsLeave, MapWorkLeaves, TimeLeaves DEF aside
<1>10. CASE UNCHANGED vars
  BY <1>2, <1>10 DEF vars
<1> QED BY <1>6, <1>7, <1>8, <1>9, <1>10, NextParts

(***************************************************************************)
(* The search                                                              *)
(***************************************************************************)
Asking == {"ask", "askDHT", "keywords"}
SearchPlaced ==
  /\ search \in SearchRecord \cup {NoSearch}
  /\ api.at \in Asking => search \in SearchRecord

\* What a search task becomes is a search task.
LEMMA TaskTyped ==
  ASSUME NEW q \in SearchRecord
  PROVE  /\ {Sent(q), DHTAsked(q), Accepted(q), finishDHT(q), fail(q)} \subseteq SearchRecord
         /\ {OnServerSearchResult(q), onTick(q)} \subseteq SearchRecord
         /\ [q EXCEPT !.deadline = "passed"] \in SearchRecord
<1>1. ASSUME NEW r \in SearchRecord PROVE finishLocked(r) \in SearchRecord
  BY DEF finishLocked, SearchRecord
<1>2. /\ Sent(q) \in SearchRecord /\ DHTAsked(q) \in SearchRecord /\ Accepted(q) \in SearchRecord
      /\ fail(q) \in SearchRecord /\ [q EXCEPT !.deadline = "passed"] \in SearchRecord
  BY DEF Sent, DHTAsked, Accepted, fail, SearchRecord
<1>3. finishDHT(q) \in SearchRecord
  <2>1. [q EXCEPT !.dhtBusy = FALSE, !.owed = FALSE] \in SearchRecord
    BY DEF SearchRecord
  <2> QED BY <1>1, <2>1 DEF finishDHT
<1>4. OnServerSearchResult(q) \in SearchRecord
  BY DEF OnServerSearchResult, SearchRecord
<1>5. onTick(q) \in SearchRecord
  <2> DEFINE busy == q.serverBusy /\ q.deadline # "passed"
  <2>1. busy \in BOOLEAN
    OBVIOUS
  <2> HIDE DEF busy
  <2>2. [q EXCEPT !.serverBusy = busy] \in SearchRecord
    BY <2>1 DEF SearchRecord
  <2>3. finishLocked([q EXCEPT !.serverBusy = busy]) \in SearchRecord
    BY <1>1, <2>2
  <2> QED BY <2>3 DEF onTick, busy
<1> QED BY <1>2, <1>3, <1>4, <1>5

\* The active search is a task while the calling thread asks for it.
LEMMA SearchNext ==
  ASSUME Placed, Placed', SearchPlaced, [Next]_vars
  PROVE  SearchPlaced'
<1> USE DEF Asking, SearchPlaced
<1>1. ASSUME search' = search, api'.at = api.at \/ api'.at \notin Asking PROVE SearchPlaced'
  BY <1>1
<1>2. api \in ApiRecord
  BY DEF Placed, ApiPlaced
<1>3. CASE LoopWork
  <2>1. api' = api
    BY <1>3, LoopWorkLeaves
  <2> DEFINE Steps == search' = search \/ search' = OnServerSearchResult(search) \/ search' = onTick(search)
  <2>2. Steps
    <3>1. ASSUME Tick \/ LoopEnds \/ PumpClosed \/ EndServe \/ EndPump \/ GetConnectCandidate
                 \/ CreateConnection
          PROVE  search' = search
      <4>1. ASSUME Tick PROVE search' = search
        BY <4>1 DEF Tick
      <4>2. ASSUME PumpClosed PROVE search' = search
        BY <4>2 DEF PumpClosed
      <4>3. ASSUME EndServe PROVE search' = search
        BY <4>3 DEF EndServe
      <4>4. ASSUME LoopEnds \/ EndPump \/ GetConnectCandidate PROVE search' = search
        BY <4>4 DEF LoopEnds, EndPump, GetConnectCandidate
      <4>5. ASSUME CreateConnection PROVE search' = search
        BY <4>5 DEF CreateConnection
      <4> QED BY <3>1, <4>1, <4>2, <4>3, <4>4, <4>5
    <3>2. ASSUME ProcessIncoming \/ TakeIdentity PROVE Steps
      BY <3>2 DEF ProcessIncoming, TakeIdentity
    <3>3. ASSUME EndTick PROVE Steps
      BY <3>3 DEF EndTick, tickSearches
    <3>4. ASSUME NEW packet \in Packets, Serve(packet) PROVE Steps
      BY <3>4 DEF Serve
    <3>5. ASSUME NEW s \in Servers, LookUp(s) PROVE Steps
      BY <3>5 DEF LookUp
    <3>6. ASSUME NEW ok \in BOOLEAN, LoopDialEnds(ok) PROVE Steps
      BY <3>6 DEF LoopDialEnds
    <3> QED BY <1>3, <3>1, <3>2, <3>3, <3>4, <3>5, <3>6 DEF LoopWork
  <2>3. OnServerSearchResult(NoSearch) = NoSearch /\ onTick(NoSearch) = NoSearch
    BY DEF OnServerSearchResult, onTick, Running
  <2>4. CASE search = NoSearch
    BY <2>1, <2>2, <2>3, <2>4
  <2>5. CASE search \in SearchRecord
    BY <2>1, <2>2, <2>5, TaskTyped
  <2> QED BY <2>4, <2>5
<1>4. CASE SearchWork
  <2>1. CASE sendSearchRequest
    <3>1. search \in SearchRecord /\ search' \in {search, Sent(search)}
      BY <2>1 DEF sendSearchRequest, ServersAsked
    <3> QED BY <3>1, TaskTyped
  <2>2. CASE StopSearch
    BY <2>2 DEF StopSearch, Calls
  <2>3. CASE DHTAnswers
    <3>1. search \in SearchRecord /\ search' = finishDHT(search)
      BY <2>3 DEF DHTAnswers
    <3> QED BY <3>1, TaskTyped
  <2>4. CASE DeadlinePasses
    <3>1. search \in SearchRecord /\ search' = [search EXCEPT !.deadline = "passed"]
      BY <2>4 DEF DeadlinePasses
    <3> QED BY <3>1, TaskTyped
  <2>5. ASSUME NEW scope \in SUBSET {"server", "dht"}, StartSearch(scope) PROVE SearchPlaced'
    BY <2>5 DEF StartSearch, newSearchTask, SearchRecord
  <2>6. ASSUME NEW ok \in BOOLEAN, startDHTSearch(ok) PROVE SearchPlaced'
    <3>1. search \in SearchRecord /\ search' \in {search, DHTAsked(search), fail(search)}
      BY <2>6 DEF startDHTSearch
    <3> QED BY <3>1, TaskTyped
  <2>7. ASSUME NEW ok \in BOOLEAN, SearchKeywords(ok) PROVE SearchPlaced'
    <3>1. search \in SearchRecord /\ search' \in {search, Accepted(search), fail(search)}
      BY <2>7 DEF SearchKeywords
    <3> QED BY <3>1, TaskTyped
  <2> QED BY <1>4, <2>1, <2>2, <2>3, <2>4, <2>5, <2>6, <2>7 DEF SearchWork
<1>5. CASE SaveWork
  <2>1. ASSUME NEW w \in Savers, NEW place \in {"open", "write", "rename", "remove"}, Goes(w, place)
        PROVE  api' = api \/ api'.at \notin Asking
    BY <1>2, <2>1 DEF Goes, ApiRecord
  <2>2. ASSUME NEW w \in Savers, NEW ok \in BOOLEAN, Saved(w, ok)
        PROVE  api' = api \/ api'.at \notin Asking
    <3>1. CASE w = "loop"
      BY <2>2, <3>1 DEF Saved
    <3>2. CASE w # "loop" /\ Emits(ok)
      BY <2>2, <3>2 DEF Saved, Emitting, IdleApi
    <3>3. CASE w # "loop" /\ ~Emits(ok)
      <4> DEFINE at == IF api.stops THEN "stopped" ELSE "idle"
                 stops == api.stops
                 failed == ~ok
      <4>1. api' = [IdleApi EXCEPT !.at = at, !.stops = stops, !.failed = failed]
        BY <2>2, <3>3 DEF Saved
      <4>2. at \notin Asking
        OBVIOUS
      <4> HIDE DEF at, stops, failed
      <4>3. api'.at = at
        BY <4>1 DEF IdleApi
      <4> QED BY <4>2, <4>3
    <3> QED BY <3>1, <3>2, <3>3
  <2>3. PICK w \in Savers : SaveStep(w)
    BY <1>5 DEF SaveWork
  <2>4. CASE snapshotState(w) \/ OpenTemporary(w) \/ WriteTemporary(w) \/ RenameFails(w)
    <3>1. \E place \in {"open", "write", "rename", "remove"} : Goes(w, place)
      BY <2>4 DEF snapshotState, OpenTemporary, WriteTemporary, RenameFails
    <3> QED BY <1>1, <1>5, <2>1, <3>1, SaveWorkLeaves
  <2>5. CASE WriteFails(w) \/ RenameTemporary(w) \/ RemoveTemporary(w)
    <3>1. \E ok \in BOOLEAN : Saved(w, ok)
      BY <2>5 DEF WriteFails, RenameTemporary, RemoveTemporary
    <3> QED BY <1>1, <1>5, <2>2, <3>1, SaveWorkLeaves
  <2> QED BY <2>3, <2>4, <2>5 DEF SaveStep
<1>6. CASE PortCalls
  <2>1. search' = search
    BY <1>6, PortCallsLeave
  <2> DEFINE Quiet == api' = api \/ api'.at \notin Asking
  <2>2. ASSUME NEW ok \in BOOLEAN, Started(ok) PROVE Quiet
    BY <2>2 DEF Started, Emitting, IdleApi
  <2>3. ASSUME StartWithoutTracker PROVE Quiet
    BY <2>2, <2>3 DEF StartWithoutTracker
  <2>4. ASSUME EndUnmapWait PROVE Quiet
    BY <1>2, <2>4 DEF EndUnmapWait, ApiRecord
  <2>5. ASSUME EndUnmap PROVE Quiet
    <3>1. \/ Started(TRUE) \/ Started(FALSE)
          \/ api.after \notin {"refresh", "fail"} /\ api' = [api EXCEPT !.at = api.after, !.after = "nothing"]
      BY <2>5, Zenon DEF EndUnmap
    <3>2. ASSUME api' = [api EXCEPT !.at = api.after, !.after = "nothing"] PROVE Quiet
      <4>1. api'.at = api.after /\ api.after \in AfterPlaces \cup {"nothing"}
        BY <1>2, <3>2 DEF ApiRecord
      <4> QED BY <4>1 DEF AfterPlaces
    <3> QED BY <2>2, <3>1, <3>2
  <2>6. ASSUME DisconnectFrom PROVE Quiet
    <3> DEFINE next == IF life.stopping THEN "wait" ELSE AfterStop
    <3>1. \/ api' = [api EXCEPT !.at = next]
          \/ api' = [api EXCEPT !.at = "unmap", !.after = next]
      BY <2>6 DEF DisconnectFrom
    <3>2. next \in {"wait", "snapshot", "stopped"}
      BY DEF AfterStop
    <3> HIDE DEF next
    <3> QED BY <1>2, <3>1, <3>2 DEF ApiRecord
  <2>7. ASSUME NEW ok \in BOOLEAN, Start(ok) PROVE Quiet
    BY <2>2, <2>7 DEF Start
  <2>8. ASSUME NEW ok \in BOOLEAN, Listen(ok) PROVE Quiet
    BY <1>2, <2>8 DEF Listen, ApiRecord
  <2>9. ASSUME NEW ok \in BOOLEAN, StartTracker(ok) PROVE Quiet
    <3> DEFINE after == IF ok THEN "refresh" ELSE "fail"
    <3>1. api' = [api EXCEPT !.at = "unmap", !.after = after]
      BY <2>9 DEF StartTracker
    <3> HIDE DEF after
    <3> QED BY <1>2, <3>1 DEF ApiRecord
  <2>10. ASSUME NEW ok \in BOOLEAN, Delete(ok) PROVE Quiet
    BY <2>10 DEF Delete
  <2> HIDE DEF Quiet
  <2>11. Quiet
    BY <1>6, <2>3, <2>4, <2>5, <2>6, <2>7, <2>8, <2>9, <2>10 DEF PortCalls
  <2> QED BY <1>1, <2>1, <2>11 DEF Quiet
<1>8. CASE ServerCalls
  <2>1. ASSUME NEW s \in Servers, NEW moved \in BOOLEAN, ConnectTo(s, moved)
        PROVE  api' = api \/ api'.at \notin Asking
    <3> DEFINE c == Fresh(Wanted(srv, s))
    <3>1. api' = api \/ api' = [api EXCEPT !.at = "dialing", !.conn = c]
      BY <2>1 DEF ConnectTo
    <3> HIDE DEF c
    <3> QED BY <1>2, <3>1 DEF ApiRecord
  <2>2. ASSUME NEW ok \in BOOLEAN, ApiDialEnds(ok) PROVE api'.at \notin Asking
    BY <2>2 DEF ApiDialEnds, IdleApi
  <2> QED BY <1>1, <1>8, <2>1, <2>2, ServerCallsLeave DEF ServerCalls
<1>9. CASE ChangeCalls
  <2>1. ASSUME Change \/ SendStatus PROVE api'.at \notin Asking
    BY <1>2, <2>1 DEF Change, SendStatus, ApiRecord
  <2>2. ASSUME SendProgress PROVE api'.at \notin Asking
    BY <2>2 DEF SendProgress, IdleApi
  <2>3. ASSUME NEW t \in Transfers, NEW state \in States \cup {"absent"}, ChangeTransfer(t, state)
        PROVE  api'.at \notin Asking
    <3>1. CASE Stored
      <4>1. \E emits : api' = [api EXCEPT !.at = "snapshot", !.emits = emits]
        BY <2>3, <3>1, Zenon DEF ChangeTransfer
      <4> QED BY <1>2, <4>1 DEF ApiRecord
    <3>2. CASE ~Stored
      BY <2>3, <3>2 DEF ChangeTransfer, IdleApi
    <3> QED BY <3>1, <3>2
  <2> QED BY <1>1, <1>9, <2>1, <2>2, <2>3, ChangeCallsLeave DEF ChangeCalls
<1>10. CASE StopCalls
  <2>1. ASSUME Stop PROVE api'.at \notin Asking
    BY <1>2, <2>1 DEF Stop, ApiRecord
  <2>2. ASSUME NEW late \in BOOLEAN, EndWait(late) PROVE api'.at \notin Asking
    BY <1>2, <2>2 DEF EndWait, AfterStop, ApiRecord
  <2> QED BY <1>1, <1>10, <2>1, <2>2, StopCallsLeave DEF StopCalls
<1>7. CASE WatchWork \/ MapWork \/ TimePasses \/ UNCHANGED vars
  BY <1>1, <1>7, WatchWorkLeaves, MapWorkLeaves, TimeLeaves DEF vars
<1> QED BY <1>3, <1>4, <1>5, <1>6, <1>7, <1>8, <1>9, <1>10, NextParts

(***************************************************************************)
(* The theorems                                                            *)
(***************************************************************************)
LEMMA ServersInit == Init => ServersPlaced
<1> SUFFICES ASSUME Init PROVE ServersPlaced
  OBVIOUS
<1>1. srv = NewServers /\ loop = [IdleLoop EXCEPT !.at = "off"] /\ api = IdleApi
  BY DEF Init
<1>2. /\ loop.at = "off" /\ loop.todo = << >> /\ loop.conn = NoConn
      /\ api.at = "idle" /\ api.conn = NoConn
  BY <1>1 DEF IdleLoop, IdleApi
<1>3. /\ srv.conn = << >> /\ srv.entry = [s \in Servers |-> NoConn] /\ srv.primary = NoConn
      /\ srv.identity = NoConn /\ srv.configured = {}
      /\ srv.policy = [s \in Servers |-> NewPolicy] /\ srv.losses = [s \in Servers |-> 0]
  BY <1>1 DEF NewServers
<1>4. Range(loop.todo) = {}
  BY <1>2 DEF Range
<1>5. srv.conn \in ConnData /\ DOMAIN srv.conn = {}
  <2>1. srv.conn \in [{} -> ConnRecord]
    BY <1>3
  <2> QED BY <2>1, ConnsTyped
<1>6. Active(srv) = {}
  BY <1>3 DEF Active, Entries, Range
<1>7. NewPolicy \in Policy /\ PolicySound(NewPolicy)
  BY ServersAssumption DEF NewPolicy, Policy, PolicySound
<1>8. srv \in ServerRecord
  <2>1. srv.losses \in [Servers -> 0..MaxReconnects]
    BY <1>3, ServersAssumption
  <2>2. srv.policy \in [Servers -> Policy]
    BY <1>3, <1>7
  <2>3. srv = [conn |-> srv.conn, entry |-> srv.entry, primary |-> srv.primary,
               identity |-> srv.identity, configured |-> srv.configured,
               policy |-> srv.policy, losses |-> srv.losses]
    BY <1>1 DEF NewServers
  <2> QED BY <1>3, <1>5, <2>1, <2>2, <2>3 DEF ServerRecord
<1>9. ServersSound(srv)
  BY <1>3, <1>5, <1>6, <1>7, <1>8 DEF ServersSound
<1>10. Served(srv, loop) = NoConn /\ Shaking(loop) = NoConn /\ Held(loop, api) = {NoConn}
  BY <1>2, <1>4 DEF Served, Shaking, Held
<1>11. IdentitySound(srv, Served(srv, loop), Shaking(loop))
  BY <1>3, <1>6, <1>10 DEF IdentitySound
<1>12. ConnsPlaced(srv, loop, api)
  BY <1>2, <1>10 DEF ConnsPlaced, Serving
<1>13. Bounded(srv, loop, api)
  <2>1. Cardinality(Servers) \in Nat
    BY ClientAssumption, FS_CardinalityType
  <2> QED BY <1>4, <1>5, <2>1, FS_EmptySet DEF Bounded
<1> QED BY <1>2, <1>9, <1>11, <1>12, <1>13 DEF ServersPlaced, Good

\* There is neither a subscriber nor a search at first.
LEMMA WatchInit == Init => WatchSound /\ SearchPlaced
<1> SUFFICES ASSUME Init PROVE WatchSound /\ SearchPlaced
  OBVIOUS
<1>1. watch = [events |-> NewListeners, at |-> "off", seen |-> NoTransfers, waiter |-> "none"]
  BY DEF Init
<1>2. watch \in WatchRecord /\ watch.events = NewListeners
  BY <1>1, NothingYet, NoSubSound DEF WatchRecord, EventsSound
<1>3. search = NoSearch /\ api.at = "idle"
  BY DEF Init, IdleApi
<1> QED BY <1>2, <1>3, NoSubSound DEF WatchSound, WatchFits, SearchPlaced, Asking

\* The inductive invariant: where the threads are, and what each part is like
\* while they are there.
IInv ==
  /\ Placed /\ ServersPlaced /\ FilesSound(files) /\ FilesPlaced
  /\ PortsSound(ports) /\ PortsPlaced /\ WatchSound /\ SearchPlaced /\ saveDue \in BOOLEAN

\* The client begins in the invariant.
LEMMA IInvInit == Init => IInv
<1> SUFFICES ASSUME Init PROVE IInv
  OBVIOUS
<1>1. saveDue \in BOOLEAN
  BY DEF Init
<1> QED BY <1>1, PlacedInit, ServersInit, FilesInit, PortsInit, WatchInit DEF IInv

\* autoSaveTick passes, and is reset by the save.
LEMMA SaveDueNext ==
  ASSUME saveDue \in BOOLEAN, [Next]_vars
  PROVE  saveDue' \in BOOLEAN
<1>1. CASE SaveWork
  <2>1. PICK w \in Savers : SaveStep(w)
    BY <1>1 DEF SaveWork
  <2>2. ASSUME NEW ok \in BOOLEAN, Saved(w, ok) PROVE saveDue' \in BOOLEAN
    BY <2>2 DEF Saved
  <2>3. CASE WriteFails(w) \/ RenameTemporary(w) \/ RemoveTemporary(w)
    BY <2>2, <2>3 DEF WriteFails, RenameTemporary, RemoveTemporary
  <2>4. CASE snapshotState(w) \/ OpenTemporary(w) \/ WriteTemporary(w) \/ RenameFails(w)
    BY <2>4 DEF snapshotState, OpenTemporary, WriteTemporary, RenameFails
  <2> QED BY <2>1, <2>3, <2>4 DEF SaveStep
<1>2. CASE TimePasses
  BY <1>2 DEF TimePasses, SaveFallsDue, ReconnectFallsDue
<1>3. CASE \/ LoopWork \/ PortCalls \/ ServerCalls \/ SearchWork \/ ChangeCalls
           \/ StopCalls \/ WatchWork \/ MapWork
  BY <1>3, LoopWorkLeaves, PortCallsLeave, ServerCallsLeave, SearchWorkLeaves, ChangeCallsLeave,
     StopCallsLeave, WatchWorkLeaves, MapWorkLeaves
<1>4. CASE UNCHANGED vars
  BY <1>4 DEF vars
<1> QED BY <1>1, <1>2, <1>3, <1>4, NextParts

\* What is proved of the server connections first: that the threads have only
\* connections that there are.
LEMMA ConnsHeld ==
  ASSUME NEW v, NEW l, NEW a, Fine(v, l, a)
  PROVE  /\ v.configured \subseteq Servers /\ l.todo \in Seq(Conns)
         /\ {l.conn, a.conn} \subseteq Conns \cup {NoConn}
<1>1. v \in ServerRecord /\ Held(l, a) \subseteq DOMAIN v.conn \cup {NoConn}
  BY DEF Fine, Good, ServersSound, ConnsPlaced
<1>2. DOMAIN v.conn \subseteq Conns
  BY <1>1, ConnsAre
<1> QED BY <1>1, <1>2 DEF Fine, Held, ServerRecord

\* Every step keeps the invariant.
LEMMA IInvNext == IInv /\ [Next]_vars => IInv'
<1> SUFFICES ASSUME IInv, [Next]_vars PROVE IInv'
  OBVIOUS
<1> USE DEF IInv
<1>1. Fine(srv', loop', api')
  BY ServersNext
<1>2. ServersPlaced'
  BY <1>1 DEF Fine, ServersPlaced
<1>3. Placed'
  <2>1. Fine(srv, loop, api)
    BY AllFine
  <2> QED BY <1>1, <2>1, ConnsHeld, PlacedNext
<1>4. FilesSound(files)' /\ FilesPlaced'
  BY <1>3, FilesNext
<1>5. PortsSound(ports)' /\ PortsPlaced'
  BY <1>3, PortsNext
<1>6. WatchSound' /\ SearchPlaced'
  BY <1>3, WatchNext, SearchNext
<1>7. saveDue' \in BOOLEAN
  BY SaveDueNext
<1> QED BY <1>2, <1>3, <1>4, <1>5, <1>6, <1>7

\* The invariant holds in every reachable state.
LEMMA Invariant == Spec => []IInv
<1> QED BY IInvInit, IInvNext, PTL DEF Spec

\* The identity that the session shows is the one of its primary server
\* (session.go, refreshPrimaryServerIdentity), for any number of servers and of
\* calls, but in the two cases that the property names.
THEOREM IdentityKept == Spec => []IdentityIsPrimarys
<1>1. IInv => IdentityIsPrimarys
  <2> SUFFICES ASSUME IInv, loop.at \notin {"shaken", "served"}, srv.primary # NoConn, Shaken(srv, srv.primary)
               PROVE  srv.identity = srv.primary \/ ReplacedByCall(srv.identity)
    BY DEF IdentityIsPrimarys
  <2>1. IdentitySound(srv, Served(srv, loop), Shaking(loop)) /\ Served(srv, loop) = NoConn
    BY DEF IInv, ServersPlaced, Good, Served
  <2>2. Shaking(loop) = NoConn
    BY DEF Shaking
  <2>3. srv.primary \in Active(srv)
    BY DEF Active
  <2> QED BY <2>1, <2>2, <2>3 DEF IdentitySound, ReplacedByCall
<1> QED BY <1>1, Invariant, PTL

\* When Stop has returned and the loop has ended in its time, the state file
\* holds the state of the client (Client.Stop, FileClientStateStore.Save),
\* whatever autosaves and calls wrote before.
THEOREM StopLeavesState == Spec => []StopSaves
<1>1. IInv => StopSaves
  <2> SUFFICES ASSUME IInv, Stored, api.at = "stopped", ~life.late, ~api.failed
               PROVE  Loaded(files) = version
    BY DEF StopSaves
  <2>1. api.stops
    BY DEF IInv, Placed, ApiPlaced
  <2> QED BY <2>1 DEF IInv, FilesPlaced
<1> QED BY <1>1, Invariant, PTL

\* What a gateway maps for the client is with the one manager that will delete
\* it (upnp.go, session.go startUPnPMapping and stopUPnPMapping), or an answer
\* of a gateway was lost or was a refusal.
THEOREM GatewaysTold == Spec => []MappingsAreOwned
<1>1. IInv => MappingsAreOwned
  BY DEF IInv, PortsSound, MappingsAreOwned
<1> QED BY <1>1, Invariant, PTL

\* The invariant has the types of the server connections.
LEMMA ServersType == IInv => ServersTyped(srv)
<1> SUFFICES ASSUME IInv PROVE ServersTyped(srv)
  OBVIOUS
<1>1. srv \in ServerRecord /\ Active(srv) \cup {srv.identity} \subseteq DOMAIN srv.conn \cup {NoConn}
  BY DEF IInv, ServersPlaced, Good, ServersSound
<1>2. srv.conn \in [DOMAIN srv.conn -> ConnRecord] /\ DOMAIN srv.conn \subseteq Conns
  BY <1>1, ConnsAre
<1>3. srv.primary \in DOMAIN srv.conn \cup {NoConn}
  BY <1>1 DEF Active
<1>4. srv.entry \in [Servers -> DOMAIN srv.conn \cup {NoConn}]
  <2>1. \A s \in Servers : srv.entry[s] \in DOMAIN srv.conn \cup {NoConn}
    BY <1>1 DEF Active, Entries, Range, ServerRecord
  <2> QED BY <1>1, <2>1 DEF ServerRecord
<1> QED BY <1>1, <1>2, <1>3, <1>4 DEF ServersTyped, ServerRecord

\* TypeOK of Client: what each field has, that the threads refer only to
\* connections that there are, and that a policy says "never" when its attempts
\* are used up and not before (server_connection_policy.go).
THEOREM ClientTypeCorrect == Spec => []TypeOK
<1>1. IInv => TypeOK
  <2> SUFFICES ASSUME IInv PROVE TypeOK
    OBVIOUS
  <2>1. loop \in LoopRecord /\ api \in ApiRecord /\ life \in LifeRecord /\ transfers \in Snapshots
    BY DEF IInv, Placed, LoopPlaced, ApiPlaced, LifePlaced
  <2>2. Held(loop, api) \subseteq DOMAIN srv.conn \cup {NoConn}
    BY DEF IInv, ServersPlaced, Good, ConnsPlaced
  <2>3. Range(loop.todo) \subseteq DOMAIN srv.conn
    <3>1. Range(loop.todo) \subseteq Conns
      BY <2>1 DEF LoopRecord, Range
    <3> QED BY <2>2, <3>1, ServersAssumption DEF Held
  <2>4. FilesTyped(files) /\ version \in 0..MaxVersion
    <3>1. files \in FileRecord /\ InUse(files) \subseteq DOMAIN files.data \cup {NoFile}
      BY DEF IInv, FilesSound
    <3>2. files.data \in [DOMAIN files.data -> Contents] /\ DOMAIN files.data \subseteq Inodes
      BY <3>1 DEF FileRecord, FileData
    <3> QED BY <3>1, <3>2 DEF IInv, FilesPlaced, FilesTyped, FileRecord, InUse
  <2>5. PortsTyped(ports)
    <3>1. /\ ports \in PortRecord /\ Len(ports.manager) <= 2
          /\ \A k \in DOMAIN ports.manager : ManagerSound(ports.manager[k])
          /\ {ports.current, ports.stopping} \subseteq DOMAIN ports.manager \cup {NoManager}
      BY DEF IInv, PortsSound
    <3>2. DOMAIN ports.manager \subseteq Managers
      BY <3>1 DEF PortRecord, Managers
    <3> QED BY <3>1, <3>2 DEF PortsTyped, PortRecord, ManagerSound
  <2>6. ListenersTyped(watch.events) /\ watch.seen \in Snapshots
    <3>1. watch \in WatchRecord /\ watch.events.sub \in SubRecord /\ watch.events \in EventsRecord
          /\ Len(watch.events.sub.queue) <= Buffer
      BY DEF IInv, WatchSound, WatchFits, EventsSound, SubSound
    <3>2. Range(watch.events.sub.queue) \subseteq Events
      BY <3>1 DEF SubRecord, Range
    <3> QED BY <3>1, <3>2 DEF ListenersTyped, SubRecord, EventsRecord, WatchRecord
  <2>7. \A s \in Servers : LET p == srv.policy[s] IN
          CASE p.due = "never" -> p.iteration = MaxReconnects
            [] p.due = "later" -> p.known /\ p.iteration \in 1..MaxReconnects - 1
            [] p.due = "now"   -> p.known /\ p.iteration < MaxReconnects
    <3> SUFFICES ASSUME NEW s \in Servers
                 PROVE  LET p == srv.policy[s] IN
                        CASE p.due = "never" -> p.iteration = MaxReconnects
                          [] p.due = "later" -> p.known /\ p.iteration \in 1..MaxReconnects - 1
                          [] p.due = "now"   -> p.known /\ p.iteration < MaxReconnects
      OBVIOUS
    <3>1. PolicySound(srv.policy[s])
      BY DEF IInv, ServersPlaced, Good, ServersSound
    <3> DEFINE p == srv.policy[s]
    <3>2. p.due \in {"now", "later", "never"}
      BY <3>1 DEF PolicySound, Policy
    <3> QED BY <3>1, <3>2 DEF PolicySound
  <2>8. search \in SearchRecord \cup {NoSearch} /\ saveDue \in BOOLEAN
    BY DEF IInv, SearchPlaced
  <2>9. /\ loop.at \in LoopPlaces /\ api.at \in ApiPlaces /\ loop.todo \in Seq(Conns)
        /\ {loop.conn, api.conn} \subseteq DOMAIN srv.conn \cup {NoConn}
        /\ loop.servers \subseteq Servers /\ loop.server \in Servers \cup {NoConn}
        /\ {transfers, watch.seen, api.seen} \subseteq Snapshots
    BY <2>1, <2>2, <2>6 DEF LoopRecord, ApiRecord, Held
  <2> QED BY <2>1, <2>3, <2>4, <2>5, <2>6, <2>7, <2>8, <2>9, ServersType DEF TypeOK, LifeRecord
<1> QED BY <1>1, Invariant, PTL
=============================================================================
