---------------------------- MODULE PortMapping ----------------------------
(***************************************************************************)
(* The ports that a session asks gateways to map: upnp.go, and the part of *)
(* session.go that starts and stops it, as functions of the record p.      *)
(* The goroutine of a manager discovers gateways and asks each to map the  *)
(* ports; a manager that is stopped is waited for, and its mappings are    *)
(* deleted. Client has the goroutine, and the callers of Start and Stop.   *)
(***************************************************************************)
EXTENDS Integers, Sequences, FiniteSets

CONSTANTS
  Gateways,   \* the devices that discovery may find
  NoManager   \* session.upnp is nil

\* Start makes at most two managers; Listen the first.
Managers == 1..2

ASSUME PortMappingAssumption == NoManager \notin Managers \cup Gateways

TCP == "tcp"
UDP == "udp"
Mappings == Gateways \X {TCP, UDP}

\* at: MapContext begins, discovers, asks the gateways, or has returned.
\* ended: ctx.Err() is not nil, by its time-out or by cancel. todo: gateways
\* that are left; gateway, ports: the one that is asked, and what for. mapped:
\* the local variable, which becomes mappings at the end.
ManagerRecord ==
  [at : {"begins", "discovers", "asks", "done"}, ended : BOOLEAN, todo : SUBSET Gateways,
   gateway : Gateways \cup {NoManager}, wanted : Seq({TCP, UDP}), ports : Seq({TCP, UDP}),
   mapped : SUBSET Mappings, mappings : SUBSET Mappings]

\* current: session.upnp; stopping: the manager in stop. router: what gateways
\* map; astray: mappings of which an answer was lost, or which could not be
\* deleted. Of astray the code knows nothing; a property refers to it.
NewPorts == [manager |-> << >>, current |-> NoManager, stopping |-> NoManager,
             router |-> {}, astray |-> {}]

PortsTyped(p) ==
  /\ DOMAIN p.manager \subseteq Managers
  /\ \A k \in DOMAIN p.manager : p.manager[k] \in ManagerRecord
  /\ {p.current, p.stopping} \subseteq DOMAIN p.manager \cup {NoManager}
  /\ p.router \cup p.astray \subseteq Mappings

\* desiredUPnPPortMappings: the UDP port if the DHT is enabled and the port is
\* known. ListenPort is not negative here: there is a listener.
Desired(udp) == IF udp THEN <<TCP, UDP>> ELSE <<TCP>>

startUPnPMapping(p, udp) ==
  LET new == [at |-> "begins", ended |-> FALSE, todo |-> {}, gateway |-> NoManager,
              wanted |-> Desired(udp), ports |-> << >>,
              mapped |-> {}, mappings |-> {}]
  IN IF p.current # NoManager THEN p
     ELSE [p EXCEPT !.manager = Append(@, new), !.current = Len(p.manager) + 1]

\* stopUPnPMapping, up to the wait for the goroutine
Cancelled(p) ==
  IF p.current = NoManager THEN p
  ELSE [p EXCEPT !.manager[p.current].ended = TRUE, !.stopping = p.current,
                 !.current = NoManager]

Stopped(p) == p.stopping = NoManager

\* Mutant: stop does not wait for the goroutine.
NotWaited(p) == TRUE

\* Close may begin. It takes a copy of the mappings and deletes one by one.
MapperDone(p) == p.manager[p.stopping].at = "done"
Undeleted(p) == p.manager[p.stopping].mappings
DeletePortMapping(p, mapping, ok) ==
  [p EXCEPT !.manager[p.stopping].mappings = @ \ {mapping},
            !.router = IF ok THEN @ \ {mapping} ELSE @,
            !.astray = IF ok THEN @ ELSE @ \cup {mapping}]
Closed(p) == [p EXCEPT !.stopping = NoManager]
----------------------------------------------------------------------------
\* MapContext of manager k
Begin(p, k) ==
  [p EXCEPT !.manager[k].at = IF p.manager[k].ended THEN "done" ELSE "discovers"]

\* The devices that answer, and whether an interface listened up to the time-out
\* of the discovery. That is what is left of the time-out of the context when
\* the discovery begins, so the context has then ended. An interface listens on
\* unless it cannot be opened or read from.
Discoveries == (SUBSET Gateways) \X BOOLEAN

Discover(p, k, found, listened) ==
  [p EXCEPT !.manager[k].at = IF found = {} THEN "done" ELSE "asks",
            !.manager[k].todo = found, !.manager[k].ended = @ \/ listened]

NextGateway(p, k) ==
  LET m == p.manager[k]
  IN IF m.todo = {} \/ m.ended
     THEN {[p EXCEPT !.manager[k].at = "done", !.manager[k].todo = {},
                     !.manager[k].gateway = NoManager, !.manager[k].mapped = {},
                     !.manager[k].mappings = m.mapped]}
     ELSE {[p EXCEPT !.manager[k].todo = @ \ {g}, !.manager[k].gateway = g,
                     !.manager[k].ports = m.wanted] : g \in m.todo}

\* A request may be done though its answer is lost.
AddPortMapping(p, k, outcome) ==
  LET mapping == <<p.manager[k].gateway, Head(p.manager[k].ports)>>
  IN [p EXCEPT !.manager[k].ports = Tail(@),
               !.manager[k].mapped = IF outcome = "mapped" THEN @ \cup {mapping} ELSE @,
               !.router = IF outcome = "refused" THEN @ ELSE @ \cup {mapping},
               !.astray = CASE outcome = "mapped" -> @ \ {mapping}
                            [] outcome = "lost" -> @ \cup {mapping}
                            [] OTHER -> @]

\* What some manager will delete when it is stopped
Known(p) ==
  UNION {p.manager[k].mapped \cup p.manager[k].mappings :
           k \in {p.current, p.stopping} \ {NoManager}}
=============================================================================
