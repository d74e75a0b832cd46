---------------------------- MODULE SourceTimers -----------------------------
(***************************************************************************)
(* When a transfer asks for sources: the two timers of transfer.go and the *)
(* ticks and requests that move them, as functions of the record t of its  *)
(* next requests. Times are in milliseconds of CurrentTime(), which does   *)
(* not go back. Candidates are the peers a connection can be tried with.   *)
(***************************************************************************)
EXTENDS Integers

Seconds(n) == 1000 * n
Minutes(n) == 60000 * n

Timers == [servers : Nat, dht : Nat]
NewTimers == [servers |-> 0, dht |-> 0]

\* a transfer is [state, finished], limit is SessionConnectionsLimit
NeedMoreSources(transfer, active, limit) ==
  transfer.state = "running" /\ ~transfer.finished /\ active < limit

nextServerSourcesInterval(active, candidates, sent) ==
  IF active = 0 /\ candidates = 0 THEN Seconds(5)
  ELSE IF ~sent \/ active <= 1 \/ candidates <= 1 THEN Seconds(10) ELSE Minutes(1)

nextDHTSourcesInterval(active, candidates, sent) ==
  IF active = 0 /\ candidates = 0 THEN Seconds(30)
  ELSE IF ~sent \/ active <= 1 \/ candidates <= 1 THEN Minutes(1) ELSE Minutes(2)

\* A request goes to every server whose handshake is complete; the DHT is asked
\* when there is a tracker that takes the search.
SendSourcesRequest(handshaken) == handshaken # {}
SendDHTSourcesRequest(tracker, takes) == tracker /\ takes

\* The peers that an answer of the DHT adds, if the transfer is still there
DHTSources(current, transfer, endpoints) == IF current = transfer THEN endpoints ELSE {}

\* A tick of a transfer with few peers draws its timers near, ...
Starving(active, candidates) == active <= 1 /\ candidates <= 1

DrawnNear(t, now, active, candidates) ==
  [servers |-> IF Starving(active, candidates) /\ t.servers > now + Seconds(5)
               THEN now ELSE t.servers,
   dht     |-> IF Starving(active, candidates) /\ t.dht > now + Seconds(10)
               THEN now ELSE t.dht]

\* ... and asks when they are due: the servers at the time, the DHT after it.
AsksServers(t, now, active, candidates) ==
  DrawnNear(t, now, active, candidates).servers <= now
AsksDHT(t, now, active, candidates) ==
  DrawnNear(t, now, active, candidates).dht < now

SecondTick(t, now, active, candidates, toServers, toDHT) ==
  [servers |-> IF AsksServers(t, now, active, candidates)
               THEN now + nextServerSourcesInterval(active, candidates, toServers)
               ELSE DrawnNear(t, now, active, candidates).servers,
   dht     |-> IF AsksDHT(t, now, active, candidates)
               THEN now + nextDHTSourcesInterval(active, candidates, toDHT)
               ELSE DrawnNear(t, now, active, candidates).dht]

\* Of a transfer that is resumed; RequestSourcesNow begins with it too
ForceSourceDiscoveryNow(t) == NewTimers

\* It asks at once; known is the size of the list of peers.
RequestSourcesNow(t, transfer, now, active, known, toServers, toDHT) ==
  IF transfer.state # "running" \/ transfer.finished THEN t
  ELSE [servers |-> now + nextServerSourcesInterval(active, known, toServers),
        dht     |-> now + nextDHTSourcesInterval(active, known, toDHT)]
=============================================================================
