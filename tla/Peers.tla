-------------------------------- MODULE Peers --------------------------------
(***************************************************************************)
(* The connections of one transfer to its peers (session.go, transfer.go,  *)
(* peer_connection.go) over the peer list of PeerPolicy. The tick handles  *)
(* the connections one by one, then opens new ones: it finds a candidate   *)
(* without the lock, registers a connection under the lock, and dials      *)
(* without it. Meanwhile other goroutines add peers, pause and resume.     *)
(***************************************************************************)
EXTENDS PeerPolicy, Frames, FiniteSetsExt

CONSTANTS
  ConnectionsLimit, \* SessionConnectionsLimit
  ConnectsPerTick,  \* MaxConnectionsPerSecond
  MaxRead,          \* the buffer of DoRead, 16 KB
  Budgets           \* the list of peers in the resume data, and how often peers are
                    \* added or accepted, the transfer paused, and bytes read

\* What a transfer has saved of its list of peers (transfer.go:282)
ASSUME PeersAssumption ==
  \A budget \in Budgets :
    LET eps == budget.restored IN
    /\ eps \in Seq(Endpoints) /\ Len(eps) <= MaxPeerListSize
    /\ \A i, j \in 1..Len(eps) : i < j => eps[i] < eps[j]

VARIABLES
  policy,       \* Transfer.policy
  panicked,     \* the process has ended with an access out of range
  conns,        \* the connections
  session,      \* Session.connections
  transfer,     \* Transfer.connections
  pause,        \* Transfer.pause
  tick,         \* where the goroutine that ticks is
  left

vars == <<policy, panicked, conns, session, transfer, pause, tick, left>>

\* state: "new" before it is made, "open", "closing" from Close until OnDisconnect,
\* "gone"; paused: the code of Close is TransferPaused; of: its transfer is set;
\* peer: its peerInfo; in: what it reads, where the budget has reads.
NewConnection(e, out) ==
  [state |-> "open", paused |-> FALSE, out |-> out, ep |-> e, of |-> out, peer |-> Nil,
   in |-> NewStream]
NoConnection(state) == [NewConnection(NoEndpoint, FALSE) EXCEPT !.state = state]
Unused == {c \in Conns : conns[c].state = "new"}

Idle == [at |-> "idle", todo |-> {}, steps |-> 0, more |-> 0, peer |-> Nil, conn |-> NoConn]

Pointers == {conns[c].peer : c \in Conns} \cup {tick.peer}
\* The list after a step, without what only the garbage collector would see
SetPolicy(m, pointers) == policy' = Collected(m, pointers)

\* Where ErasePeers may start, should it be needed
Starts == IF policy.len >= MaxPeerListSize THEN 1..policy.len ELSE {1}

\* restoreResumeData: AddPeer of new peers, in ascending order
Restore(eps) ==
  LET now[k \in 0..Len(eps)] ==
        IF k = 0 THEN NewPolicy ELSE Inserted(now[k - 1], k, NewPeer(eps[k], TRUE, TRUE))
  IN now[Len(eps)]

Init ==
  /\ left \in Budgets
  /\ policy = Collected(Restore(left.restored), {})
  /\ panicked = FALSE
  /\ conns = [c \in Conns |-> NoConnection("new")]
  /\ session = {} /\ transfer = {} /\ pause = FALSE
  /\ tick = Idle

-----------------------------------------------------------------------------
(* Other goroutines *)

\* Transfer.AddPeer, for a source that a server or the DHT has found
Add(e) ==
  \E start \in Starts :
    LET r == AddPeer(policy, NewPeer(e, TRUE, FALSE), start) IN
    /\ left.adds > 0 /\ ~panicked
    /\ SetPolicy(r.m, Pointers)
    /\ panicked' = r.panic
    /\ left' = [left EXCEPT !.adds = @ - 1]
    /\ UNCHANGED <<conns, session, transfer, pause, tick>>

Closed(c, byPause) ==
  IF conns[c].state = "open" THEN [conns[c] EXCEPT !.state = "closing", !.paused = byPause] ELSE conns[c]

PauseWithDisconnect ==
  /\ left.pauses > 0 /\ ~panicked
  /\ pause' = TRUE
  /\ conns' = [c \in Conns |-> IF c \in transfer THEN Closed(c, TRUE) ELSE conns[c]]
  /\ transfer' = {}
  /\ left' = [left EXCEPT !.pauses = @ - 1]
  /\ UNCHANGED <<policy, panicked, session, tick>>

ResumeWithState ==
  /\ pause /\ ~panicked
  /\ pause' = FALSE
  /\ SetPolicy(ForgetTimes(policy), Pointers)
  /\ UNCHANGED <<panicked, conns, session, transfer, tick, left>>

-----------------------------------------------------------------------------
(* PumpIO *)

\* acceptIncomingConnections
Accept(e) ==
  /\ tick.at = "idle" /\ ~panicked /\ left.accepts > 0 /\ Unused # {}
  /\ conns' = [conns EXCEPT ![Min(Unused)] = NewConnection(e, FALSE)]
  /\ session' = session \cup {Min(Unused)}
  /\ left' = [left EXCEPT !.accepts = @ - 1]
  /\ UNCHANGED <<policy, panicked, transfer, pause, tick>>

StartTick ==
  /\ tick.at = "idle" /\ ~panicked
  /\ tick' = [Idle EXCEPT !.at = "pump", !.todo = session]
  /\ UNCHANGED <<policy, panicked, conns, session, transfer, pause, left>>

Serving(c) == tick.at = "pump" /\ ~panicked /\ tick.todo # {} /\ c = Min(tick.todo)
\* ... while it is not in the middle of what was read
Turn(c) == Serving(c) /\ conns[c].in.step = "idle"
EndTurn == tick' = [tick EXCEPT !.todo = @ \ {Min(@)}]

\* Mutant: the connection stays in the transfer's list.
RemoveFromPolicyOnly(c, byPause) ==
  /\ SetPolicy(IF conns[c].peer = Nil THEN policy
               ELSE ConnectionClosed(policy, conns[c].peer, byPause, TRUE),
               {conns[d].peer : d \in Conns \ {c}})
  /\ UNCHANGED transfer

\* Mutant: the policy is not told.
RemoveFromTransferOnly(c, byPause) == transfer' = transfer \ {c} /\ UNCHANGED policy

\* A pause is no failure, nor is a close for want of blocks to ask for, which may
\* be why the connection was closed (peer_connection.go:213 and 1026).
RemovePeerConnection(c, byPause) ==
  /\ \E failed \in BOOLEAN :
       SetPolicy(IF conns[c].peer = Nil THEN policy
                 ELSE ConnectionClosed(policy, conns[c].peer, byPause, failed),
                 {conns[d].peer : d \in Conns \ {c}})
  /\ transfer' = transfer \ {c}

\* Mutant: only connections the transfer still lists are removed.
ForgetListed(c, byPause) ==
  IF c \in transfer
  THEN RemovePeerConnection(c, byPause) /\ session' = session \ {c}
  ELSE UNCHANGED <<policy, transfer, session>>

\* OnDisconnect, with CloseConnection; the mark that it was called is "gone"
OnDisconnect(c, byPause) ==
  /\ IF conns[c].of THEN RemovePeerConnection(c, byPause) ELSE UNCHANGED <<policy, transfer>>
  /\ session' = session \ {c}

HandleDisconnect(c, byPause) ==
  /\ OnDisconnect(c, byPause)
  /\ conns' = [conns EXCEPT ![c] = NoConnection("gone")]
  /\ EndTurn
  /\ UNCHANGED <<panicked, pause, left>>

\* Closed before its turn came
Disconnect(c) == Turn(c) /\ conns[c].state = "closing" /\ HandleDisconnect(c, conns[c].paused)

\* Closed by what was read or could not be written
Fail(c) == Turn(c) /\ conns[c].state = "open" /\ HandleDisconnect(c, FALSE)

Stay(c) ==
  /\ Turn(c) /\ conns[c].state = "open" /\ EndTurn
  /\ UNCHANGED <<policy, panicked, conns, session, transfer, pause, left>>

\* DoRead, and what ProcessIncoming or ReceivePendingData makes of it. The
\* connection may be closed meanwhile; the frames are handled nevertheless.
Read(c, n) ==
  /\ Turn(c) /\ conns[c].state = "open" /\ conns[c].of /\ ~conns[c].in.lost
  /\ left.reads > 0 /\ conns[c].in.have + n <= Begin[Count + 1]
  /\ conns' = [conns EXCEPT ![c].in = DoRead(@, n)]
  /\ left' = [left EXCEPT !.reads = @ - 1]
  /\ UNCHANGED <<policy, panicked, session, transfer, pause, tick>>

ProcessIncoming(c) ==
  /\ Serving(c)
  /\ \E f \in Serve(conns[c].in) : conns' = [conns EXCEPT ![c].in = f]
  /\ UNCHANGED <<policy, panicked, session, transfer, pause, tick, left>>

\* AttachIncomingPeer for a request of the file, with NewConnection. A peer that
\* is connected already, or that the list has no room for, is refused, and the
\* caller closes the connection.
Attach(c) ==
  /\ Turn(c) /\ conns[c].state = "open" /\ ~conns[c].of
  /\ \E start \in Starts :
       LET e == conns[c].ep
           known == Find(policy, e) # {}
           r == IF known THEN [m |-> policy, panic |-> FALSE]
                ELSE AddPeer(policy, NewPeer(e, FALSE, FALSE), start)
           at == {<<r.m.live, i>> : i \in {j \in Find(r.m, e) : Peers(r.m)[j].conn = NoConn}}
       IN /\ panicked' = r.panic
          /\ IF r.panic
             THEN policy' = r.m /\ UNCHANGED <<conns, session, transfer, tick>>
             ELSE /\ EndTurn
                  /\ IF at = {}
                     THEN /\ SetPolicy(r.m, Pointers)
                          /\ conns' = [conns EXCEPT ![c] = NoConnection("gone")]
                          /\ session' = session \ {c}
                          /\ UNCHANGED transfer
                     ELSE \E ptr \in at :
                          /\ SetPolicy(Set(r.m, ptr, [At(r.m, ptr) EXCEPT !.conn = c]),
                                       Pointers \cup {ptr})
                          /\ conns' = [conns EXCEPT ![c].of = TRUE, ![c].peer = ptr]
                          /\ transfer' = transfer \cup {c}
                          /\ UNCHANGED session
  /\ UNCHANGED <<pause, left>>

-----------------------------------------------------------------------------
(* Transfer.SecondTick and ConnectNewPeers *)

\* Some connections have timed out. The limit is compared once, before any
\* candidate is tried.
TickTransfer ==
  /\ tick.at = "pump" /\ tick.todo = {} /\ ~panicked
  /\ \E late \in SUBSET {c \in transfer : conns[c].state = "open"} :
       conns' = [c \in Conns |-> IF c \in late THEN Closed(c, FALSE) ELSE conns[c]]
  /\ tick' = IF Cardinality(session) < ConnectionsLimit
             THEN [Idle EXCEPT !.at = "connect", !.more = ConnectsPerTick] ELSE Idle
  /\ UNCHANGED <<policy, panicked, session, transfer, pause, left>>

\* The end of one iteration for the only transfer
EndStep(connected) ==
  LET steps == (IF connected THEN 0 ELSE tick.steps) + 1
      more == IF connected THEN tick.more - 1 ELSE tick.more
  IN tick' = IF steps > 2 \/ more = 0 THEN Idle
             ELSE [Idle EXCEPT !.at = "connect", !.steps = steps, !.more = more]

\* WantMorePeers, FindConnectCandidate; the number of connections is a bound of
\* the model.
FindConnectCandidate ==
  /\ tick.at = "connect" /\ ~panicked
  /\ \/ ~pause /\ Unused # {} /\ \E i \in Candidates(policy) :
          tick' = [tick EXCEPT !.at = "found", !.peer = <<policy.live, i>>]
     \/ (pause \/ NoneDue(policy)) /\ EndStep(FALSE)
     \/ Unused = {} /\ tick' = Idle
  /\ UNCHANGED <<policy, panicked, conns, session, transfer, pause, left>>

\* ConnectToPeer up to the dial, for what is now under the pointer
ConnectToPeer ==
  LET ptr == tick.peer
      c == Min(Unused)
  IN /\ tick.at = "found" /\ ~panicked
     /\ SetPolicy(Set(policy, ptr, [At(policy, ptr) EXCEPT !.conn = c, !.tried = TRUE]), Pointers)
     /\ conns' = [conns EXCEPT ![c] = [NewConnection(At(policy, ptr).ep, TRUE) EXCEPT !.peer = ptr]]
     /\ session' = session \cup {c}
     /\ transfer' = transfer \cup {c}
     /\ tick' = [tick EXCEPT !.at = "dialing", !.conn = c]
     /\ UNCHANGED <<panicked, pause, left>>

\* The dial has succeeded: the connection is stored once more.
Dialed ==
  /\ tick.at = "dialing" /\ ~panicked /\ conns[tick.conn].ep # NoEndpoint
  /\ SetPolicy(Set(policy, tick.peer, [At(policy, tick.peer) EXCEPT !.conn = tick.conn]),
               {conns[c].peer : c \in Conns})
  /\ EndStep(TRUE)
  /\ UNCHANGED <<panicked, conns, session, transfer, pause, left>>

DialFailed ==
  /\ tick.at = "dialing" /\ ~panicked
  /\ conns' = [conns EXCEPT ![tick.conn] = Closed(tick.conn, FALSE)]
  /\ EndStep(FALSE)
  /\ SetPolicy(policy, {conns[c].peer : c \in Conns})
  /\ UNCHANGED <<panicked, session, transfer, pause, left>>

Tick ==
  \/ StartTick \/ TickTransfer \/ FindConnectCandidate \/ ConnectToPeer \/ Dialed \/ DialFailed
  \/ \E c \in Conns : Disconnect(c) \/ Fail(c) \/ Stay(c) \/ Attach(c) \/ ProcessIncoming(c)
                     \/ \E n \in 1..MaxRead : Read(c, n)

Next ==
  \/ \E e \in Endpoints : Add(e) \/ Accept(e)
  \/ PauseWithDisconnect \/ ResumeWithState
  \/ Tick

\* The loop goes on, and every dial ends.
Spec == Init /\ [][Next]_vars /\ WF_vars(Tick)

-----------------------------------------------------------------------------
(* Properties *)

\* The peer list stays sorted by endpoint, without duplicates and within its
\* size (policy.go:50: AddPeer searches it by bisection), whatever is shifted
\* under the pointers that connections hold.
TypeOK ==
  /\ policy.len \in 0..MaxPeerListSize /\ policy.live \in DOMAIN policy.arrays
  /\ \A a \in DOMAIN policy.arrays : policy.arrays[a] \in Seq(Peer)
  /\ \A i, j \in 1..policy.len : i < j => Peers(policy)[i].ep < Peers(policy)[j].ep
  /\ \A i \in 1..policy.len : Peers(policy)[i].ep # NoEndpoint
  /\ \A p \in Pointers : p = Nil \/ p[2] \in DOMAIN policy.arrays[p[1]]

\* The transfer's list of connections (transfer.go:165, 181, 230, 508) holds
\* only connections of the session, which are those that were made and whose
\* end was not yet handled: none is ticked after that, none is lost before.
ListsAgree ==
  /\ transfer \subseteq session
  /\ session = {c \in Conns : conns[c].state \in {"open", "closing"}}

\* ErasePeers makes room at the cost of peers that have failed only
\* (policy.go:66): while a peer may be connected, or is, it leaves the list
\* by the end of a connection at most.
CandidatesStay ==
  [][(\A c \in Conns : conns'[c].state = "gone" => conns[c].state = "gone") =>
       \A i \in 1..policy.len :
         LET p == Peers(policy)[i] IN
         p.conn # NoConn \/ IsConnectCandidate(p) => Find(policy', p.ep) # {}]_vars

\* After the end of a connection its peer may be connected again
\* (transfer_test.go:111). Insertions and erasures shift the entries, and a
\* connection then frees another one (policy.go:62), or two entries have it; but
\* as long as the pointers of the connections lead to the entries that have them,
\* no entry keeps a connection that was removed.
OwnEntry(c) ==
  \A i \in 1..policy.len :
    Peers(policy)[i].conn = c => conns[c].peer = <<policy.live, i>>
Lost == {i \in 1..policy.len : Peers(policy)[i].conn \notin session \cup {NoConn}}
LostByShiftsOnly == [][(\A c \in session : OwnEntry(c)) /\ Lost = {} => Lost' = {}]_vars

\* The list of peers forgets neither a peer that is of use nor, but for
\* shifts, that one is free again (policy.go:66, 205).
ListKeepsPeers == CandidatesStay /\ LostByShiftsOnly

\* A peer's frames are handled in their order, once each, and its file data goes
\* where it was announced, however its bytes are cut into reads (connection.go:
\* 218, transfer_test.go:533), up to a read that ends within a header.
FramesInOrder == \A c \in Conns : InStep(conns[c].in)

\* A connection that was closed is removed from the session by one of the next
\* ticks, also when a pause has dropped it from the transfer's list
\* (session.go:458, transfer.go:515).
ClosedAreRemoved ==
  \A c \in Conns : conns[c].state = "closing" ~> c \notin session \/ panicked

=============================================================================
