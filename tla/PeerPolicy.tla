----------------------------- MODULE PeerPolicy -----------------------------
(***************************************************************************)
(* The peer list of a transfer: policy.go and peer.go, as functions of the *)
(* record m of a Go slice of Peer values. Connections hold pointers into   *)
(* its array. An insertion shifts the later elements under these pointers  *)
(* or, when the array is full, moves all of them to a new one and leaves   *)
(* the pointers at the old; a deletion shifts them back and clears the end.*)
(*                                                                         *)
(* Left out: NextConnection, which is never set; the clock, the round robin*)
(* and the order of candidates that have failed equally often; of the      *)
(* sources of a peer all but PeerResume; what FindConnectCandidate does    *)
(* with more than MaxPeerListSize peers, which AddPeer does not let in; and*)
(* reads that meet a half-written list, as it is read without the lock.    *)
(***************************************************************************)
EXTENDS Integers, Sequences, SequencesExt, FiniteSets

CONSTANTS
  Endpoints,        \* integers, in the order of Endpoint.Compare
  Conns,            \* PeerConnection objects, 1 up to their number
  MaxPeerListSize,  \* 100
  LowWatermark,     \* MaxPeerListSize * 95 / 100
  MaxFails          \* 10

ASSUME PeerPolicyAssumption ==
  /\ Endpoints \subseteq Nat \ {0} /\ Conns \subseteq Nat \ {0}
  /\ MaxPeerListSize \in Nat \ {0} /\ MaxFails \in Nat
  /\ LowWatermark \in 1..MaxPeerListSize - 1

NoEndpoint == 0
NoConn == 0

\* tried: LastConnected is set. A count of failures above the limit stays.
Peer == [ep : Endpoints \cup {NoEndpoint}, fails : 0..MaxFails + 1, tried : BOOLEAN,
         connectable : BOOLEAN, resume : BOOLEAN, conn : Conns \cup {NoConn}]
NewPeer(e, connectable, resume) ==
  [ep |-> e, fails |-> 0, tried |-> FALSE, connectable |-> connectable,
   resume |-> resume, conn |-> NoConn]
ZeroPeer == NewPeer(NoEndpoint, FALSE, FALSE)

\* arrays: each as long as its capacity; live: the one the slice is in, len of
\* whose elements are the list. A pointer is <<array, position>>.
NewPolicy == [arrays |-> << << >> >>, live |-> 1, len |-> 0]
Nil == << >>
Peers(m) == SubSeq(m.arrays[m.live], 1, m.len)
At(m, ptr) == m.arrays[ptr[1]][ptr[2]]
Set(m, ptr, p) == [m EXCEPT !.arrays[ptr[1]][ptr[2]] = p]

IsConnectCandidate(p) == p.conn = NoConn /\ p.connectable /\ p.fails <= MaxFails
IsEraseCandidate(p) == p.conn = NoConn /\ ~IsConnectCandidate(p) /\ p.fails > 0

\* Get, FindPeer
Find(m, e) == {i \in 1..m.len : Peers(m)[i].ep = e}

\* slices.Insert: a full array is doubled.
Inserted(m, i, p) ==
  LET old == m.arrays[m.live]
      new == SubSeq(old, 1, i - 1) \o <<p>> \o SubSeq(old, i, m.len)
      cap == IF m.len < Len(old) THEN Len(old)
             ELSE IF old = << >> THEN 1 ELSE 2 * Len(old)
      array == new \o [j \in 1..cap - m.len - 1 |-> ZeroPeer]
  IN IF m.len < Len(old) THEN [m EXCEPT !.arrays[m.live] = array, !.len = @ + 1]
     ELSE [arrays |-> Append(m.arrays, array), live |-> Len(m.arrays) + 1,
           len |-> m.len + 1]

\* slices.Delete
Deleted(m, i) ==
  LET old == m.arrays[m.live]
  IN [m EXCEPT !.len = @ - 1,
               !.arrays[m.live] = SubSeq(old, 1, i - 1) \o SubSeq(old, i + 1, m.len)
                                    \o <<ZeroPeer>> \o SubSeq(old, m.len + 1, Len(old))]

\* ComparePeerErase: p goes before q.
GoesFirst(p, q) ==
  IF p.fails # q.fails THEN p.fails > q.fails
  ELSE IF p.resume # q.resume THEN p.resume
  ELSE p.connectable # q.connectable /\ ~p.connectable

\* One iteration of ErasePeers; best = 0 is eraseCandidate = -1. The position
\* goes back to the first only from exactly one past the last: after the last
\* element was erased it is two past, and the access out of range panics.
EraseStep(w) ==
  LET at == IF w.at = w.m.len + 1 THEN 1 ELSE w.at
      p == Peers(w.m)[at]
      better == IsEraseCandidate(p)
                  /\ (w.best = 0 \/ ~GoesFirst(Peers(w.m)[w.best], p))
  IN IF w.panic \/ w.m.len < LowWatermark THEN w
     ELSE IF at > w.m.len THEN [w EXCEPT !.panic = TRUE]
     ELSE IF better /\ p.resume
          THEN [w EXCEPT !.m = Deleted(@, at), !.at = at + 1,
                         !.best = IF @ > at THEN @ - 1 ELSE @]
     ELSE [w EXCEPT !.at = at + 1, !.best = IF better THEN at ELSE @]

\* ErasePeers from a position drawn at random: an iteration for each peer
EraseBest(w) == IF w.panic \/ w.best = 0 THEN w ELSE [w EXCEPT !.m = Deleted(@, w.best)]
ErasePeers(m, start) ==
  LET now[k \in 0..m.len] ==
        IF k = 0 THEN [m |-> m, at |-> start, best |-> 0, panic |-> FALSE]
        ELSE EraseStep(now[k - 1])
  IN EraseBest(now[m.len])

\* Mutant: a peer that is known is inserted again.
AddTwice(m, p, start) ==
  LET before == {i \in 1..m.len : Peers(m)[i].ep < p.ep}
  IN [m |-> IF m.len >= MaxPeerListSize THEN m ELSE Inserted(m, Cardinality(before) + 1, p),
      panic |-> FALSE]

\* AddPeer: the list after it, and whether it panicked. A peer that is known
\* keeps its entry and gets the new source.
Known(q, p) == [q EXCEPT !.resume = @ \/ p.resume]
Insert(m, p) ==
  LET known == Find(m, p.ep)
      before == {i \in 1..m.len : Peers(m)[i].ep < p.ep}
  IN IF m.len >= MaxPeerListSize THEN m
     ELSE IF known = {} THEN Inserted(m, Cardinality(before) + 1, p)
     ELSE [m EXCEPT !.arrays[m.live] =
             [i \in DOMAIN @ |-> IF i \in known THEN Known(@[i], p) ELSE @[i]]]
AddInto(room, p) == [m |-> IF room.panic THEN room.m ELSE Insert(room.m, p), panic |-> room.panic]
AddPeer(m, p, start) ==
  AddInto(IF m.len >= MaxPeerListSize THEN ErasePeers(m, start) ELSE [m |-> m, panic |-> FALSE], p)

\* FindConnectCandidate: the peers it may return. One that was tried is due
\* for another attempt, or not yet.
Candidates(m) ==
  LET P == Peers(m)
      able == {i \in 1..m.len : IsConnectCandidate(P[i])}
  IN {i \in able : \A j \in able : ~P[j].tried => P[i].fails <= P[j].fails}
NoneDue(m) == \A i \in 1..m.len : IsConnectCandidate(Peers(m)[i]) => Peers(m)[i].tried

NumConnectCandidates(m) ==
  Cardinality({i \in 1..m.len : IsConnectCandidate(Peers(m)[i])})

\* ResumeWithState: peers without a connection may be tried at once.
ForgetTimes(m) ==
  [m EXCEPT !.arrays[m.live] =
     [i \in DOMAIN @ |-> IF i <= m.len /\ @[i].conn = NoConn
                         THEN [@[i] EXCEPT !.tried = FALSE] ELSE @[i]]]

\* Only an array that is referred to is kept.
Collected(m, pointers) ==
  [m EXCEPT !.arrays = [a \in DOMAIN @ |-> IF a = m.live \/ \E p \in pointers : p # Nil /\ p[1] = a
                                           THEN @[a] ELSE << >>]]

\* ConnectionClosed, for a pointer of the connection. The entry to delete is
\* sought by the endpoint that is now under the pointer.
ConnectionClosed(m, ptr, paused, failed) ==
  LET p == At(m, ptr)
      told == [p EXCEPT !.conn = NoConn, !.tried = ~paused,
                        !.fails = IF failed /\ ~paused /\ @ <= MaxFails THEN @ + 1 ELSE @]
      n == Set(m, ptr, told)
      gone == Find(n, p.ep)
  IN IF paused \/ p.connectable \/ gone = {} THEN n
     ELSE Deleted(n, CHOOSE i \in gone : \A j \in gone : i <= j)
=============================================================================
