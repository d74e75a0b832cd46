----------------------------- MODULE KadTable ------------------------------
(***************************************************************************)
(* The contacts of the DHT and their routing table: kad_routing.go and     *)
(* what dht_tracker.go does to it.                                         *)
(*                                                                         *)
(* A table is a record with (at least) the fields                          *)
(*   nodes   the contacts, by a key that stands for the *KadRoutingNode    *)
(*   at      the map DHTTracker.nodes, from an address to a contact: no    *)
(*           entry ever leaves it                                          *)
(*   live, repl   the two lists of every bucket, of contacts               *)
(* and a contact has the address and the identifier it has now, whether it *)
(* was greeted, whether it ever answered, and how often it failed. The     *)
(* contact of an address may have another address by now. Times are left   *)
(* out: which bucket is idle is a choice of the clock.                     *)
(***************************************************************************)
EXTENDS Integers, FiniteSets, SequencesExt

CONSTANTS
  Addrs,        \* UDP addresses
  Bits,         \* bits of an identifier: 128, in bytes of ByteBits
  ByteBits,
  Self,         \* selfID
  BucketSize,   \* kadRoutingTable.bucketSize
  MaxFails      \* failures after which an answering contact is dropped (20)

Ids == [1..Bits -> {0, 1}]
NoId == << >>                   \* protocol.Invalid

ASSUME TableAssumption ==
  /\ IsFiniteSet(Addrs)
  /\ Bits \in Nat \ {0} /\ ByteBits \in Nat \ {0}
  /\ Self \in Ids
  /\ BucketSize \in Nat \ {0}
  /\ MaxFails \in Nat \ {0}

Buckets == 1..Bits

\* What becomes of w when Op is done for each element of a list, in order
After(w, Op(_, _), list) ==
  LET now[i \in 0..Len(list)] == IF i = 0 THEN w ELSE Op(now[i - 1], list[i])
  IN now[Len(list)]

\* The position of the first bit that differs from Self; the last bucket
\* also takes Self.
BucketIndex(id) ==
  IF id = Self THEN Bits
  ELSE CHOOSE i \in Buckets : /\ id[i] # Self[i]
                              /\ \A j \in 1..(i - 1) : id[j] = Self[j]

\* An identifier of a bucket: the bits before it are those of Self, its bit
\* is flipped, the rest of its byte is Self's and the later bytes are drawn.
IdWithinBucket(index, drawn) ==
  [j \in Buckets |->
     IF j = index THEN 1 - Self[j]
     ELSE IF (j - 1) \div ByteBits <= (index - 1) \div ByteBits THEN Self[j]
     ELSE drawn[j]]

\* a is closer to target than b, by the XOR of their bits
Closer(a, b, target) ==
  \E i \in Buckets : /\ a[i] # b[i] /\ a[i] = target[i]
                     /\ \A j \in 1..(i - 1) : a[j] = b[j]

Contact == [addr : Addrs, id : Ids \cup {NoId}, hello : BOOLEAN,
            pinged : BOOLEAN, fails : 0..MaxFails]
NewContact(a) == [addr |-> a, id |-> NoId, hello |-> FALSE, pinged |-> FALSE,
                  fails |-> 0]

EmptyBuckets == [b \in Buckets |-> << >>]

\* findKadNode: the first contact of a list with the identifier or the
\* address of contact n, 0 if there is none.
Position(w, list, n) ==
  SelectInSeq(list, LAMBDA k : \/ /\ w.nodes[n].id # NoId
                                  /\ w.nodes[k].id = w.nodes[n].id
                               \/ w.nodes[k].addr = w.nodes[n].addr)

\* What a confirmation leaves of a contact
Confirmed(c) == [c EXCEPT !.pinged = TRUE, !.fails = 0]

\* A contact that is found again takes the address of the one that was met.
Refreshed(w, k, n, confirmed) ==
  LET met == [w.nodes[k] EXCEPT !.addr = w.nodes[n].addr]
  IN [w.nodes EXCEPT ![k] = IF confirmed THEN Confirmed(met) ELSE met]

\* A newcomer goes to the live list, else to the replacements, of which the
\* oldest gives way.
Newcomer(w, b, n, confirmed) ==
  LET seen == [w EXCEPT !.nodes[n] = IF confirmed THEN Confirmed(@) ELSE @]
  IN IF Len(w.live[b]) < BucketSize
     THEN [seen EXCEPT !.live[b] = Append(@, n)]
     ELSE IF Len(w.repl[b]) < BucketSize
          THEN [seen EXCEPT !.repl[b] = Append(@, n)]
          ELSE [seen EXCEPT !.repl[b] = Append(Tail(@), n)]

\* Mutant: a contact that is there already is taken for a newcomer.
AddNodeAgain(w, n, confirmed) ==
  IF w.nodes[n].id = NoId THEN w
  ELSE Newcomer(w, BucketIndex(w.nodes[n].id), n, confirmed)

\* addNode: HeardAbout, and NodeSeen when the contact has answered
AddNode(w, n, confirmed) ==
  LET b == BucketIndex(w.nodes[n].id)
      l == Position(w, w.live[b], n)
      r == Position(w, w.repl[b], n)
      rest == RemoveAt(w.repl[b], r)
  IN IF w.nodes[n].id = NoId THEN w
     ELSE IF l # 0
     THEN [w EXCEPT !.nodes = Refreshed(w, w.live[b][l], n, confirmed),
                    !.live[b] = Append(RemoveAt(@, l), @[l])]
     ELSE IF r # 0 /\ ~confirmed
     THEN [w EXCEPT !.nodes = Refreshed(w, w.repl[b][r], n, FALSE)]
     ELSE IF r # 0 /\ Len(w.live[b]) < BucketSize
     THEN [w EXCEPT !.nodes = Refreshed(w, w.repl[b][r], n, TRUE),
                    !.repl[b] = rest,
                    !.live[b] = Append(@, w.repl[b][r])]
     ELSE IF r # 0
     THEN [w EXCEPT !.nodes = Refreshed(w, w.repl[b][r], n, TRUE),
                    !.repl[b] = Append(rest, w.repl[b][r])]
     ELSE Newcomer(w, b, n, confirmed)

\* FailCount++; the count matters up to MaxFails only
Failed(c) == [c EXCEPT !.fails = IF @ < MaxFails THEN @ + 1 ELSE @]

\* NodeFailed: a contact that never answered is dropped; one that did makes
\* room for the first replacement, or goes after MaxFails failures.
NodeFailed(w, n) ==
  LET b == BucketIndex(w.nodes[n].id)
      l == Position(w, w.live[b], n)
      r == Position(w, w.repl[b], n)
      k == w.live[b][l]
      counted == [w EXCEPT !.nodes[k] = Failed(@)]
  IN IF w.nodes[n].id = NoId THEN w
     ELSE IF l # 0
     THEN IF ~w.nodes[k].pinged THEN [w EXCEPT !.live[b] = RemoveAt(@, l)]
          ELSE IF w.repl[b] # << >>
          THEN [counted EXCEPT !.live[b][l] = Head(w.repl[b]),
                               !.repl[b] = Tail(@)]
          ELSE IF counted.nodes[k].fails = MaxFails
          THEN [counted EXCEPT !.live[b] = RemoveAt(@, l)]
          ELSE counted
     ELSE IF r # 0 THEN [w EXCEPT !.repl[b] = RemoveAt(@, r)]
     ELSE w

\* The key of a new contact for an address: contacts that once had the address
\* may still stand in a bucket, under the keys before.
NewKey(w, a) ==
  <<a, Min({n \in 1..Cardinality(DOMAIN w.nodes) + 1 : <<a, n>> \notin DOMAIN w.nodes})>>
Keys == Addrs \X (Nat \ {0})

\* The map f with c under key k
Put(f, k, c) == [j \in DOMAIN f \cup {k} |-> IF j = k THEN c ELSE f[j]]

\* A contact c under key k for address a
PutContact(w, a, k, c) == [w EXCEPT !.nodes = Put(@, k, c), !.at = Put(@, a, k)]

\* The map with a contact for the address
Known(w, a) == IF a \in DOMAIN w.at THEN w
               ELSE PutContact(w, a, NewKey(w, a), NewContact(a))

\* What a contact is told to be
Told(c, a, id) == [c EXCEPT !.addr = a, !.id = IF id # NoId THEN id ELSE @]

\* addOrUpdateNodeLocked: the identifier is changed in place.
AddOrUpdate(w, id, a) ==
  LET v == Known(w, a)
      n == v.at[a]
  IN AddNode([v EXCEPT !.nodes[n] = Told(@, a, id)], n, FALSE)

\* confirmNodeLocked for the contact of an address
ConfirmNode(w, a) ==
  LET n == w.at[a]
  IN IF a \notin DOMAIN w.at THEN w
     ELSE IF w.nodes[n].id = NoId THEN w
     ELSE AddNode([w EXCEPT !.nodes[n] = Confirmed(@)], n, TRUE)

\* Size
LiveCount(w) == After(0, LAMBDA c, list : c + Len(list), w.live)
ReplCount(w) == After(0, LAMBDA c, list : c + Len(list), w.repl)

\* One more contact in a list that is ordered by distance
Nearer(w, target, list, n) ==
  LET ahead == {i \in DOMAIN list : ~Closer(w.nodes[n].id, w.nodes[list[i]].id, target)}
  IN InsertAt(list, Cardinality(ahead) + 1, n)

\* FindClosest: the contacts of all live lists, the closest first; one that
\* stands in two buckets comes twice.
FindClosest(w, target, limit) ==
  LET keys == After(<< >>,
                    LAMBDA found, live :
                      After(found, LAMBDA list, n : Nearer(w, target, list, n), live),
                    w.live)
  IN SubSeq(keys, 1, IF Len(keys) < limit THEN Len(keys) ELSE limit)

\* A table within its bounds: no list longer than BucketSize, no contact
\* twice in one bucket, none without an identifier.
Bounded(w) ==
  \A b \in Buckets :
    /\ Len(w.live[b]) <= BucketSize /\ Len(w.repl[b]) <= BucketSize
    /\ IsInjective(w.live[b] \o w.repl[b])
    /\ \A k \in ToSet(w.live[b] \o w.repl[b]) :
         k \in DOMAIN w.nodes /\ w.nodes[k].id # NoId
============================================================================
