-------------------------------- MODULE Kad --------------------------------
(***************************************************************************)
(* The DHT tracker: dht_tracker.go and kad_node.go over KadTable and       *)
(* KadTraversal. One goroutine, the reader, takes the packets of the       *)
(* socket and, when none came for 500 ms, does the tick; the API is called *)
(* from the session and from the program.                                  *)
(*                                                                         *)
(* DHTTracker.mu guards only parts of this. A search holds it for its      *)
(* check, and starts its traversal and sends its requests without          *)
(* (dht_tracker.go:176, 568); the reader holds it while it notes contacts, *)
(* not for its tick, nor when it matches an answer and goes on with the    *)
(* traversal (kad_node.go:149, 250). Here a call is one step and a packet  *)
(* or tick is one step, which is what the program does as long as no two   *)
(* threads are in the tracker at once. When they are, SearchOverlaps and   *)
(* AddOverlaps take the tracker to states with `overlapped`: nothing is    *)
(* claimed of them, and the model follows them no further. (A program that *)
(* starts again after one begins at Init.)                                 *)
(*                                                                         *)
(* An answer that names a contact which was not greeted makes the reader   *)
(* ask for ListenPort with mu held, and mu is not reentrant: the reader is *)
(* then blocked for ever, and so is everybody who wants mu.                *)
(*                                                                         *)
(* The packets that only ask are left out, they change nothing; so is the  *)
(* firewalled flag: the socket is bound to the unspecified address, which  *)
(* no reported address equals, so the flag stays TRUE.                     *)
(***************************************************************************)
EXTENDS KadTraversal

CONSTANTS
  Contacts,     \* <<address, identifier>> pairs that the network tells of
  Saved,        \* the contacts of the state files there may be, by key
  MaxContacts,  \* bound: contacts in one packet
  Targets,      \* what is searched and published
  Published,    \* bound: the indexes published to, of sources, keywords, notes
  Points,       \* bound: addresses that may become the storage point
  Entries,      \* search entries
  InitialRepl,  \* replacements that put off the first bootstrap (10)
  Quorum,       \* live contacts needed for a firewall check (5)
  MaxSearches,  \* bound: searches
  IdleBuckets,  \* bound: buckets that may be idle for long
  MaxEvents     \* bound: calls, starts, packets and timers that elapse

\* What a tracker has saved: a contact without an identifier was told of with its
\* address and shares it with none.
SavedContacts(file) ==
  /\ IsFiniteSet(DOMAIN file) /\ DOMAIN file \subseteq Keys
  /\ file \in [DOMAIN file -> Contact]
  /\ \A j, k \in DOMAIN file :
       file[j].id = NoId /\ file[j].addr = file[k].addr => j = k

ASSUME KadAssumption ==
  /\ Contacts \subseteq Addrs \X (Ids \cup {NoId}) /\ MaxContacts \in Nat
  /\ \A file \in Saved : SavedContacts(file)
  /\ Targets \subseteq Ids /\ Points \subseteq Addrs \cup {NoAddr}
  /\ IdleBuckets \subseteq Buckets

VARIABLES
  dht,          \* the tracker
  due,          \* initialBootstrapRequired
  reader,       \* "new", "reading", "blocked", "failed" (no socket), "closed"
  asked,        \* the accepted searches, <<kind, target>> each: who in dht
  overlapped,   \* two threads were at work in the tracker at the same time
  events        \* calls, packets and timers so far, for the bound
vars == <<dht, due, reader, asked, overlapped, events>>

Lists == UNION {[1..n -> Contacts] : n \in 0..MaxContacts}
Empty == << >>

NewTracker ==
  [nodes |-> Empty, at |-> Empty, live |-> EmptyBuckets, repl |-> EmptyBuckets,
   up |-> FALSE, routers |-> {}, storage |-> NoAddr, tx |-> << >>, running |-> Empty,
   index |-> [what \in {"sources", "keywords", "notes"} |-> {}],
   answers |-> << >>]

\* Mutant: the contacts come back into the map, not into the table.
RestoreMap(w, order) ==
  After([NewTracker EXCEPT !.routers = w.routers, !.storage = w.storage],
        LAMBDA v, k : PutContact(v, w.nodes[k].addr, k, w.nodes[k]), order)

\* SnapshotState, then ApplyState on a new tracker. Each contact is saved with
\* the address and the identifier it has now and put into the table again; of
\* two with one address one stays in the map. The order is that of a Go map.
PutBack(w, v, k) ==
  AddNode(PutContact(v, w.nodes[k].addr, k, w.nodes[k]), k, w.nodes[k].pinged)
Restore(w, order) ==
  After([NewTracker EXCEPT !.routers = w.routers, !.storage = w.storage],
        LAMBDA v, k : PutBack(w, v, k), order)

Init ==
  /\ \E file \in Saved :
       dht = Restore([NewTracker EXCEPT !.nodes = file], SetToSeq(DOMAIN file))
  /\ due = (LiveCount(dht) = 0)
  /\ reader = "new" /\ asked = << >> /\ overlapped = FALSE
  /\ events = 0

Reading == reader = "reading" /\ ~overlapped
Free == reader # "blocked" /\ ~overlapped      \* mu can be taken

\* A call of the API, a packet that the reader takes. Those that change
\* nothing do not count.
Called == Free /\ events < MaxEvents
Came == Reading /\ events < MaxEvents
Count == events' = IF <<dht, reader>>' = <<dht, reader>> THEN events ELSE events + 1

\* Start: the first call opens the socket, once; whether it failed or not,
\* later calls do nothing.
Opened == IF reader = "new" THEN {"reading", "failed"} ELSE {reader}
Up(r) == [dht EXCEPT !.up = r = "reading"]
----------------------------------------------------------------------------
\* The API

\* AddNode
AddSeed(a) ==
  /\ Called
  /\ LET w == Known(dht, a) IN dht' = [w EXCEPT !.nodes[w.at[a]].addr = a]
  /\ UNCHANGED <<due, reader, asked>> /\ Count

\* ApplyNodesDat: an edition 1 file names routers; other files name contacts,
\* which count as confirmed if they say so, or all of them if none does and
\* the file has no edition.
MetInFile(w, c, edition, confirmed) ==
  LET v == AddOrUpdate(w, c[2], c[1])
  IN IF edition = 1 THEN [v EXCEPT !.routers = @ \cup {c[1]}]
     ELSE AddNode(v, v.at[c[1]], confirmed)
ApplyNodesDat(cs, edition, verified) ==
  /\ Called
  /\ LET w == After(dht, LAMBDA v, i : MetInFile(v, cs[i], edition, i \in verified),
                    [i \in DOMAIN cs |-> i])
     IN dht' = IF edition = 0 /\ verified = {}
               THEN After(w, LAMBDA v, c : AddNode(v, v.at[c[1]], TRUE), cs)
               ELSE w
  /\ UNCHANGED <<due, reader, asked>> /\ Count

SetStoragePoint(a) ==
  /\ Called
  /\ dht' = [dht EXCEPT !.storage = a]
  /\ UNCHANGED <<due, reader, asked>> /\ Count

\* SearchSources and SearchKeywords: refused without a socket, without any
\* contact or router, and while the same search is at its first stage.
Accepted(w, key) ==
  Lookup([w EXCEPT !.answers = Append(@, 0)], key, Len(asked) + 1)
Search(key) ==
  /\ Called /\ Len(asked) < MaxSearches
  /\ \E r \in Opened :
       /\ reader' = r
       /\ IF \/ r # reader /\ r = "failed"
             \/ DOMAIN dht.at = {} /\ dht.routers = {}
             \/ key \in DOMAIN dht.running
          THEN dht' = Up(r) /\ UNCHANGED asked
          ELSE asked' = Append(asked, key) /\ dht' = Accepted(Up(r), key)
  /\ UNCHANGED due /\ Count

\* PublishSource, PublishKeyword, PublishNotes: into the index and, with no
\* answer awaited, to the closest contacts
Publish(what, target, e) ==
  /\ Called
  /\ \E r \in Opened :
       /\ reader' = r
       /\ dht' = IF r # reader /\ r = "failed" THEN dht
                 ELSE [Up(r) EXCEPT !.index[what] = @ \cup {<<target, e>>}]
  /\ UNCHANGED <<due, asked>> /\ Count

\* Mutant: the socket stays open.
CloseReader ==
  /\ Called /\ Reading /\ reader' = "closed"
  /\ UNCHANGED <<dht, due, asked>> /\ Count

\* Close: the socket is closed, which ends the reader. (A tracker that was not
\* opened, or blocks, has nothing to end.)
Close ==
  /\ Called /\ Reading
  /\ reader' = "closed" /\ dht' = [dht EXCEPT !.up = FALSE]
  /\ UNCHANGED <<due, asked>> /\ Count

\* The program ends, with a last save, and starts again.
Restart ==
  /\ Called /\ DOMAIN dht.at # {}
  /\ \E order \in SetToSeqs(Range(dht.at)) : dht' = Restore(dht, order)
  /\ due' = (LiveCount(dht') = 0)
  /\ reader' = "new" /\ asked' = << >> /\ Count
----------------------------------------------------------------------------
\* Two threads in the tracker

\* A search, past its check, is at work while the reader takes transactions out
\* of the list and counts answers (kad_rpc.go:38 against 56 and 84,
\* kad_traversal.go:230 against 333): requests that the search has counted are
\* not in the list, because the list was written without them or because the
\* answer came before the count, and took nothing away from zero. What else may
\* come of it, an entry that comes back, a traversal that is done too early, the
\* end of the program over the map of the traversals, is not told apart.
SearchOverlaps(key) ==
  /\ Called /\ Reading /\ Len(asked) < MaxSearches
  /\ DOMAIN dht.at # {} \/ dht.routers # {}
  /\ key \notin DOMAIN dht.running
  /\ LET w == Accepted(dht, key)
         own == {x \in ToSet(w.tx) : x.key # Nobody /\ w.running[x.key].who = Len(asked) + 1}
     IN \E gone \in SUBSET own :
          dht' = [w EXCEPT !.tx = SelectSeq(@, LAMBDA x : x \notin gone)]
  /\ asked' = Append(asked, key) /\ overlapped' = TRUE
  /\ UNCHANGED <<due, reader>> /\ Count

\* AddNode or ApplyNodesDat holds mu, but not the reader that notes the contacts
\* of an answer for its traversal, or ends an observer, in the same map and
\* table (kad_traversal.go:318, 356): what the call put there is lost.
AddOverlaps ==
  /\ Called /\ Reading
  /\ overlapped' = TRUE
  /\ UNCHANGED <<dht, due, reader, asked, events>>
----------------------------------------------------------------------------
\* The reader: the answers

\* addOrUpdateNodeLocked and maybeSendHelloLocked for each contact of an
\* answer: `stuck` once one of them was not greeted.
TellOne(acc, c) ==
  LET v == AddOrUpdate(acc.w, c[2], c[1])
  IN IF acc.stuck THEN acc
     ELSE [w |-> v, stuck |-> ~v.nodes[v.at[c[1]]].hello]
Tell(w, cs) == After([w |-> w, stuck |-> FALSE], TellOne, cs)

\* The observer that asked: traverse for each contact, then done
Traverse(w, key, c) ==
  LET v == AddOrUpdate(w, c[2], c[1])
  IN [AddNode(v, v.at[c[1]], FALSE) EXCEPT
        !.running[key] = AddEntry(@, key[2], c[1], c[2])]

Conclude(w, x, cs) ==
  Finished(After(w, LAMBDA v, c : Traverse(v, x.key, c), cs), x.key, x.obs)

\* The end of an answer, told under the lock. When the reader blocks there
\* nobody can look at the tracker any more, and it is left as it was.
Answered(told, j, cs) ==
  IF told.stuck THEN reader' = "blocked" /\ UNCHANGED dht
  ELSE /\ dht' = IF j = 0 THEN told.w ELSE Conclude(told.w, dht.tx[j], cs)
       /\ UNCHANGED reader

\* processBootstrapRes: the sender, then the contacts
BootstrapRes(from, cs) ==
  /\ Came
  /\ LET j == Match(dht, from[1], "bootstrapRes", NoTarget)
     IN \E v \in {AddOrUpdate(Taken(dht, j), from[2], from[1])} :
        \E told \in {Tell(ConfirmNode(v, from[1]), cs)} : Answered(told, j, cs)
  /\ UNCHANGED <<due, asked>> /\ Count

\* processFindRes: the contacts, then the sender
FindRes(a, target, cs) ==
  /\ Came
  /\ LET j == Match(dht, a, "res", target)
     IN \E told \in {Tell(Taken(dht, j), cs)} :
          Answered([told EXCEPT !.w = ConfirmNode(@, a)], j, cs)
  /\ UNCHANGED <<due, asked>> /\ Count

\* processSearchRes: no lock, no end: the time-out ends the observer.
SearchRes(a, target, es) ==
  LET j == Match(dht, a, "searchRes", target)
      x == dht.tx[j]
  IN /\ Came /\ j # 0
     /\ dht' = [dht EXCEPT !.running[x.key].obs[x.obs].entries = @ \cup es,
                           !.running[x.key].obs[x.obs].got = TRUE]
     /\ UNCHANGED <<due, reader, asked>> /\ Count

\* processFirewalledRes
FirewalledRes(a) ==
  /\ Came
  /\ LET j == Match(dht, a, "firewalledRes", NoTarget)
     IN \E w \in {ConfirmNode(Taken(dht, j), a)} :
          Answered([w |-> w, stuck |-> FALSE], j, << >>)
  /\ UNCHANGED <<due, asked>> /\ Count

\* processHelloReq, processHelloRes: the sender counts as greeted.
Hello(from, isAnswer) ==
  /\ Came
  /\ LET j == IF isAnswer THEN Match(dht, from[1], "helloRes", NoTarget) ELSE 0
     IN \E w \in {AddOrUpdate(Taken(dht, j), from[2], from[1])} :
          dht' = ConfirmNode([w EXCEPT !.nodes[w.at[from[1]]].hello = TRUE], from[1])
  /\ UNCHANGED <<due, reader, asked>> /\ Count

\* handlePublishSourcesRequest, ...KeysRequest, ...NotesRequest: for others
PublishReq(what, target, e) ==
  /\ Came
  /\ dht' = [dht EXCEPT !.index[what] = @ \cup {<<target, e>>}]
  /\ UNCHANGED <<due, reader, asked>> /\ Count

\* processPong, processFirewalledUDP
Pong(a) ==
  /\ Came /\ a \in DOMAIN dht.at
  /\ dht' = ConfirmNode(dht, a)
  /\ UNCHANGED <<due, reader, asked>> /\ Count
----------------------------------------------------------------------------
\* The tick: time-outs, then the maintenance. Which timer has elapsed is the
\* clock's choice (bound: one in a tick): a refresh, of Self or within a bucket
\* (one identifier stands for all of it), the firewall check, a bootstrap.
Refreshes == {<<"refresh", Self>>}
             \cup {<<"refresh", IdWithinBucket(b, CHOOSE d \in Drawn : TRUE)>> :
                      b \in IdleBuckets}
TimersDue ==
  {S \in SUBSET (Refreshes \cup {<<"firewalled", Self>>, <<"bootstrap", Self>>}) :
     Cardinality(S) <= IF events < MaxEvents THEN 1 ELSE 0}

First(w) == /\ due /\ w.running = Empty
            /\ LiveCount(w) > 0 /\ ReplCount(w) < InitialRepl

Maintain(w, S) ==
  LET Refresh(v) == IF S \cap Refreshes = {} THEN v
                    ELSE Lookup(v, CHOOSE key \in S \cap Refreshes : TRUE, 0)
      Check(v) == IF <<"firewalled", Self>> \in S /\ LiveCount(w) >= Quorum
                  THEN Lookup(v, <<"firewalled", Self>>, 0) ELSE v
      Again(v) == IF /\ <<"bootstrap", Self>> \in S /\ LiveCount(w) = 0
                     /\ DOMAIN v.at # {}
                     /\ LiveCount(v) = 0 /\ ReplCount(v) < BucketSize
                  THEN Bootstrap(v) ELSE v
  IN Again(Check(Refresh(IF First(w) THEN Bootstrap(w) ELSE w)))

Tick(e, s, S) ==
  /\ Reading
  /\ \E w \in {Expire(dht, e, s)} :
       /\ dht' = Maintain(w, S)
       /\ due' = (due /\ ~First(w))
  /\ events' = events + Cardinality(S)
  /\ UNCHANGED <<reader, asked>>
----------------------------------------------------------------------------
API ==
  \/ \E a \in Addrs : AddSeed(a)
  \/ \E a \in Points : SetStoragePoint(a)
  \/ \E cs \in Lists, edition \in 0..2 :
       \E verified \in SUBSET DOMAIN cs : ApplyNodesDat(cs, edition, verified)
  \/ \E kind \in {"find-sources", "find-keywords"}, target \in Targets :
       Search(<<kind, target>>)
  \/ \E what \in Published, target \in Targets, e \in Entries :
       Publish(what, target, e)
  \/ Close
  \/ Restart

Packet ==
  \/ \E from \in Contacts, cs \in Lists : BootstrapRes(from, cs)
  \/ \E a \in Addrs, cs \in Lists :
       \E target \in {Self} \cup {key[2] : key \in DOMAIN dht.running} :
          FindRes(a, target, cs)
  \/ \E a \in Addrs, target \in Targets, es \in SUBSET Entries :
       SearchRes(a, target, es)
  \/ \E a \in Addrs : FirewalledRes(a) \/ Pong(a)
  \/ \E from \in Contacts, isAnswer \in BOOLEAN : Hello(from, isAnswer)
  \/ \E what \in Published, target \in Targets, e \in Entries :
       PublishReq(what, target, e)

Timeouts == \E e \in 0..Len(dht.tx) : \E s \in e..Len(dht.tx) :
              \E S \in TimersDue : Tick(e, s, S)

\* What a thread does that has the tracker to itself
Alone == (API \/ Packet \/ Timeouts) /\ UNCHANGED overlapped

Overlaps ==
  \/ \E kind \in {"find-sources", "find-keywords"}, target \in Targets :
       SearchOverlaps(<<kind, target>>)
  \/ AddOverlaps

Next == Alone \/ Overlaps

\* The line is quiet for 500 ms again and again, so that ticks come and no
\* transaction stays the oldest for ever: it is answered or 12 s old one day.
\* (The weak fairness of the ticks that expire it, without their ENABLED.)
\* Nothing is assumed of the network.
Oldest(w) == IF w.tx = << >> THEN << >> ELSE <<w.tx[1].key, w.tx[1].obs, w.tx[1].to>>
Fairness == \/ []<>(~Reading \/ dht.tx = << >>)
            \/ []<><<Oldest(dht') # Oldest(dht)>>_vars

Spec == Init /\ [][Next]_vars /\ Fairness
----------------------------------------------------------------------------
\* The fields of the tracker keep their types. This and what follows is claimed of
\* trackers in which no two threads were at work at once: what an overlap leaves
\* behind is anything (see SearchOverlaps).
FieldsOK ==
  /\ dht.nodes \in [DOMAIN dht.nodes -> Contact] /\ DOMAIN dht.nodes \subseteq Keys
  /\ dht.at \in [DOMAIN dht.at -> DOMAIN dht.nodes]
  /\ DOMAIN dht.at \subseteq Addrs /\ dht.routers \subseteq Addrs
  /\ dht.storage \in Addrs \cup {NoAddr}
  /\ \A key \in DOMAIN dht.running :
       /\ key[1] \in Kinds /\ key[2] \in Ids
       /\ ToSet(dht.running[key].order) \subseteq DOMAIN dht.running[key].obs
  /\ dht.up = (reader \in {"reading", "blocked"})
  /\ due \in BOOLEAN
  /\ reader \in {"new", "reading", "blocked", "failed", "closed"}
  /\ Len(asked) = Len(dht.answers)
TypeOK == overlapped \in BOOLEAN /\ (~overlapped => FieldsOK)

\* A traversal ends when invokeCount returns to zero, so it must count
\* exactly the transactions that will still report to it: kad_traversal.go:296
\* and 334, kad_rpc.go:42. A traversal with nothing out would never end, a
\* transaction of an ended traversal would end it again.
Outstanding(key) == {j \in DOMAIN dht.tx : dht.tx[j].key = key}
TransactionsMatch ==
  /\ \A key \in DOMAIN dht.running :
       /\ dht.running[key].out = Cardinality(Outstanding(key))
       /\ dht.running[key].out > 0
  /\ \A j \in DOMAIN dht.tx : dht.tx[j].key # Nobody =>
       /\ dht.tx[j].key \in DOMAIN dht.running
       /\ ~dht.running[dht.tx[j].key].obs[dht.tx[j].obs].done
       /\ \A i \in Outstanding(dht.tx[j].key) :
            dht.tx[i].obs = dht.tx[j].obs => i = j

\* Every request that has become slow widens the search by one, until it is
\* answered or fails: kad_traversal.go:285, 291 and 328. A place that were not
\* given back would let requests pile up, one given back twice would stall.
BranchMatches ==
  \A key \in DOMAIN dht.running :
    dht.running[key].branch =
      Branching + Cardinality({j \in Outstanding(key) :
                                 dht.running[key].obs[dht.tx[j].obs].short})

\* The counts of a traversal are those of its transactions, whatever is answered,
\* late, lost or answered twice (kad_traversal.go:296, 328), as long as no two
\* threads were in the tracker at once. After SearchOverlaps they are not.
CountsMatch == ~overlapped => TransactionsMatch /\ BranchMatches

\* The routing table stays within its bounds, whatever contacts claim to be
\* and whichever contact is found under the identifier or address of another:
\* kad_routing.go:106 and 163. Calls and packets one at a time.
TableBounded == ~overlapped => Bounded(dht)

\* A search that was accepted is under way or has called its listener once,
\* never both and never neither: kad_traversal.go:363. Only of two searches for
\* the same may one be forgotten: the start of its second stage is refused
\* while that of the other runs, and nobody looks at the refusal
\* (kad_traversal.go:387). Only in a tracker without an overlap: a request that is
\* lost to one leaves its search without an answer for ever.
Rival(n) == \E m \in DOMAIN asked \ {n} : asked[m] = asked[n]
SearchesAnswered ==
  ~overlapped => \A n \in DOMAIN asked :
    LET under == {key \in DOMAIN dht.running : dht.running[key].who = n}
    IN dht.answers[n] + Cardinality(under) \in IF Rival(n) THEN 0..1 ELSE {1}

\* The reader never waits for the lock it holds: dht_tracker.go:449 against
\* the answers that the tests of the tracker expect to be processed.
ReaderNeverBlocks == reader # "blocked"

\* A tracker that had live contacts has some after a restart and until it is
\* opened, whichever contacts share an address or an identifier by then:
\* dht_tracker.go:689.
RestartKeepsContacts ==
  [][reader' = "new" /\ LiveCount(dht) > 0 => LiveCount(dht') > 0]_vars

\* All traversals end, however contacts answer or do not: the time-outs alone
\* bring them to their ends, kad_node.go:149. With SearchesAnswered, every
\* listener is called. It says nothing of a tracker once an overlap has taken a
\* request from a traversal: that traversal does not end.
TraversalsEnd ==
  dht.running # Empty ~> dht.running = Empty \/ reader # "reading" \/ overlapped
============================================================================
