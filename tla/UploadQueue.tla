---------------------------- MODULE UploadQueue -----------------------------
(***************************************************************************)
(* The upload side of a session: upload_queue.go, the handlers of          *)
(* peer_connection.go that serve remote clients, and the API that suspends *)
(* and resumes the uploads of a file.                                      *)
(*                                                                         *)
(* A queue is a record of the fields of UploadQueue and of what it keeps   *)
(* in the connections:                                                     *)
(*   waiting, uploading   the two lists                                    *)
(*   state, rank          uploadState and uploadQueueRank of a client      *)
(*   addNext              uploadAddNext                                    *)
(*   asked, sent          uploadBlocks and uploadDone                      *)
(*   over                 its session has lasted or sent long enough       *)
(*   kicking              allowKicking                                     *)
(*   lastHighID           lastSlotHighID                                   *)
(*   recent               a slot was given less than a second ago          *)
(*                                                                         *)
(* The tick calls Process, which walks over a copy of `uploading`; API     *)
(* calls take no lock and come in between.                                 *)
(***************************************************************************)
EXTENDS Integers, FiniteSets, SequencesExt

CONSTANTS
  Clients,      \* the remote clients, one connection at a time each
  LowIDs,       \* those that cannot be connected to
  Friends,      \* those that have a friend slot
  Files,        \* the transfers
  PowerShare,   \* those with priority PowerShare
  NoFile,       \* the nil *Transfer
  Parts,        \* the ranges a client may ask for
  MinSlots,     \* bounds of maxSlots, which follows the upload rate
  MaxSlots,
  QueueSize,    \* UploadQueueSize
  EqualCredits  \* no client has better credits or a better file than another

ASSUME UploadAssumption ==
  /\ IsFiniteSet(Clients)
  /\ LowIDs \subseteq Clients /\ Friends \subseteq Clients
  /\ PowerShare \subseteq Files /\ NoFile \notin Files
  /\ MinSlots \in Nat \ {0} /\ MaxSlots \in Nat /\ MinSlots <= MaxSlots
  /\ QueueSize \in Nat \ {0}
  /\ EqualCredits \in BOOLEAN

VARIABLES
  q,           \* the queue
  conn,        \* the connection of each client
  file,        \* PeerConnection.transfer
  slots,       \* maxSlots()
  serving,     \* what is left of the loop of Process
  suspended,   \* the files whose uploads are suspended
  suspending   \* what is left of the loop of a call of SuspendUpload

vars == <<q, conn, file, slots, serving, suspended, suspending>>

UploadStates == {"None", "OnQueue", "Uploading"}
ConnStates   == {"Absent", "Open", "Closing"}

NoCall == [file |-> NoFile, terminate |-> FALSE, left |-> <<>>]

EmptyQueue ==
  [waiting   |-> <<>>, uploading  |-> <<>>,
   state     |-> [c \in Clients |-> "None"],
   rank      |-> [c \in Clients |-> 0],
   addNext   |-> [c \in Clients |-> FALSE],
   asked     |-> [c \in Clients |-> {}],
   sent      |-> [c \in Clients |-> {}],
   over      |-> [c \in Clients |-> FALSE],
   kicking   |-> FALSE, lastHighID |-> TRUE, recent |-> FALSE]

Waiting(r)   == ToSet(r.waiting)
Uploading(r) == ToSet(r.uploading)

Friend(c) == c \in Friends
Open(c)   == conn[c] = "Open"
-----------------------------------------------------------------------------
(* The lists.                                                              *)

\* slices.Index
Index(w, c) == CHOOSE i \in DOMAIN w : w[i] = c

Without(w, c) == IF c \in ToSet(w) THEN RemoveAt(w, Index(w, c)) ELSE w

\* recomputeRanks after the list has changed to w.
Ranked(r, w) ==
  [r EXCEPT !.waiting = w,
            !.rank = [c \in Clients |-> IF c \in ToSet(w) THEN Index(w, c) ELSE @[c]]]

\* UploadScore puts a friend that can be connected to above everybody; among
\* the others time counts, multiplied by credits and priority.
Ahead(c) == Friend(c) /\ c \notin LowIDs

\* c, which is behind d in the list, goes before it.
MayPass(c, d) == ~Ahead(d) /\ (Ahead(c) \/ ~EqualCredits)

\* The orders in which w may be sorted: p[i] is where the i-th client was.
Orders(w) ==
  {[i \in DOMAIN w |-> w[p[i]]] :
     p \in {p \in Injection(DOMAIN w, DOMAIN w) :
              \A i, j \in DOMAIN w : i < j =>
                /\ Ahead(w[p[j]]) => Ahead(w[p[i]])
                /\ p[i] < p[j] \/ MayPass(w[p[i]], w[p[j]])}}

\* sortWaiting when the list is w; the order is one of several.
Sorted(r, w) == {Ranked(r, s) : s \in Orders(w)}

RemoveFromWaitingQueue(r, c) ==
  IF c \in Waiting(r)
  THEN [Ranked(r, Without(r.waiting, c)) EXCEPT !.state[c] = "None", !.rank[c] = 0]
  ELSE r

\* Mutant of RemoveFromUploadQueue: the requests of the client stay.
RemoveFromListsOnly(r, c) ==
  IF c \in Waiting(r) \union Uploading(r)
  THEN [RemoveFromWaitingQueue([r EXCEPT !.uploading = Without(@, c)], c)
          EXCEPT !.state[c] = "None"]
  ELSE r

RemoveFromUploadQueue(r, c) ==
  IF c \in Waiting(r) \union Uploading(r)
  THEN [RemoveFromWaitingQueue([r EXCEPT !.uploading = Without(@, c)], c)
          EXCEPT !.state[c] = "None", !.asked[c] = {}, !.sent[c] = {}]
  ELSE r

\* addUpNextClient(c).
GiveSlot(r, c) ==
  IF c \in Uploading(r) THEN r
  ELSE [r EXCEPT !.uploading = Append(@, c), !.state[c] = "Uploading",
                 !.rank[c] = 0, !.addNext[c] = FALSE, !.over[c] = FALSE,
                 !.lastHighID = c \notin LowIDs]

\* addUpNextClient(nil): the first client of the list that is connected or
\* can be; those before it go next when they connect.
AddUpNextClient(r) ==
  LET passed == {i \in DOMAIN r.waiting :
                   \A j \in 1..i : r.waiting[j] \in LowIDs /\ ~Open(r.waiting[j])}
      n      == Cardinality(passed) + 1
      marked == [r EXCEPT !.addNext =
                   [c \in Clients |-> @[c] \/ \E i \in passed : r.waiting[i] = c]]
  IN  IF n > Len(r.waiting) THEN marked
      ELSE GiveSlot(Ranked(marked, RemoveAt(r.waiting, n)), r.waiting[n])

\* AddClientToQueue of c, whose transfer is f.
AddClientToQueue(r, c, f) ==
  LET extra  == IF r.lastHighID THEN 1 ELSE 0
      isNext == r.addNext[c] /\ Len(r.uploading) < slots + extra
      refused == \/ f = NoFile
                 \/ f \in suspended
                 \/ Len(r.waiting) >= QueueSize
      atOnce == r.waiting = <<>> /\ ~r.recent /\ Len(r.uploading) < slots
  IN  CASE ~Open(c) \/ c \in Uploading(r) -> {r}
        [] Open(c) /\ c \in Waiting(r) ->
             {IF isNext
              THEN [GiveSlot(RemoveFromWaitingQueue(r, c), c) EXCEPT !.lastHighID = FALSE]
              ELSE r}
        [] OTHER ->
             IF refused THEN {r}
             ELSE IF atOnce THEN {[GiveSlot(r, c) EXCEPT !.recent = TRUE]}
             ELSE Sorted([r EXCEPT !.state[c] = "OnQueue"], Append(r.waiting, c))

\* CheckForTimeOver.
TimeOver(c) ==
  LET vips == {d \in Uploading(q) : Friend(d) \/ file[d] \in PowerShare}
  IN  /\ q.kicking
      /\ ~Friend(c)
      /\ file[c] \in PowerShare => Cardinality(vips) > slots \div 2
      /\ q.over[c]
-----------------------------------------------------------------------------
Init ==
  /\ q = EmptyQueue
  /\ conn = [c \in Clients |-> "Absent"]
  /\ file = [c \in Clients |-> NoFile]
  /\ slots = MinSlots
  /\ serving = <<>>
  /\ suspended = {}
  /\ suspending = NoCall

TickIdle == serving = <<>>
-----------------------------------------------------------------------------
(* The tick: the connections.                                              *)

\* acceptIncomingConnections, Hello.
Accept(c) ==
  /\ TickIdle
  /\ conn[c] = "Absent"
  /\ conn' = [conn EXCEPT ![c] = "Open"]
  /\ q' = [q EXCEPT !.addNext[c] = FALSE]
  /\ UNCHANGED <<file, slots, serving, suspended, suspending>>

\* attachTransferByHash.
Attach(c, f) ==
  /\ TickIdle
  /\ Open(c)
  /\ file' = [file EXCEPT ![c] = f]
  /\ UNCHANGED <<conn, slots, serving, suspended, suspending>>

HandleClientFileRequest(c, f) ==
  /\ file[c] # f
  /\ Attach(c, f)
  /\ UNCHANGED q

HandleClientStartUpload(c, f) ==
  /\ Attach(c, f)
  /\ q' \in AddClientToQueue(q, c, f)

\* HandleClientRequestParts32 and 64, AddUploadRequest.
HandleClientRequestParts(c, f, b) ==
  /\ Attach(c, f)
  /\ q.state[c] = "Uploading"
  /\ b \notin q.asked[c] \union q.sent[c]
  /\ q' = [q EXCEPT !.asked[c] = @ \union {b}]

HandleClientCancelTransfer(c) ==
  /\ TickIdle
  /\ Open(c)
  /\ q' = RemoveFromUploadQueue(q, c)
  /\ UNCHANGED <<conn, file, slots, serving, suspended, suspending>>

\* A call of SuspendUpload that still has the old connection passes over it:
\* its transfer is nil.
OnDisconnect(c) ==
  /\ TickIdle
  /\ conn[c] = "Closing"
  /\ conn' = [conn EXCEPT ![c] = "Absent"]
  /\ file' = [file EXCEPT ![c] = NoFile]
  /\ q' = RemoveFromUploadQueue(q, c)
  /\ suspending' = [suspending EXCEPT !.left = Without(@, c)]
  /\ UNCHANGED <<slots, serving, suspended>>

\* The peer, a timeout, or an API call on the transfer closes a connection.
Close(c) ==
  /\ Open(c)
  /\ conn' = [conn EXCEPT ![c] = "Closing"]
  /\ UNCHANGED <<q, file, slots, serving, suspended, suspending>>
-----------------------------------------------------------------------------
(* The tick: Process.                                                      *)

\* The sort that is due every two minutes closes the loop.
EndOfLoop(r) == {r} \union Sorted(r, r.waiting)

\* Mutant of NextSlot: the number of slots is not looked at.
NextSlotAlways(r) ==
  IF r.waiting = <<>> \/ r.recent THEN [r EXCEPT !.kicking = FALSE]
  ELSE AddUpNextClient([r EXCEPT !.kicking = FALSE, !.recent = TRUE])

\* Mutant of NextSlot: a full queue does not ask for a kick.
NextSlotNoKick(r) ==
  IF r.waiting = <<>> \/ r.recent \/ Len(r.uploading) >= slots
  THEN [r EXCEPT !.kicking = FALSE]
  ELSE AddUpNextClient([r EXCEPT !.kicking = FALSE, !.recent = TRUE])

NextSlot(r) ==
  IF r.waiting = <<>> \/ r.recent THEN [r EXCEPT !.kicking = FALSE]
  ELSE IF Len(r.uploading) < slots
       THEN AddUpNextClient([r EXCEPT !.kicking = FALSE, !.recent = TRUE])
       ELSE [r EXCEPT !.kicking = TRUE]

Process ==
  /\ TickIdle
  /\ LET r == NextSlot(q)
     IN  /\ serving' = r.uploading
         /\ q' \in IF r.uploading = <<>> THEN EndOfLoop(r) ELSE {r}
  /\ UNCHANGED <<conn, file, slots, suspended, suspending>>

\* The loop passes to the next client, with the queue one of R.
Served(R) ==
  /\ serving' = Tail(serving)
  /\ q' \in IF Tail(serving) = <<>> THEN UNION {EndOfLoop(r) : r \in R} ELSE R
  /\ UNCHANGED <<conn, file, slots, suspended, suspending>>

ServeClosed(c) ==
  /\ ~Open(c)
  /\ Served({RemoveFromUploadQueue(q, c)})

\* SendBlockData of a client that has lost its slot, or has nothing to do.
ServeNothing(c) ==
  /\ Open(c)
  /\ q.state[c] # "Uploading" \/ (~TimeOver(c) /\ (q.asked[c] = {} \/ file[c] = NoFile))
  /\ Served({q})

\* SendOutOfPartReqsAndAddToWaitingQueue, after its time is over.
Kick(c) ==
  /\ Open(c) /\ q.state[c] = "Uploading"
  /\ TimeOver(c)
  /\ Served(AddClientToQueue(
       [RemoveFromUploadQueue(q, c) EXCEPT !.kicking = FALSE], c, file[c]))

\* SendBlockData of a client that has its slot, up to the range b.
CanServe(c, b) ==
  /\ Open(c) /\ q.state[c] = "Uploading"
  /\ ~TimeOver(c)
  /\ b \in q.asked[c] /\ file[c] # NoFile

\* Mutant of SendRange: the range stays in uploadBlocks.
SendRangeAgain(c, b) ==
  /\ CanServe(c, b)
  /\ Served({[q EXCEPT !.sent[c] = @ \union {b}]})

SendRange(c, b) ==
  /\ CanServe(c, b)
  /\ Served({[q EXCEPT !.asked[c] = @ \ {b}, !.sent[c] = @ \union {b}]})

\* SendOutOfPartReqsAndAddToWaitingQueue: a piece of the range is missing.
RefuseRange(c, b) ==
  /\ CanServe(c, b)
  /\ Served(AddClientToQueue([q EXCEPT !.asked[c] = {}, !.sent[c] = {}], c, file[c]))

\* The range cannot be read, or not be sent.
FailRange(c, b) ==
  /\ CanServe(c, b)
  /\ Served({RemoveFromUploadQueue(q, c)})

ServeRange(c, b) == SendRange(c, b) \/ RefuseRange(c, b) \/ FailRange(c, b)

Serve ==
  /\ serving # <<>>
  /\ LET c == Head(serving)
     IN  ServeClosed(c) \/ ServeNothing(c) \/ Kick(c) \/ \E b \in Parts : ServeRange(c, b)
-----------------------------------------------------------------------------
(* Time and the upload rate.                                               *)

Second ==
  /\ q.recent
  /\ q' = [q EXCEPT !.recent = FALSE]
  /\ UNCHANGED <<conn, file, slots, serving, suspended, suspending>>

\* maxUploadTime or maxUploadData is exceeded.
SessionIsOver(c) ==
  /\ q.state[c] = "Uploading" /\ ~q.over[c]
  /\ q' = [q EXCEPT !.over[c] = TRUE]
  /\ UNCHANGED <<conn, file, slots, serving, suspended, suspending>>

\* Mutant of RateChanges: minUploadClientsAllowed is not applied.
RateDropsBelow ==
  /\ slots' \in 0..MaxSlots
  /\ UNCHANGED <<q, conn, file, serving, suspended, suspending>>

RateChanges ==
  /\ slots' \in MinSlots..MaxSlots
  /\ UNCHANGED <<q, conn, file, serving, suspended, suspending>>
-----------------------------------------------------------------------------
(* The API.  One call of SuspendUpload at a time.                          *)

SuspendUpload(f, terminate) ==
  /\ suspending = NoCall
  /\ suspended' = IF terminate THEN suspended ELSE suspended \union {f}
  /\ suspending' = IF q.uploading = <<>> THEN NoCall
                   ELSE [file |-> f, terminate |-> terminate, left |-> q.uploading]
  /\ UNCHANGED <<q, conn, file, slots, serving>>

\* Its loop: the client is dropped, or goes to the waiting list.
SuspendNext ==
  LET c == Head(suspending.left)
      r == RemoveFromUploadQueue(q, c)
  IN  /\ suspending # NoCall
      /\ IF suspending.left = <<>> \/ file[c] # suspending.file THEN UNCHANGED q
         ELSE IF suspending.terminate THEN q' = r
         ELSE q' \in Sorted([r EXCEPT !.state[c] = "OnQueue"], Append(r.waiting, c))
      /\ suspending' = IF Len(suspending.left) <= 1 THEN NoCall
                       ELSE [suspending EXCEPT !.left = Tail(@)]
      /\ UNCHANGED <<conn, file, slots, serving, suspended>>

ResumeUpload(f) ==
  /\ suspended' = suspended \ {f}
  /\ UNCHANGED <<q, conn, file, slots, serving, suspending>>
-----------------------------------------------------------------------------
Tick ==
  \/ \E c \in Clients : Accept(c) \/ HandleClientCancelTransfer(c) \/ OnDisconnect(c)
  \/ \E c \in Clients, f \in Files :
       HandleClientFileRequest(c, f) \/ HandleClientStartUpload(c, f)
  \/ \E c \in Clients, f \in Files, b \in Parts : HandleClientRequestParts(c, f, b)
  \/ Process
  \/ Serve

Time == Second \/ RateChanges \/ \E c \in Clients : SessionIsOver(c)

API ==
  \/ \E f \in Files, terminate \in BOOLEAN : SuspendUpload(f, terminate)
  \/ SuspendNext
  \/ \E f \in Files : ResumeUpload(f)

Next == Tick \/ Time \/ API \/ \E c \in Clients : Close(c)

Spec == Init /\ [][Next]_vars

(* The tick comes back to closed connections and to Process, and finishes   *)
(* its loop; so does a call of the API.  Seconds pass, and so do the hour   *)
(* and the ten megabytes of a session.                                      *)
FairSpec ==
  /\ Spec
  /\ WF_vars(Process) /\ WF_vars(Serve) /\ WF_vars(SuspendNext) /\ WF_vars(Second)
  /\ \A c \in Clients : SF_vars(OnDisconnect(c)) /\ WF_vars(SessionIsOver(c))
-----------------------------------------------------------------------------
(* Properties.                                                             *)

TypeOK ==
  /\ q \in [waiting : Seq(Clients), uploading : Seq(Clients),
            state : [Clients -> UploadStates], rank : [Clients -> Nat],
            addNext : [Clients -> BOOLEAN], asked : [Clients -> SUBSET Parts],
            sent : [Clients -> SUBSET Parts], over : [Clients -> BOOLEAN],
            kicking : BOOLEAN, lastHighID : BOOLEAN, recent : BOOLEAN]
  /\ conn \in [Clients -> ConnStates]
  /\ file \in [Clients -> Files \union {NoFile}]
  /\ slots \in MinSlots..MaxSlots
  /\ serving \in Seq(Clients)
  /\ suspended \in SUBSET Files
  /\ suspending \in [file : Files \union {NoFile}, terminate : BOOLEAN, left : Seq(Clients)]

\* A client is in at most one of the lists, once, and what its connection says
\* - state and rank - is where it is: the lists and the connections are updated
\* apart, by Process, by handlers and by API calls in the middle of Process.
ListsMatchStates ==
  /\ \A c \in Clients :
       /\ q.state[c] = "Uploading" <=> c \in Uploading(q)
       /\ q.state[c] = "OnQueue" <=> c \in Waiting(q)
       /\ c \notin Waiting(q) => q.rank[c] = 0
  /\ \A i \in DOMAIN q.waiting : q.rank[q.waiting[i]] = i
  /\ Cardinality(Uploading(q)) = Len(q.uploading)

\* A client without a connection is in no list: its slot is free again.
ListedAreConnected ==
  \A c \in Waiting(q) \union Uploading(q) : conn[c] # "Absent"

\* Requests and the memory of what was sent end with the slot: in its next
\* session a client is not served, or refused, what it asked for in this one.
RequestsEndWithSlot ==
  \A c \in Clients : q.asked[c] \union q.sent[c] # {} => c \in Uploading(q)

\* What the queue and the connections say of a client agrees, after a disconnect,
\* a cancel, a kick or a suspension at any point of the loops over the clients
\* (peer_connection.go:216, upload_queue.go:96).
QueueAgrees == ListsMatchStates /\ ListedAreConnected /\ RequestsEndWithSlot

PoolOfSlots ==
  INSTANCE SlotPool WITH waiting <- Waiting(q), uploading <- Uploading(q)

\* Slots are given within the limit of the moment, and clients move between the
\* lists one at a time, whatever comes between the turns of Process.
Pool == PoolOfSlots!Spec

\* Every client that waits is served or goes away, if credits are equal and as
\* long as no friend goes before it and friends, who are never kicked, leave a
\* slot: a full queue must kick, and a kicked client must queue behind.
WaitingIsServed ==
  EqualCredits =>
    \A c \in Clients :
      c \in Waiting(q) ~>
        \/ c \notin Waiting(q)
        \/ \E d \in Waiting(q) : Ahead(d)
        \/ Cardinality(Uploading(q) \intersect Friends) >= slots

\* While the uploads of a file are suspended, a client that waits for it is not
\* given a slot.
SuspendedKeepWaiting ==
  [][\A c \in Waiting(q) :
       file[c] \in suspended \intersect suspended' => c \notin Uploading(q')]_vars

=============================================================================
