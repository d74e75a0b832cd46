------------------------------ MODULE Exchange ------------------------------
(***************************************************************************)
(* Two goed2k ends of a connection.  Clients download File from the        *)
(* session whose upload queue is UploadQueue: they dial, shake hands, ask   *)
(* for a slot, request ranges and receive them (the handlers of             *)
(* peer_connection.go for answers), and the session answers (the handlers   *)
(* for requests, the queue).  Packets wait in Connection.outgoing, from     *)
(* which each visit of PumpIO writes one to the socket.                     *)
(*                                                                         *)
(* A range is a block, and the last one of its piece: the hash of a block   *)
(* fails if a packet of it was damaged.  What pieces and files make of      *)
(* blocks is in Download, how packets are cut out of reads in Frames.       *)
(***************************************************************************)
EXTENDS UploadQueue

CONSTANTS
  File,             \* the file that is exchanged
  Multipart,        \* it is larger than a piece and needs a hash set
  RequestSize,      \* RequestQueueSize
  PacketsPerRange,  \* the packets SendBlockData cuts a range into
  Scenarios         \* who wants what, and what may fail how often

ASSUME ExchangeAssumption ==
  /\ File \in Files
  /\ Multipart \in BOOLEAN
  /\ RequestSize \in Nat \ {0}
  /\ PacketsPerRange \in Nat \ {0}
  /\ \A s \in Scenarios : s.want \in [Clients -> SUBSET Parts]

VARIABLES
  peer,    \* the downloading end of each client
  up,      \* what it has queued, and what is on its way to the session
  down,    \* the same from the session to the client
  budget   \* the faults that may still happen

exchange == <<peer, up, down, budget>>
allVars  == <<vars, exchange>>

\* A connection of the client is open, has been closed but not yet handled, or
\* cannot be reached: no packet and no end of stream comes through.
PeerStates == {"None", "Open", "Closed", "Gone"}

Packet(kind)  == [kind |-> kind, ranges |-> {}]
Request(S)    == [kind |-> "RequestParts", ranges |-> S]
Part(b)       == [kind |-> "SendingPart", ranges |-> {b}]
DamagedPart(b) == [kind |-> "DamagedPart", ranges |-> {b}]
Garbage       == Packet("Garbage")

Pipe == [out |-> <<>>, wire |-> <<>>]

\* QueuePacket
Queued(pipes, c, packets) == [pipes EXCEPT ![c].out = @ \o packets]

\* FlushOutgoing, after which the receiver finds `packets` in its stream
Flushed(pipes, c, packets) ==
  [pipes EXCEPT ![c] = [out |-> Tail(@.out), wire |-> @.wire \o packets]]

Arrived(pipes, c, kind) == pipes[c].wire # <<>> /\ Head(pipes[c].wire).kind = kind
Taken(pipes, c) == [pipes EXCEPT ![c].wire = Tail(@)]

Spend(fault) ==
  /\ fault \in budget.faults /\ budget.left > 0
  /\ budget' = [budget EXCEPT !.left = @ - 1]

Reached(c) == Open(c) /\ peer[c].on = "Open"
-----------------------------------------------------------------------------
(* The downloading end.                                                    *)

PeerGets(c, kind) == peer[c].on = "Open" /\ Arrived(down, c, kind)

\* ConnectOnePeer, OnConnect.  A peer is dialed again after ten seconds at the
\* earliest, so no slot was given to it in the last one.
Connect(c) ==
  /\ peer[c].on = "None" /\ peer[c].want # {}
  /\ ~q.recent
  /\ Accept(c)
  /\ peer' = [peer EXCEPT ![c].on = "Open", ![c].failed = {}, ![c].torn = FALSE]
  /\ up' = [up EXCEPT ![c] = [Pipe EXCEPT !.out = <<Packet("Hello")>>]]
  /\ down' = [down EXCEPT ![c] = Pipe]
  /\ UNCHANGED budget

FlushUp(c) ==
  /\ peer[c].on = "Open" /\ up[c].out # <<>>
  /\ up' = Flushed(up, c, IF Open(c) THEN <<Head(up[c].out)>> ELSE <<>>)
  /\ UNCHANGED <<vars, peer, down, budget>>

PeerReplies(c, kind, reply) ==
  /\ PeerGets(c, kind)
  /\ down' = Taken(down, c)
  /\ up' = Queued(up, c, <<Packet(reply)>>)
  /\ UNCHANGED <<vars, peer, budget>>

HandleHelloAnswer(c) == PeerReplies(c, "HelloAnswer", "FileRequest")

HandleFileAnswer(c) == PeerReplies(c, "FileAnswer", "FileStatusRequest")

HandleFileStatusAnswer(c) ==
  PeerReplies(c, "FileStatusAnswer", IF Multipart THEN "HashSetRequest" ELSE "StartUpload")

HandleHashSetAnswer(c) == PeerReplies(c, "HashSetAnswer", "StartUpload")

\* Connection.Close of the client, whose record was p and whose pipes were d
HangUp(c, p, d) ==
  /\ peer' = [peer EXCEPT ![c] = [p EXCEPT !.on = "Closed"]]
  /\ up' = [up EXCEPT ![c].out = <<>>]
  /\ down' = [d EXCEPT ![c].wire = <<>>]

RequestBlocks(c, p, d) ==
  \/ /\ p.pending # {}
     /\ peer' = [peer EXCEPT ![c] = p]
     /\ down' = d
     /\ UNCHANGED up
  \/ /\ p.pending = {} /\ p.want = {}
     /\ HangUp(c, p, d)
  \/ /\ p.pending = {}
     /\ \E S \in (SUBSET p.want) \ {{}} :
          /\ Cardinality(S) = RequestSize \/ (S = p.want /\ Cardinality(S) < RequestSize)
          /\ peer' = [peer EXCEPT ![c] = [p EXCEPT !.pending = S]]
          /\ up' = Queued(up, c, <<Request(S)>>)
     /\ down' = d

HandleAcceptUpload(c) ==
  /\ PeerGets(c, "AcceptUpload")
  /\ RequestBlocks(c, peer[c], Taken(down, c))
  /\ UNCHANGED <<vars, budget>>

\* Data for a block that is not in the download queue is skipped.
SkipPendingData(c) ==
  /\ PeerGets(c, "SendingPart") \/ PeerGets(c, "DamagedPart")
  /\ Head(down[c].wire).ranges \cap peer[c].pending = {}
  /\ RequestBlocks(c, peer[c], Taken(down, c))
  /\ UNCHANGED <<vars, budget>>

CompleteBlock(n) == n >= PacketsPerRange

\* ReceivePendingData, up to the end of a packet or of its block
ReceivePart(c, b) ==
  LET bad  == Arrived(down, c, "DamagedPart")
      n    == peer[c].got[b] + 1
      part == [peer[c] EXCEPT !.got[b] = n, !.bad = IF bad THEN @ \union {b} ELSE @]
      done == [part EXCEPT !.got[b] = 0, !.want = @ \ {b}, !.pending = @ \ {b}]
  IN  /\ PeerGets(c, "SendingPart") \/ PeerGets(c, "DamagedPart")
      /\ b \in Head(down[c].wire).ranges \cap peer[c].pending
      /\ IF CompleteBlock(n)
         THEN RequestBlocks(c, done, Taken(down, c))
         ELSE /\ peer' = [peer EXCEPT ![c] = part]
              /\ down' = Taken(down, c)
              /\ UNCHANGED up
      /\ UNCHANGED <<vars, budget>>

\* QueueRanking and OutOfParts close the connection.
HandleRefusal(c) ==
  /\ PeerGets(c, "QueueRanking") \/ PeerGets(c, "OutOfParts")
  /\ HangUp(c, peer[c], down)
  /\ UNCHANGED <<vars, budget>>

\* What is read in the middle of a packet: an error drops what was read with
\* it, and reading goes on behind.
SkipGarbage(c) ==
  /\ PeerGets(c, "Garbage")
  /\ \E n \in DOMAIN down[c].wire :
       down' = [down EXCEPT ![c].wire = SubSeq(@, n + 1, Len(@))]
  /\ UNCHANGED <<vars, peer, up, budget>>

PeerReceives(c) ==
  \/ HandleHelloAnswer(c) \/ HandleFileAnswer(c) \/ HandleFileStatusAnswer(c)
  \/ HandleHashSetAnswer(c) \/ HandleAcceptUpload(c) \/ SkipPendingData(c)
  \/ \E b \in Parts : ReceivePart(c, b)
  \/ HandleRefusal(c) \/ SkipGarbage(c)

\* OnDisconnect, AbortAllRequests: blocks in part are lost with their buffers.
PeerDisconnects(c) ==
  /\ peer[c].on = "Closed"
  /\ peer' = [peer EXCEPT ![c].on = "None", ![c].pending = {},
                          ![c].got = [b \in Parts |-> 0],
                          ![c].bad = @ \ peer[c].want]
  /\ UNCHANGED <<vars, up, down, budget>>

\* OnPieceHashCompleted: the block is wanted again.
HashFails(c, b) ==
  /\ b \in peer[c].bad \ peer[c].want
  /\ peer' = [peer EXCEPT ![c].bad = @ \ {b}, ![c].want = @ \union {b},
                          ![c].failed = @ \union {b}]
  /\ UNCHANGED <<vars, up, down, budget>>
-----------------------------------------------------------------------------
(* The session.                                                            *)

SessionGets(c, kind) == TickIdle /\ Open(c) /\ Arrived(up, c, kind)

SessionReplies(c, kind, packets) ==
  /\ SessionGets(c, kind)
  /\ up' = Taken(up, c)
  /\ down' = Queued(down, c, packets)

HandleHello(c) ==
  /\ SessionReplies(c, "Hello", <<Packet("HelloAnswer")>>)
  /\ UNCHANGED <<vars, peer, budget>>

\* A file that is not there for the client is refused by closing.
CloseSession(c) ==
  /\ Close(c)
  /\ up' = [up EXCEPT ![c].wire = <<>>]
  /\ down' = [down EXCEPT ![c].out = <<>>]

AnswerAbout(c, kind, answer) ==
  /\ SessionReplies(c, kind, <<Packet(answer)>>)
  /\ Attach(c, File)
  /\ UNCHANGED <<q, peer, budget>>

Refuse(c, kind) ==
  /\ SessionGets(c, kind)
  /\ CloseSession(c)
  /\ Spend("refuse")
  /\ UNCHANGED peer

HandleFileRequest(c) ==
  AnswerAbout(c, "FileRequest", "FileAnswer") \/ Refuse(c, "FileRequest")

HandleFileStatusRequest(c) == AnswerAbout(c, "FileStatusRequest", "FileStatusAnswer")

HandleHashSetRequest(c) ==
  AnswerAbout(c, "HashSetRequest", "HashSetAnswer") \/ Refuse(c, "HashSetRequest")

\* Mutant of Answer: who is in a slot is not told.
AnswerWhoWait(r, c) == IF c \in Waiting(r) THEN <<Packet("QueueRanking")>> ELSE <<>>

\* What AddClientToQueue sends to c when it leaves the queue as r
Answer(r, c) ==
  CASE c \in Uploading(r) -> <<Packet("AcceptUpload")>>
    [] c \in Waiting(r)   -> <<Packet("QueueRanking")>>
    [] OTHER              -> <<>>

HandleStartUpload(c) ==
  \/ /\ HandleClientStartUpload(c, File)
     /\ SessionReplies(c, "StartUpload", Answer(q', c))
     /\ UNCHANGED <<peer, budget>>
  \/ /\ SessionReplies(c, "StartUpload", <<Packet("QueueRanking")>>)
     /\ Spend("refuse")
     /\ UNCHANGED <<vars, peer>>

\* Mutant of AddUploadRequests: the first range of a request is kept.
AddFirstRequest(c, S) ==
  IF q.state[c] = "Uploading"
  THEN [q EXCEPT !.asked[c] = @ \union ({CHOOSE b \in S : TRUE} \ q.sent[c])]
  ELSE q

\* AddUploadRequest for each range of a request
AddUploadRequests(c, S) ==
  IF q.state[c] = "Uploading" THEN [q EXCEPT !.asked[c] = @ \union (S \ q.sent[c])]
                              ELSE q

HandleRequestParts(c) ==
  /\ SessionReplies(c, "RequestParts", <<>>)
  /\ Attach(c, File)
  /\ q' = AddUploadRequests(c, Head(up[c].wire).ranges)
  /\ UNCHANGED <<peer, budget>>

SessionReceives(c) ==
  \/ HandleHello(c) \/ HandleFileRequest(c) \/ HandleFileStatusRequest(c)
  \/ HandleHashSetRequest(c) \/ HandleStartUpload(c) \/ HandleRequestParts(c)

\* A packet to a client that cannot be reached stays in the buffers below.
FlushDown(c) ==
  /\ TickIdle /\ Open(c) /\ down[c].out # <<>>
  /\ down' = Flushed(down, c, IF Reached(c) THEN <<Head(down[c].out)>> ELSE <<>>)
  /\ UNCHANGED <<vars, peer, up, budget>>

\* addUpNextClient in Process
ProcessQueue ==
  /\ Process
  /\ down' = [c \in Clients |->
                IF c \in Uploading(q') \ Uploading(q) /\ Open(c)
                THEN Queued(down, c, <<Packet("AcceptUpload")>>)[c] ELSE down[c]]
  /\ UNCHANGED <<peer, up, budget>>

\* The turn of c in the loop of Process.
ServePassed(c) ==
  /\ ServeClosed(c) \/ ServeNothing(c)
  /\ UNCHANGED exchange

ServeKicked(c) ==
  /\ Kick(c)
  /\ down' = Queued(down, c, <<Packet("OutOfParts")>> \o Answer(q', c))
  /\ UNCHANGED <<peer, up, budget>>

ServeSent(c, b) ==
  /\ SendRange(c, b)
  /\ down' = Queued(down, c, [i \in 1..PacketsPerRange |-> Part(b)])
  /\ UNCHANGED <<peer, up, budget>>

ServeRefused(c, b) ==
  /\ RefuseRange(c, b) /\ Spend("refuse")
  /\ down' = Queued(down, c, <<Packet("OutOfParts")>> \o Answer(q', c))
  /\ UNCHANGED <<peer, up>>

ServeFailed(c, b) ==
  /\ FailRange(c, b) /\ Spend("refuse")
  /\ UNCHANGED <<peer, up, down>>

ServeNext ==
  /\ serving # <<>>
  /\ LET c == Head(serving)
     IN  \/ ServePassed(c) \/ ServeKicked(c)
         \/ \E b \in Parts : ServeSent(c, b) \/ ServeRefused(c, b) \/ ServeFailed(c, b)

\* The time of a session is over when it has sent a good deal.
SessionLasts(c) ==
  /\ q.sent[c] # {} /\ down[c].out = <<>>
  /\ SessionIsOver(c)
  /\ UNCHANGED exchange

SessionDisconnects(c) == OnDisconnect(c) /\ UNCHANGED exchange

SuspendFile(terminate) ==
  /\ SuspendUpload(File, terminate) /\ Spend("suspend")
  /\ UNCHANGED <<peer, up, down>>

SuspendClient ==
  /\ SuspendNext
  /\ LET c == Head(suspending.left)
     IN  down' = IF suspending.left # <<>> /\ ~suspending.terminate /\ Open(c)
                    /\ file[c] = suspending.file
                 THEN Queued(down, c, Answer(q', c)) ELSE down
  /\ UNCHANGED <<peer, up, budget>>

SecondPasses == Second /\ UNCHANGED exchange
-----------------------------------------------------------------------------
(* The ends of connections, and what may fail.                             *)

Quiet(c) ==
  /\ up[c] = Pipe /\ down[c].out = <<>>
  /\ down[c].wire = <<>> \/ Arrived(down, c, "Garbage")
  /\ q.asked[c] = {}

\* An end of stream, or an error of the next write.
PeerSeesEnd(c) ==
  /\ peer[c].on = "Open" /\ ~Open(c)
  /\ HangUp(c, peer[c], down)
  /\ UNCHANGED <<vars, budget>>

\* SecondTick, hasStalledDownloadRequest: nothing comes for seconds.
PeerTimesOut(c) ==
  /\ Reached(c) /\ Quiet(c)
  /\ HangUp(c, peer[c], down)
  /\ UNCHANGED <<vars, budget>>

\* A client that cannot be reached closes and dials again in the end.
PeerReturns(c) ==
  /\ peer[c].on = "Gone" /\ conn[c] = "Absent"
  /\ HangUp(c, peer[c], down)
  /\ UNCHANGED <<vars, budget>>

SessionSeesEnd(c) ==
  /\ TickIdle /\ peer[c].on \in {"Closed", "None"}
  /\ CloseSession(c)
  /\ UNCHANGED <<peer, budget>>

\* Mutant of SessionTimesOut: a client that is gone is waited for.
TimesOutWhenQuiet(c) ==
  /\ TickIdle /\ Reached(c) /\ Quiet(c)
  /\ CloseSession(c)
  /\ UNCHANGED <<peer, budget>>

\* SecondTick of a connection that has a transfer.  One without is left to the
\* keep-alive of the socket.
SessionTimesOut(c) ==
  /\ TickIdle
  /\ peer[c].on = "Gone" \/ (Reached(c) /\ Quiet(c))
  /\ CloseSession(c)
  /\ UNCHANGED <<peer, budget>>

\* The connection is lost, or an end takes the other for silent.
PeerLeaves(c) ==
  /\ peer[c].on = "Open" /\ Spend("close")
  /\ HangUp(c, peer[c], down)
  /\ UNCHANGED vars

SessionLeaves(c) ==
  /\ CloseSession(c) /\ Spend("close")
  /\ UNCHANGED peer

PeerVanishes(c) ==
  /\ Reached(c) /\ Spend("vanish")
  /\ peer' = [peer EXCEPT ![c].on = "Gone"]
  /\ up' = [up EXCEPT ![c].out = <<>>]
  /\ down' = [down EXCEPT ![c].wire = <<>>]
  /\ UNCHANGED vars

DamagePart(c, b) ==
  /\ TickIdle /\ Reached(c) /\ down[c].out # <<>>
  /\ Head(down[c].out) = Part(b)
  /\ Spend("damage")
  /\ down' = Flushed(down, c, <<DamagedPart(b)>>)
  /\ UNCHANGED <<vars, peer, up>>

\* FlushOutgoing times out after a part of the packet, and writes all of it the
\* next time.  The client reads a packet that ends in the beginning of the
\* second copy - data of a block, maybe of another one if its offsets are mixed
\* up - and then the rest of that.
FlushTimesOut(c) ==
  /\ TickIdle /\ Reached(c) /\ down[c].out # <<>>
  /\ Spend("torn")
  /\ LET p == Head(down[c].out)
     IN  \/ down' = Flushed(down, c, <<Garbage>>)
         \/ /\ p.kind = "SendingPart"
            /\ \E b \in Parts : down' = Flushed(down, c, <<DamagedPart(b), Garbage>>)
  /\ peer' = [peer EXCEPT ![c].torn = TRUE]
  /\ UNCHANGED <<vars, up>>
-----------------------------------------------------------------------------
ExchangeInit ==
  /\ Init
  /\ \E s \in Scenarios :
       /\ peer = [c \in Clients |->
                    [on |-> "None", want |-> s.want[c], pending |-> {},
                     got |-> [b \in Parts |-> 0], bad |-> {}, failed |-> {}, torn |-> FALSE]]
       /\ budget = [faults |-> s.faults, left |-> s.left]
  /\ up = [c \in Clients |-> Pipe]
  /\ down = [c \in Clients |-> Pipe]

\* What PumpIO and SecondTick of either end do for a connection.
PeerVisits(c) ==
  \/ PeerReceives(c) \/ FlushUp(c)
  \/ PeerSeesEnd(c) \/ PeerTimesOut(c) \/ PeerReturns(c) \/ PeerDisconnects(c)
  \/ Connect(c)
  \/ \E b \in Parts : HashFails(c, b)

SessionVisits(c) ==
  \/ SessionReceives(c) \/ FlushDown(c)
  \/ SessionSeesEnd(c) \/ SessionTimesOut(c) \/ SessionDisconnects(c)

Faults(c) ==
  \/ PeerLeaves(c) \/ SessionLeaves(c) \/ PeerVanishes(c) \/ FlushTimesOut(c)
  \/ \E b \in Parts : DamagePart(c, b)

ExchangeNext ==
  \/ \E c \in Clients : PeerVisits(c) \/ SessionVisits(c) \/ SessionLasts(c) \/ Faults(c)
  \/ ProcessQueue \/ ServeNext \/ SecondPasses \/ SuspendClient
  \/ \E terminate \in BOOLEAN : SuspendFile(terminate)

ExchangeSpec == ExchangeInit /\ [][ExchangeNext]_allVars

(* Both loops come back to every connection, the session's also to its      *)
(* queue, and seconds pass.  While Process runs connections wait: strong    *)
(* fairness, as in UploadQueue.  A visit does one of the things that are    *)
(* due.                                                                     *)
FairExchange ==
  /\ ExchangeSpec
  /\ WF_allVars(ProcessQueue) /\ WF_allVars(ServeNext)
  /\ WF_allVars(SuspendClient) /\ WF_allVars(SecondPasses)
  /\ \A c \in Clients : SF_allVars(PeerVisits(c)) /\ SF_allVars(SessionVisits(c))
-----------------------------------------------------------------------------
(* Properties.                                                             *)

InPipe(p) == ToSet(p.wire) \union ToSet(p.out)

\* How many packets of b are on their way to c
PartsOnTheWay(c, b) ==
  LET all == down[c].wire \o down[c].out
  IN  Cardinality({i \in DOMAIN all : all[i] \in {Part(b), DamagedPart(b)}})

\* A block that a client waits for has a reason to come, or a refusal is on its
\* way, or the slot was taken away without a word; nothing else than a write
\* that was torn, or the session's memory of having sent the block before its
\* hash failed, leaves a request without answer.
UnansweredIsExplained ==
  \A c \in Clients : Reached(c) =>
    \A b \in peer[c].pending :
      \/ \E p \in InPipe(up[c]) : b \in p.ranges
      \/ b \in q.asked[c]
      \/ peer[c].got[b] + PartsOnTheWay(c, b) = PacketsPerRange
      \/ InPipe(down[c]) \cap {Packet("OutOfParts"), Packet("QueueRanking")} # {}
      \/ c \notin Uploading(q)
      \/ peer[c].torn
      \/ b \in peer[c].failed \cap q.sent[c]

\* Data is sent for the blocks that are waited for, and once: no client skips or
\* overwrites data, unless a write was torn.
PartsAreAwaited ==
  \A c \in Clients : Reached(c) /\ ~peer[c].torn =>
    \A b \in Parts :
      /\ peer[c].got[b] + PartsOnTheWay(c, b) <= PacketsPerRange
      /\ PartsOnTheWay(c, b) > 0 => b \in peer[c].pending

\* Slots come back, also from clients that were served, that went away without
\* a word or that wait for something that will not come.
SlotsReturn == \A c \in Clients : c \in Uploading(q) ~> c \notin Uploading(q)

\* A client that is the only one to want the file gets all of it, undamaged,
\* whatever was torn, damaged, refused or lost: unless the file is suspended.
Fetched ==
  \A c \in Clients :
    (peer[c].want # {} /\ \A d \in Clients \ {c} : peer[d].want = {}) ~>
      \/ peer[c].want = {} /\ peer[c].bad = {}
      \/ File \in suspended
      \/ \E d \in Clients \ {c} : peer[d].want # {}
=============================================================================
