----------------------------- MODULE Download ------------------------------
(***************************************************************************)
(* One transfer of a session, from the first connection to the last piece: *)
(* transfer.go composed with the piece picker, the download side of the    *)
(* peer connections (peer_connection.go), the disk queue and its goroutine *)
(* (session.go, async_disk.go) and the saved client state                  *)
(* (client_state.go).                                                      *)
(*                                                                         *)
(* Who moves:                                                              *)
(*   - the tick goroutine (Client.loop): connections, callbacks of disk    *)
(*     tasks; it takes session.mu only inside a few calls;                 *)
(*   - the goroutine of the disk task at the head of the queue;            *)
(*   - callers of the API (pause, resume, remove, save), under session.mu; *)
(*   - the remote peers and the disk, which may fail.                      *)
(*                                                                         *)
(* An API call can close a connection the tick is in the middle of         *)
(* serving: PumpIO looks at IsDisconnecting once, before it reads and      *)
(* processes everything that has arrived.  `pumping` is that connection.   *)
(***************************************************************************)
EXTENDS DiskQueue

CONSTANTS
  RequestQueueSize,   \* blocks a connection requests at a time (3 in the code)
  Available,          \* remotePieces: the pieces each peer offers
  Limits              \* how often each fault or API call may happen: the bound
                      \* of the exploration, no limit of the code

\* "early": a peer that accepts the upload before the hash set has come.
Faults == {"bad", "io", "drop", "early", "pause", "remove", "save", "restart"}

ASSUME DownloadAssumption ==
  /\ RequestQueueSize \in Nat \ {0}
  /\ Available \in [Peers -> SUBSET Pieces]
  /\ Limits \in [Faults -> Nat]

VARIABLES
  picker,           \* Transfer.picker
  store,            \* Transfer.pm: the file and the block managers
  conn,             \* the connection to each peer
  pumping,          \* the closed connection the tick still serves, or NoPeer
  hashSet,          \* the hash set of the file is known
  pendingHashes,    \* pendingPieceHashes
  pendingResumeIO,  \* restore tasks whose result is awaited
  paused,           \* Transfer.pause
  aborted,          \* Transfer.abort: removed from the session
  state,            \* Transfer.state
  saved,            \* the state file
  spent             \* what has been used of Limits

transferVars == <<hashSet, pendingHashes, pendingResumeIO, paused, aborted, state>>
vars == <<picker, store, conn, pumping, transferVars, diskVars, saved, spent>>

TransferStates == {"LoadingResumeData", "Downloading", "Finished"}

\* How far the peer has gone in the order of the protocol.  Handshake: from the
\* dial to the hash set; Waiting: StartUpload was sent; Active: the peer accepted.
\* The program keeps no such state: it handles a packet whenever it comes.
Phases == {"Absent", "Handshake", "Waiting", "Active"}

Connections == [phase : Phases, closing : BOOLEAN, queue : SUBSET Blocks]
NoConnection == [phase |-> "Absent", closing |-> FALSE, queue |-> {}]

SavedStates ==
  [present : BOOLEAN, have : SUBSET Pieces, blocks : SUBSET Blocks,
   hashSet : BOOLEAN, paused : BOOLEAN]
-----------------------------------------------------------------------------
Live(p)  == conn[p].phase # "Absent" /\ ~conn[p].closing
TickIdle == pumping = NoPeer

\* The tick serves p: it is open, or it was when the tick looked.
Serving(p) == pumping = p \/ (TickIdle /\ Live(p))

IsFinished(pk) == HavePieces(pk) = Pieces

\* Mutant of FinishedBlocks: a block is saved before it is written.
ReceivedBlocks(pk) ==
  {b \in Blocks : pk.block[b].state \in {"Writing", "Finished"}}

FinishedBlocks(pk) ==
  {b \in Blocks : b[1] \in pk.queue /\ pk.block[b].state = "Finished"}

\* ResumeData, inside the record of snapshotState.
Snapshot ==
  [present |-> TRUE, have |-> HavePieces(picker), blocks |-> FinishedBlocks(picker),
   hashSet |-> hashSet, paused |-> paused]

NoState ==
  [present |-> FALSE, have |-> {}, blocks |-> {}, hashSet |-> FALSE, paused |-> FALSE]

Spend(fault) ==
  /\ spent[fault] < Limits[fault]
  /\ spent' = [spent EXCEPT ![fault] = @ + 1]

\* Close every connection of the transfer: PauseWithDisconnect, Abort, finished.
AllClosed ==
  [p \in Peers |-> IF conn[p].phase = "Absent" THEN conn[p]
                                             ELSE [conn[p] EXCEPT !.closing = TRUE]]

\* An API call that closes connections may catch the tick serving one.
CloseUnderTick ==
  /\ conn' = AllClosed
  /\ IF TickIdle THEN pumping' \in {NoPeer} \union {p \in Peers : Live(p)}
                 ELSE UNCHANGED pumping

\* Mutant of HashFollowup: pendingPieceHashes is not consulted.
HashFollowupAgain(pk, p) ==
  IF pk.status[p] # "Have" /\ IsPieceFinished(pk, p) THEN <<AsyncHash(p)>> ELSE <<>>

\* QueuePieceHash: the hash task it submits, if any.
HashFollowup(pk, p) ==
  IF p \notin pendingHashes /\ pk.status[p] # "Have" /\ IsPieceFinished(pk, p)
  THEN <<AsyncHash(p)>> ELSE <<>>

PendingAfter(followup, p) ==
  IF followup = <<>> THEN pendingHashes ELSE pendingHashes \union {p}

\* remotePieces of connection p, as pieceAllowed reads it.  Until the answer to
\* the status request has come (in the Handshake) it is empty, which allows
\* every piece.
RemotePieces(p) ==
  IF conn[p].phase = "Handshake" THEN {Available[p], Pieces} ELSE {Available[p]}

\* RequestBlocks of connection p, whose queue is now `queue`.
RequestBlocks(pk, p, phase, queue, offered) ==
  LET picked == IF queue = {}
                THEN PickedBlocks(pk, RequestQueueSize, offered) ELSE {}
      idle   == queue = {} /\ picked = {}
  IN  /\ picker' = PickPieces(pk, picked, p, Slow)
      /\ conn' = [conn EXCEPT ![p] =
                    [phase   |-> phase,
                     closing |-> conn[p].closing \/ idle,
                     queue   |-> queue \union picked]]
-----------------------------------------------------------------------------
Init ==
  /\ picker = EmptyPicker
  /\ store = EmptyStore
  /\ conn = [p \in Peers |-> NoConnection]
  /\ pumping = NoPeer
  /\ hashSet = FALSE
  /\ pendingHashes = {}
  /\ pendingResumeIO = 0
  /\ paused = FALSE
  /\ aborted = FALSE
  /\ state = "Downloading"
  /\ DiskInit
  /\ saved = Snapshot
  /\ spent = [f \in Faults |-> 0]
-----------------------------------------------------------------------------
(* The tick: connections.                                                  *)

\* ConnectNewPeers: TryConnectPeer, ConnectToPeer.
ConnectToPeer(p) ==
  /\ TickIdle
  /\ ~paused /\ ~aborted /\ ~IsFinished(picker)
  /\ conn[p].phase = "Absent"
  /\ conn' = [conn EXCEPT ![p] = [NoConnection EXCEPT !.phase = "Handshake"]]
  /\ UNCHANGED <<picker, store, pumping, transferVars, diskVars, saved, spent>>

\* Mutant of ReceiveHashSet: StartUpload is sent although the hash set is not
\* taken over.
SkipHashSet(p) ==
  /\ Serving(p)
  /\ conn[p].phase = "Handshake"
  /\ conn' = [conn EXCEPT ![p].phase = "Waiting"]
  /\ UNCHANGED <<picker, store, pumping, transferVars, diskVars, saved, spent>>

\* The exchange up to the hash set; SetHashSet, SendStartUpload.
ReceiveHashSet(p) ==
  /\ Serving(p)
  /\ conn[p].phase = "Handshake"
  /\ conn' = [conn EXCEPT ![p].phase = "Waiting"]
  /\ hashSet' = TRUE
  /\ UNCHANGED <<picker, store, pumping, pendingHashes, pendingResumeIO, paused, aborted,
                 state, diskVars, saved, spent>>

\* AcceptUpload: blocks are requested, whether or not the hash set is known.
ReceiveAcceptUpload(p) ==
  LET phase == conn[p].phase
  IN  /\ Serving(p)
      /\ phase # "Absent"
      /\ IF phase = "Handshake" THEN Spend("early") ELSE UNCHANGED spent
      /\ \E offered \in RemotePieces(p) :
           RequestBlocks(picker, p, IF phase = "Waiting" THEN "Active" ELSE phase,
                         conn[p].queue, offered)
      /\ UNCHANGED <<store, pumping, transferVars, diskVars, saved>>

\* The last byte of a requested block arrives: ReceivePendingData.
ReceiveBlock(p, b, c) ==
  LET written  == MarkAsWriting(picker, b)
      accepted == CanWrite(picker, b)
      followup == IF accepted /\ ~IsPieceFinished(picker, b[1])
                  THEN HashFollowup(written, b[1]) ELSE <<>>
  IN  /\ Serving(p)
      /\ b \in conn[p].queue
      /\ IF c = "bad" THEN Spend("bad") ELSE UNCHANGED spent
      /\ Submit((IF accepted THEN <<AsyncWrite(b, c)>> ELSE <<>>) \o followup)
      /\ pendingHashes' = PendingAfter(followup, b[1])
      /\ \E offered \in RemotePieces(p) :
           RequestBlocks(written, p, conn[p].phase, conn[p].queue \ {b}, offered)
      /\ UNCHANGED <<store, pumping, hashSet, pendingResumeIO, paused, aborted, state, saved>>

\* The end of the stream, an I/O error, a timeout, OutOfParts, QueueRanking...
PeerCloses(p) ==
  /\ TickIdle
  /\ Live(p)
  /\ Spend("drop")
  /\ conn' = [conn EXCEPT ![p].closing = TRUE]
  /\ UNCHANGED <<picker, store, pumping, transferVars, diskVars, saved>>

\* Mutant of OnDisconnect: AbortAllRequests is not called.
DisconnectWithoutAbort(p) ==
  /\ TickIdle
  /\ conn[p].closing
  /\ conn' = [conn EXCEPT ![p] = NoConnection]
  /\ UNCHANGED <<picker, store, pumping, transferVars, diskVars, saved, spent>>

\* PumpIO handles a closed connection.
OnDisconnect(p) ==
  /\ TickIdle
  /\ conn[p].closing
  /\ picker' = AbortDownloads(picker, conn[p].queue, p)
  /\ conn' = [conn EXCEPT ![p] = NoConnection]
  /\ UNCHANGED <<store, pumping, transferVars, diskVars, saved, spent>>

\* The tick finds nothing more to do for the connection that was closed.
EndPump ==
  /\ pumping # NoPeer
  /\ pumping' = NoPeer
  /\ UNCHANGED <<picker, store, conn, transferVars, diskVars, saved, spent>>
-----------------------------------------------------------------------------
(* The tick: processDiskTasks receives a result and calls OnCompleted.      *)

Done(kind) == TickIdle /\ disk = "done" /\ Head(tasks).kind = kind

\* OnBlockWriteCompleted.
OnBlockWritten ==
  LET b        == Head(tasks).block
      finished == MarkAsFinished(picker, b)
      followup == HashFollowup(finished, b[1])
  IN  /\ Done("write") /\ outcome
      /\ picker' = finished
      /\ RemoveDone(followup)
      /\ pendingHashes' = PendingAfter(followup, b[1])
      /\ UNCHANGED <<store, conn, pumping, hashSet, pendingResumeIO, paused, aborted,
                     state, saved, spent>>

\* Mutant of OnBlockWriteFailed: the block is not aborted.
WriteFailureKeepsBlock ==
  /\ Done("write") /\ ~outcome
  /\ paused' = TRUE
  /\ conn' = AllClosed
  /\ RemoveDone(<<>>)
  /\ UNCHANGED <<picker, store, pumping, hashSet, pendingHashes, pendingResumeIO,
                 aborted, state, saved, spent>>

OnBlockWriteFailed ==
  /\ Done("write") /\ ~outcome
  /\ picker' = AbortDownloads(picker, {Head(tasks).block}, NoPeer)
  /\ paused' = TRUE
  /\ conn' = AllClosed
  /\ RemoveDone(<<>>)
  /\ UNCHANGED <<store, pumping, hashSet, pendingHashes, pendingResumeIO, aborted,
                 state, saved, spent>>

\* Mutant of OnPieceHashed: the hash is computed and not compared.
OnAnyHash ==
  LET p   == Head(tasks).piece
      pk  == WeHave(picker, p)
      end == IsFinished(pk)
  IN  /\ Done("hash")
      /\ picker' = pk
      /\ pendingHashes' = pendingHashes \ {p}
      /\ conn' = IF end THEN AllClosed ELSE conn
      /\ state' = IF end THEN "Finished" ELSE state
      /\ RemoveDone(IF end THEN <<AsyncRelease(FALSE)>> ELSE <<>>)
      /\ UNCHANGED <<store, pumping, hashSet, pendingResumeIO, paused, aborted, saved,
                     spent>>

\* OnPieceHashCompleted, and finished() with the last piece.
OnPieceHashed ==
  LET p   == Head(tasks).piece
      pk  == IF hashSet /\ ~outcome THEN RestorePiece(picker, p) ELSE WeHave(picker, p)
      end == IsFinished(pk)
  IN  /\ Done("hash")
      /\ picker' = pk
      /\ pendingHashes' = pendingHashes \ {p}
      /\ conn' = IF end THEN AllClosed ELSE conn
      /\ state' = IF end THEN "Finished" ELSE state
      /\ RemoveDone(IF end THEN <<AsyncRelease(FALSE)>> ELSE <<>>)
      /\ UNCHANGED <<store, pumping, hashSet, pendingResumeIO, paused, aborted, saved,
                     spent>>

\* OnBlockRestoreCompleted.
OnBlockRestored ==
  LET pk   == WeHaveBlock(picker, Head(tasks).block)
      left == IF pendingResumeIO > 0 THEN pendingResumeIO - 1 ELSE 0
  IN  /\ Done("restore") /\ outcome
      /\ picker' = pk
      /\ pendingResumeIO' = left
      /\ state' = IF left # 0 THEN state
                  ELSE IF IsFinished(pk) THEN "Finished" ELSE "Downloading"
      /\ RemoveDone(<<>>)
      /\ UNCHANGED <<store, conn, pumping, hashSet, pendingHashes, paused, aborted,
                     saved, spent>>

\* Mutant of OnBlockRestoreFailed: a failed restore is not counted.
RestoreFailureUncounted ==
  /\ Done("restore") /\ ~outcome
  /\ paused' = TRUE
  /\ conn' = AllClosed
  /\ RemoveDone(<<>>)
  /\ UNCHANGED <<picker, store, pumping, hashSet, pendingHashes, pendingResumeIO,
                 aborted, state, saved, spent>>

OnBlockRestoreFailed ==
  /\ Done("restore") /\ ~outcome
  /\ pendingResumeIO' = IF pendingResumeIO > 0 THEN pendingResumeIO - 1 ELSE 0
  /\ paused' = TRUE
  /\ conn' = AllClosed
  /\ RemoveDone(<<>>)
  /\ UNCHANGED <<picker, store, pumping, hashSet, pendingHashes, aborted, state, saved,
                 spent>>

OnReleaseFile ==
  /\ Done("release")
  /\ RemoveDone(<<>>)
  /\ UNCHANGED <<picker, store, conn, pumping, transferVars, saved, spent>>
-----------------------------------------------------------------------------
(* processDiskTasks starts the task at the head; its goroutine runs it.     *)

Runnable(kind) == disk = "idle" /\ tasks # <<>> /\ Head(tasks).kind = kind

\* AsyncWrite.Call; a write that fails may leave part of the block behind.
RunWrite ==
  LET b == Head(tasks).block
  IN  /\ Runnable("write")
      /\ \/ /\ store' = WriteBlock(store, b, Head(tasks).bytes)
            /\ RunHead(TRUE)
            /\ UNCHANGED spent
         \/ /\ Spend("io")
            /\ \E c \in {store.file[b], "bad"} : store' = [store EXCEPT !.file[b] = c]
            /\ RunHead(FALSE)
      /\ UNCHANGED <<picker, conn, pumping, transferVars, saved>>

\* AsyncHash.Call.
RunHash ==
  LET p == Head(tasks).piece
  IN  /\ Runnable("hash")
      /\ RunHead(HashMatches(store, p))
      /\ store' = DropManager(store, p)
      /\ UNCHANGED <<picker, conn, pumping, transferVars, saved, spent>>

\* AsyncRestore.Call.
RunRestore ==
  LET b == Head(tasks).block
  IN  /\ Runnable("restore")
      /\ \/ /\ CanRestore(store, b)
            /\ store' = RestoreBlock(store, b)
            /\ RunHead(TRUE)
            /\ UNCHANGED spent
         \/ /\ IF CanRestore(store, b) THEN Spend("io") ELSE UNCHANGED spent
            /\ RunHead(FALSE)
            /\ UNCHANGED store
      /\ UNCHANGED <<picker, conn, pumping, transferVars, saved>>

\* AsyncRelease.Call.
RunRelease ==
  /\ Runnable("release")
  /\ store' = ReleaseFile(store, Head(tasks).deleteFile)
  /\ RunHead(TRUE)
  /\ UNCHANGED <<picker, conn, pumping, transferVars, saved, spent>>
-----------------------------------------------------------------------------
(* The API, and the end of the process.                                    *)

\* Client.PauseTransfer: PauseWithDisconnect.
PauseTransfer ==
  /\ ~aborted /\ ~paused
  /\ Spend("pause")
  /\ paused' = TRUE
  /\ CloseUnderTick
  /\ UNCHANGED <<picker, store, hashSet, pendingHashes, pendingResumeIO, aborted, state,
                 diskVars, saved>>

\* Client.ResumeTransfer: ResumeWithState.
ResumeTransfer ==
  /\ ~aborted /\ paused
  /\ paused' = FALSE
  /\ UNCHANGED <<picker, store, conn, pumping, hashSet, pendingHashes, pendingResumeIO,
                 aborted, state, diskVars, saved, spent>>

\* Session.RemoveTransfer: Transfer.Abort.
RemoveTransfer(deleteFile) ==
  /\ ~aborted
  /\ Spend("remove")
  /\ aborted' = TRUE
  /\ CloseUnderTick
  /\ Submit(<<AsyncRelease(deleteFile)>>)
  /\ UNCHANGED <<picker, store, hashSet, pendingHashes, pendingResumeIO, paused, state,
                 saved>>

\* Client.SaveState, by the autosave of the loop or by an API call.
SaveState ==
  /\ Spend("save")
  /\ saved' = IF aborted THEN NoState ELSE Snapshot
  /\ UNCHANGED <<picker, store, conn, pumping, transferVars, diskVars>>

\* restoreResumeData submits one restore per saved block, piece by piece in
\* block order.
RestoreOrders(S) ==
  {s \in [1..Cardinality(S) -> S] :
     \A i, j \in 1..Cardinality(S) :
       i < j => s[i] # s[j] /\ (s[i][1] = s[j][1] => s[i][2] < s[j][2])}

\* The process ends, at any point, and a new one loads the state file.
Restart ==
  LET n  == Cardinality(saved.blocks)
      pk == RestoreHave(EmptyPicker, saved.have)
  IN  /\ saved.present
      /\ Spend("restart")
      /\ picker' = pk
      /\ store' = [EmptyStore EXCEPT !.file = store.file]
      /\ conn' = [p \in Peers |-> NoConnection]
      /\ pumping' = NoPeer
      /\ hashSet' = saved.hashSet
      /\ pendingHashes' = {}
      /\ pendingResumeIO' = n
      /\ paused' = saved.paused
      /\ aborted' = FALSE
      /\ state' = IF n # 0 THEN "LoadingResumeData"
                  ELSE IF IsFinished(pk) THEN "Finished" ELSE "Downloading"
      /\ \E s \in RestoreOrders(saved.blocks) :
           tasks' = [i \in 1..n |-> AsyncRestore(s[i])]
      /\ disk' = "idle"
      /\ outcome' = TRUE
      /\ UNCHANGED saved
-----------------------------------------------------------------------------
DiskCallback ==
  \/ OnBlockWritten
  \/ OnBlockWriteFailed
  \/ OnPieceHashed
  \/ OnBlockRestored
  \/ OnBlockRestoreFailed
  \/ OnReleaseFile

Tick ==
  \/ \E p \in Peers : ConnectToPeer(p)
  \/ \E p \in Peers : ReceiveHashSet(p)
  \/ \E p \in Peers : ReceiveAcceptUpload(p)
  \/ \E p \in Peers, b \in Blocks, c \in Bytes : ReceiveBlock(p, b, c)
  \/ \E p \in Peers : PeerCloses(p)
  \/ \E p \in Peers : OnDisconnect(p)
  \/ EndPump
  \/ DiskCallback

DiskGoroutine == RunWrite \/ RunHash \/ RunRestore \/ RunRelease

API ==
  \/ PauseTransfer
  \/ ResumeTransfer
  \/ \E deleteFile \in BOOLEAN : RemoveTransfer(deleteFile)
  \/ SaveState

Next == Tick \/ DiskGoroutine \/ API \/ Restart

Spec == Init /\ [][Next]_vars

(* What the loop and the goroutines guarantee: the tick comes back to every  *)
(* connection and to the disk queue, and a disk task returns.  That a remote *)
(* peer that stays connected goes on answering, and that a user resumes a    *)
(* paused transfer, are assumptions on the environment.                      *)
FairSpec ==
  /\ Spec
  /\ \A p \in Peers :
       /\ WF_vars(ConnectToPeer(p))
       /\ WF_vars(ReceiveHashSet(p))
       /\ WF_vars(conn[p].phase = "Waiting" /\ ReceiveAcceptUpload(p))
       /\ WF_vars(\E b \in Blocks : ReceiveBlock(p, b, "good"))
       /\ WF_vars(OnDisconnect(p))
  /\ WF_vars(EndPump)
  /\ WF_vars(DiskCallback)
  /\ WF_vars(DiskGoroutine)
  /\ WF_vars(ResumeTransfer)
-----------------------------------------------------------------------------
(* Properties.                                                             *)

\* Every variable stays in its type.
TypeOK ==
  /\ picker \in Pickers
  /\ store \in Stores
  /\ conn \in [Peers -> Connections]
  /\ pumping \in Peers \union {NoPeer}
  /\ hashSet \in BOOLEAN
  /\ pendingHashes \in SUBSET Pieces
  /\ pendingResumeIO \in Nat
  /\ paused \in BOOLEAN
  /\ aborted \in BOOLEAN
  /\ state \in TransferStates
  /\ tasks \in Seq(Tasks)
  /\ disk \in {"idle", "done"}
  /\ outcome \in BOOLEAN
  /\ saved \in SavedStates
  /\ spent \in [Faults -> Nat]

\* A block counted as requested is in the download queue of the connection
\* that asked for it last: AbortAllRequests, MarkAsWriting and RestorePiece
\* leave no block that no connection will ever bring (the picker never
\* offers a requested block again).
RequestsAreHeld ==
  \A b \in Blocks :
    picker.block[b].state = "Requested" =>
      \E p \in Peers : picker.block[b].last = p /\ b \in conn[p].queue

\* A block that is Writing has a write in the disk queue that will move it on.
WritesAreQueued ==
  \A b \in Blocks :
    picker.block[b].state = "Writing" => \E c \in Bytes : Queued(AsyncWrite(b, c))

\* pendingPieceHashes is the set of pieces with a hash task in the disk
\* queue, no piece is hashed twice at a time, and none that is complete.
HashesAreQueued ==
  /\ pendingHashes = {p \in Pieces : Queued(AsyncHash(p))}
  /\ \A i, j \in DOMAIN tasks :
       tasks[i].kind = "hash" /\ tasks[i] = tasks[j] => i = j
  /\ \A p \in pendingHashes : picker.status[p] = "Downloading"

\* pendingResumeIO counts the restores still in the disk queue, and the state
\* LoadingResumeData is left only with the last of them.
RestoresAreCounted ==
  LET restores == {i \in DOMAIN tasks : tasks[i].kind = "restore"}
  IN  /\ pendingResumeIO = Cardinality(restores)
      /\ restores # {} => state = "LoadingResumeData"

\* What the state file claims is in the file of the transfer: it names no
\* block whose write has not reached the disk.  (Not of a removed transfer:
\* its file may be deleted while the state file still lists it.  Nor when a
\* piece may have been taken unchecked: one with a failed write is then taken.)
SavedIsOnDisk ==
  spent["remove"] = 0 /\ spent["early"] = 0 =>
    \A b \in Blocks : b \in saved.blocks \/ b[1] \in saved.have => store.file[b] # "none"

\* A piece is only hashed when there is a hash to compare it with:
\* OnPieceHashCompleted takes a piece for good when the hash set is unknown.
\* (Said of peers that keep to the order of the protocol.  RequestBlocks asks
\* for no hash set: from a peer that accepts the upload before it has sent one,
\* pieces are downloaded, hashed and taken unchecked.)
HashesAreKnown == spent["early"] = 0 => (pendingHashes # {} => hashSet)

\* Within a process a piece is never lost once it is complete: no late
\* restore, write or hash result takes it back.
HaveNeverLost ==
  [][spent'["restart"] = spent["restart"]
       => HavePieces(picker) \subseteq HavePieces(picker')]_vars
-----------------------------------------------------------------------------
(* Properties of a process that is not interrupted, whose disk works and    *)
(* whose peers accept an upload after the hash set.                        *)

\* The download queues and the picker tell the same story: a block is in the
\* queue of at most one connection, the one the picker has it requested from.
\* This is what keeps two peers from sending the same block and a block from
\* being written twice.
QueuesMatchPicker ==
  \A p \in Peers :
    conn[p].queue =
      {b \in Blocks : picker.block[b].state = "Requested" /\ picker.block[b].last = p}

\* No write of a piece waits behind its hash: the digest that HashPiece
\* computes from the buffers is the digest of what the file will hold.
HashAfterWrites ==
  \A i, j \in DOMAIN tasks :
    tasks[i].kind = "hash" /\ tasks[j].kind = "write" /\ i < j
      => tasks[j].block[1] # tasks[i].piece

\* The pieces whose every block is right in the file.
IntactPieces == {p \in Pieces : \A b \in BlocksOf(p) : store.file[b] = "good"}

Promise ==
  INSTANCE FileTransfer
    WITH have <- HavePieces(picker), intact <- IntactPieces, removed <- aborted

\* The transfer implements the contract: complete pieces are right on disk,
\* and neither they nor the report are ever taken back.
Contract == Promise!Spec

\* A transfer that is not removed is downloaded to the end: no block is left
\* requested from nobody, written and never hashed, or hashed in vain.
Completes ==
  <>(aborted \/ (IsFinished(picker) /\ state = "Finished" /\ tasks = <<>>))
-----------------------------------------------------------------------------
(* What the tests and the README say, and the code does not do.            *)

Recorded(b) == b \in saved.blocks \/ b[1] \in saved.have

\* A save never forgets progress that an earlier save recorded, as long as no
\* piece has failed its hash and the transfer is not removed.
ProgressIsKept ==
  [][\A b \in Blocks : Recorded(b) => Recorded(b)']_saved

\* A transfer that reports itself finished has the right bytes on disk.
FinishedIsIntact == IsFinished(picker) => IntactPieces = Pieces

=============================================================================
