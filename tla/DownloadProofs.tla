--------------------------- MODULE DownloadProofs ---------------------------
(***************************************************************************)
(* Proofs about Download for any file, any set of peers and any number of  *)
(* faults, saves and restarts: the types of the picker and of the transfer;*)
(* what the transfer remembers of the disk queue (the pending hashes, the  *)
(* restores it counts, the blocks it has as Writing) is what the queue     *)
(* holds, and a complete piece is never lost.                              *)
(***************************************************************************)
EXTENDS Download, FiniteSetTheorems, TLAPS

(* What the operations of the piece picker return and preserve, for every  *)
(* number of pieces, blocks and peers.                                     *)

LEMMA EmptyPickerType == EmptyPicker \in Pickers
  BY DEF EmptyPicker, Pickers, FreshBlock, BlockRecords, PieceStates, BlockStates,
         Slow, Speeds

\* The operations on one block stay in the type of a block.
LEMMA BlockOperationTypes ==
  ASSUME PickerAssumption, NEW blk \in BlockRecords, NEW peer \in Peers \union {NoPeer}
  PROVE  /\ Request(blk, peer, Slow) \in BlockRecords
         /\ Write(blk) \in BlockRecords
         /\ Finish(blk) \in BlockRecords
         /\ Abort(blk, peer) \in BlockRecords
         /\ FreshBlock \in BlockRecords
<1> USE DEF BlockRecords, BlockStates
<1>1. Request(blk, peer, Slow) \in BlockRecords
  BY DEF Request, Slow, Speeds
<1>2. Write(blk) \in BlockRecords
  BY DEF Write
<1>3. Finish(blk) \in BlockRecords
  BY DEF Finish
<1>4. Abort(blk, peer) \in BlockRecords
  <2> DEFINE left == IF blk.downloaders > 0 THEN blk.downloaders - 1 ELSE 0
  <2>1. left \in Nat
    OBVIOUS
  <2> HIDE DEF left
  <2>2. QED
    BY <2>1 DEF Abort, left
<1>5. FreshBlock \in BlockRecords
  BY DEF FreshBlock, Slow, Speeds
<1>6. QED
  BY <1>1, <1>2, <1>3, <1>4, <1>5

\* Opening and closing pieces stays in the type of a picker.
LEMMA OpenPiecesType ==
  ASSUME NEW pk \in Pickers, NEW S \in SUBSET Pieces
  PROVE  OpenPieces(pk, S) \in Pickers
  BY DEF OpenPieces, Pickers, PieceStates

LEMMA ClosePieceType ==
  ASSUME PickerAssumption, NEW pk \in Pickers, NEW p \in Pieces,
         NEW status \in PieceStates
  PROVE  ClosePiece(pk, p, status) \in Pickers
  BY BlockOperationTypes DEF ClosePiece, Pickers, FreshBlock, BlockRecords, BlockStates,
     Slow, Speeds

LEMMA RestoreHaveType ==
  ASSUME NEW pk \in Pickers, NEW S \in SUBSET Pieces
  PROVE  RestoreHave(pk, S) \in Pickers
  BY DEF RestoreHave, Pickers, PieceStates

LEMMA BlocksInPieces == \A b \in Blocks : b[1] \in Pieces
  BY DEF Blocks

\* So do the operations that move one block on.
LEMMA MarkingTypes ==
  ASSUME PickerAssumption, NEW pk \in Pickers, NEW b \in Blocks
  PROVE  /\ MarkAsWriting(pk, b) \in Pickers
         /\ MarkAsFinished(pk, b) \in Pickers
         /\ WeHaveBlock(pk, b) \in Pickers
<1>1. \A blk \in BlockRecords : Write(blk) \in BlockRecords /\ Finish(blk) \in BlockRecords
  BY DEF BlockRecords, BlockStates, Write, Finish
<1>2. MarkAsWriting(pk, b) \in Pickers
  BY <1>1 DEF MarkAsWriting, Pickers
<1>3. MarkAsFinished(pk, b) \in Pickers
  BY <1>1 DEF MarkAsFinished, Pickers
<1>4. WeHaveBlock(pk, b) \in Pickers
  <2>1. b[1] \in Pieces
    BY BlocksInPieces
  <2>2. OpenPieces(pk, {b[1]}) \in Pickers
    BY <2>1, OpenPiecesType
  <2>3. QED
    BY <1>1, <2>2 DEF WeHaveBlock, Pickers
<1>5. QED
  BY <1>2, <1>3, <1>4

LEMMA AbortDownloadsType ==
  ASSUME PickerAssumption, NEW pk \in Pickers, NEW S \in SUBSET Blocks,
         NEW peer \in Peers \union {NoPeer}
  PROVE  AbortDownloads(pk, S, peer) \in Pickers
<1>1. \A blk \in BlockRecords : Abort(blk, peer) \in BlockRecords
  BY BlockOperationTypes
<1>2. QED
  BY <1>1 DEF AbortDownloads, Pickers

LEMMA PickPiecesType ==
  ASSUME PickerAssumption, NEW pk \in Pickers, NEW picked \in SUBSET Blocks,
         NEW peer \in Peers
  PROVE  PickPieces(pk, picked, peer, Slow) \in Pickers
<1> DEFINE S == {b[1] : b \in picked} \ pk.queue
<1>1. S \in SUBSET Pieces
  BY BlocksInPieces
<1>2. OpenPieces(pk, S) \in Pickers
  BY <1>1, OpenPiecesType
<1>3. \A blk \in BlockRecords : Request(blk, peer, Slow) \in BlockRecords
  BY BlockOperationTypes
<1>4. QED
  BY <1>2, <1>3 DEF PickPieces, Pickers

-----------------------------------------------------------------------------

\* The head of the queue is only done when there is one.
TypeInv == TypeOK /\ (disk = "done" => tasks # <<>>)
-----------------------------------------------------------------------------
(* Lemmas about the store, the queue and the request handlers.             *)

LEMMA StoreTypes ==
  ASSUME NEW st \in Stores
  PROVE  /\ \A b \in Blocks, c \in Bytes : WriteBlock(st, b, c) \in Stores
         /\ \A b \in Blocks : RestoreBlock(st, b) \in Stores
         /\ \A p \in Pieces : DropManager(st, p) \in Stores
         /\ \A d \in BOOLEAN : ReleaseFile(st, d) \in Stores
         /\ \A b \in Blocks, c \in Contents : [st EXCEPT !.file[b] = c] \in Stores
<1>1. \A s \in Stores, b \in Blocks, c \in Contents : RegisterBlock(s, b, c) \in Stores
  BY DEF RegisterBlock, Stores, Contents, Bytes
<1>2. \A b \in Blocks, c \in Contents : [st EXCEPT !.file[b] = c] \in Stores
  BY DEF Stores
<1>3. \A b \in Blocks, c \in Bytes : WriteBlock(st, b, c) \in Stores
  BY <1>1, <1>2 DEF WriteBlock, Contents
<1>4. \A b \in Blocks : RestoreBlock(st, b) \in Stores
  BY <1>1 DEF RestoreBlock, Stores, Contents, Bytes
<1>5. \A p \in Pieces : DropManager(st, p) \in Stores
  BY DEF DropManager, Stores, Contents, Bytes
<1>6. \A d \in BOOLEAN : ReleaseFile(st, d) \in Stores
  BY DEF ReleaseFile, Stores, Contents, Bytes, Nothing
<1>7. QED
  BY <1>2, <1>3, <1>4, <1>5, <1>6

\* The kind of a task says what it holds.
LEMMA TaskKinds ==
  ASSUME NEW t \in Tasks
  PROVE  /\ t.kind = "write"   => t.block \in Blocks /\ t.bytes \in Bytes
         /\ t.kind = "hash"    => t.piece \in Pieces
         /\ t.kind = "restore" => t.block \in Blocks
         /\ t.kind = "release" => t.deleteFile \in BOOLEAN
  BY DEF Tasks, WriteTasks, HashTasks, RestoreTasks, ReleaseTasks

LEMMA TaskTypes ==
  /\ \A b \in Blocks, c \in Bytes : AsyncWrite(b, c) \in Tasks
  /\ \A p \in Pieces : AsyncHash(p) \in Tasks
  /\ \A b \in Blocks : AsyncRestore(b) \in Tasks
  /\ \A d \in BOOLEAN : AsyncRelease(d) \in Tasks
  BY DEF Tasks, WriteTasks, HashTasks, RestoreTasks, ReleaseTasks, AsyncWrite, AsyncHash,
         AsyncRestore, AsyncRelease

LEMMA HeadType ==
  ASSUME TypeInv, tasks # <<>>
  PROVE  /\ Head(tasks) \in Tasks
         /\ Tail(tasks) \in Seq(Tasks)
  BY DEF TypeInv, TypeOK

LEMMA FollowupType ==
  ASSUME NEW pk, NEW p \in Pieces
  PROVE  /\ HashFollowup(pk, p) \in Seq(Tasks)
         /\ TypeInv => PendingAfter(HashFollowup(pk, p), p) \in SUBSET Pieces
<1>1. <<AsyncHash(p)>> \in Seq(Tasks)
  BY TaskTypes
<1>2. QED
  BY <1>1 DEF HashFollowup, PendingAfter, TypeInv, TypeOK

LEMMA RequestBlocksType ==
  ASSUME PickerAssumption, TypeInv, NEW pk \in Pickers, NEW p \in Peers,
         NEW phase \in Phases, NEW queue \in SUBSET Blocks,
         NEW offered, RequestBlocks(pk, p, phase, queue, offered)
  PROVE  picker' \in Pickers /\ conn' \in [Peers -> Connections]
<1> DEFINE picked == IF queue = {}
                     THEN PickedBlocks(pk, RequestQueueSize, offered) ELSE {}
           new == [phase   |-> phase,
                   closing |-> conn[p].closing \/ (queue = {} /\ picked = {}),
                   queue   |-> queue \union picked]
<1>1. picked \in SUBSET Blocks
  BY DEF PickedBlocks, FreeBlocks
<1>2. picker' = PickPieces(pk, picked, p, Slow) /\ conn' = [conn EXCEPT ![p] = new]
  BY DEF RequestBlocks
<1> HIDE DEF picked
<1>3. picker' \in Pickers
  BY <1>1, <1>2, PickPiecesType
<1>4. new \in Connections
  BY <1>1 DEF TypeInv, TypeOK, Connections
<1>5. QED
  BY <1>2, <1>3, <1>4 DEF TypeInv, TypeOK

\* An accepted upload, early or not, asks for blocks on an open connection.
LEMMA AcceptsBlocks ==
  ASSUME TypeInv, NEW p \in Peers, ReceiveAcceptUpload(p)
  PROVE  \E phase \in Phases \ {"Absent"}, offered \in RemotePieces(p) :
           RequestBlocks(picker, p, phase, conn[p].queue, offered)
<1>1. conn[p].phase \in Phases \ {"Absent"} /\ "Active" \in Phases \ {"Absent"}
  BY DEF TypeInv, TypeOK, Connections, Phases, ReceiveAcceptUpload
<1>2. PICK offered \in RemotePieces(p) :
        RequestBlocks(picker, p, IF conn[p].phase = "Waiting" THEN "Active" ELSE conn[p].phase,
                      conn[p].queue, offered)
  BY DEF ReceiveAcceptUpload
<1>3. CASE conn[p].phase = "Waiting"
  BY <1>1, <1>2, <1>3
<1>4. CASE conn[p].phase # "Waiting"
  BY <1>1, <1>2, <1>4
<1>5. QED
  BY <1>3, <1>4

LEMMA AllClosedType ==
  ASSUME TypeInv
  PROVE  AllClosed \in [Peers -> Connections]
  BY DEF TypeInv, TypeOK, AllClosed, Connections

LEMMA SpendType ==
  ASSUME TypeInv, NEW f \in Faults, Spend(f)
  PROVE  spent' \in [Faults -> Nat]
  BY DEF TypeInv, TypeOK, Spend

\* There are finitely many blocks, so the number of restores is a number.
LEMMA BlocksFinite ==
  ASSUME PickerAssumption, NEW S \in SUBSET Blocks
  PROVE  IsFiniteSet(S) /\ Cardinality(S) \in Nat
<1>1. IsFiniteSet(Pieces) /\ IsFiniteSet(0..(BlocksPerPiece - 1))
  BY FS_Interval DEF PickerAssumption, Pieces
<1>2. IsFiniteSet(Pieces \X (0..(BlocksPerPiece - 1)))
  BY <1>1, FS_Product
<1>3. S \subseteq Pieces \X (0..(BlocksPerPiece - 1))
  BY DEF Blocks
<1>4. QED
  BY <1>2, <1>3, FS_Subset, FS_CardinalityType
-----------------------------------------------------------------------------
(* Every variable stays in its type.                                       *)

LEMMA InitType == PickerAssumption /\ DownloadAssumption /\ Init => TypeInv
<1> SUFFICES ASSUME PickerAssumption, DownloadAssumption, Init PROVE TypeInv
  OBVIOUS
<1>1. picker \in Pickers
  BY EmptyPickerType DEF Init
<1>2. store \in Stores
  BY DEF Init, EmptyStore, Nothing, Stores, Contents, Bytes
<1>3. conn \in [Peers -> Connections]
  BY DEF Init, NoConnection, Connections, Phases
<1>4. saved \in SavedStates
  BY DEF Init, Snapshot, SavedStates, HavePieces, FinishedBlocks
<1>5. tasks \in Seq(Tasks) /\ disk = "idle" /\ outcome \in BOOLEAN
  BY DEF Init, DiskInit
<1>6. QED
  BY <1>1, <1>2, <1>3, <1>4, <1>5 DEF Init, TypeInv, TypeOK, TransferStates

\* A tick action that concerns a connection.
LEMMA ConnectionStepType ==
  ASSUME PickerAssumption, DownloadAssumption, TypeInv, NEW p \in Peers,
         \/ ConnectToPeer(p) \/ ReceiveHashSet(p) \/ ReceiveAcceptUpload(p)
         \/ \E b \in Blocks, c \in Bytes : ReceiveBlock(p, b, c)
         \/ PeerCloses(p) \/ OnDisconnect(p)
  PROVE  TypeInv'
<1>1. CASE ConnectToPeer(p)
  BY <1>1 DEF TypeInv, TypeOK, ConnectToPeer, Connections, NoConnection, Phases,
     transferVars, diskVars
<1>2. CASE ReceiveHashSet(p)
  BY <1>2 DEF TypeInv, TypeOK, ReceiveHashSet, Connections, Phases, diskVars
<1>3. CASE ReceiveAcceptUpload(p)
  <2>1. picker \in Pickers /\ conn[p].queue \in SUBSET Blocks
    BY DEF TypeInv, TypeOK, Connections
  <2>2. picker' \in Pickers /\ conn' \in [Peers -> Connections]
    BY <1>3, <2>1, AcceptsBlocks, RequestBlocksType
  <2>3. spent' \in [Faults -> Nat]
    BY <1>3, SpendType DEF ReceiveAcceptUpload, TypeInv, TypeOK, Faults
  <2>4. QED
    BY <1>3, <2>2, <2>3 DEF TypeInv, TypeOK, ReceiveAcceptUpload, transferVars, diskVars
<1>4. ASSUME NEW b \in Blocks, NEW c \in Bytes, ReceiveBlock(p, b, c)
      PROVE  TypeInv'
  <2> DEFINE written  == MarkAsWriting(picker, b)
             accepted == CanWrite(picker, b)
             followup == IF accepted /\ ~IsPieceFinished(picker, b[1])
                         THEN HashFollowup(written, b[1]) ELSE <<>>
             new      == (IF accepted THEN <<AsyncWrite(b, c)>> ELSE <<>>) \o followup
  <2>1. /\ IF c = "bad" THEN Spend("bad") ELSE UNCHANGED spent
        /\ Submit(new)
        /\ pendingHashes' = PendingAfter(followup, b[1])
        /\ \E offered : RequestBlocks(written, p, conn[p].phase, conn[p].queue \ {b}, offered)
        /\ pumping' = pumping
        /\ UNCHANGED <<store, hashSet, pendingResumeIO, paused, aborted, state, saved>>
    BY <1>4 DEF ReceiveBlock
  <2>2. picker \in Pickers /\ conn[p].queue \ {b} \in SUBSET Blocks /\ conn[p].phase \in Phases
    BY DEF TypeInv, TypeOK, Connections
  <2>3. written \in Pickers
    BY <2>2, MarkingTypes
  <2>4. picker' \in Pickers /\ conn' \in [Peers -> Connections]
    BY <2>1, <2>2, <2>3, RequestBlocksType
  <2>5. b[1] \in Pieces
    BY BlocksInPieces
  <2>6. followup \in Seq(Tasks) /\ PendingAfter(followup, b[1]) \in SUBSET Pieces
    BY <2>5, FollowupType DEF PendingAfter, TypeInv, TypeOK
  <2>7. new \in Seq(Tasks)
    <3>1. <<AsyncWrite(b, c)>> \in Seq(Tasks) /\ <<>> \in Seq(Tasks)
      BY TaskTypes
    <3>2. QED
      BY <3>1, <2>6
  <2>8. spent' \in [Faults -> Nat]
    BY <2>1, SpendType DEF TypeInv, TypeOK, Faults
  <2> HIDE DEF written, accepted, followup, new
  <2>9. /\ tasks' \in Seq(Tasks) /\ disk' = disk /\ outcome' = outcome
        /\ tasks # <<>> => tasks' # <<>>
    BY <2>1, <2>7 DEF Submit, TypeInv, TypeOK
  <2>10. QED
    BY <2>1, <2>4, <2>6, <2>8, <2>9 DEF TypeInv, TypeOK
<1>5. CASE PeerCloses(p)
  <2>1. spent' \in [Faults -> Nat]
    BY <1>5, SpendType DEF PeerCloses, Faults
  <2>2. QED
    BY <1>5, <2>1 DEF TypeInv, TypeOK, PeerCloses, Connections, transferVars, diskVars
<1>6. CASE OnDisconnect(p)
  <2>1. picker' \in Pickers
    BY <1>6, AbortDownloadsType DEF OnDisconnect, TypeInv, TypeOK, Connections
  <2>2. QED
    BY <1>6, <2>1 DEF TypeInv, TypeOK, OnDisconnect, Connections, NoConnection, Phases,
       transferVars, diskVars
<1>7. QED
  BY <1>1, <1>2, <1>3, <1>4, <1>5, <1>6

\* A callback of a disk task.
LEMMA DiskCallbackType ==
  ASSUME PickerAssumption, TypeInv, DiskCallback
  PROVE  TypeInv'
<1> DEFINE t == Head(tasks)
<1>1. disk = "done" /\ tasks # <<>>
  BY DEF DiskCallback, OnBlockWritten, OnBlockWriteFailed, OnPieceHashed, OnBlockRestored,
     OnBlockRestoreFailed, OnReleaseFile, Done, TypeInv
<1>2. t \in Tasks /\ Tail(tasks) \in Seq(Tasks)
  BY <1>1, HeadType
<1>3. ASSUME NEW followups \in Seq(Tasks), RemoveDone(followups)
      PROVE  tasks' \in Seq(Tasks) /\ disk' = "idle" /\ outcome' = TRUE
  BY <1>2, <1>3 DEF RemoveDone
<1>4. <<>> \in Seq(Tasks) /\ <<AsyncRelease(FALSE)>> \in Seq(Tasks)
  <2>1. \A x \in Tasks : <<x>> \in Seq(Tasks)
    OBVIOUS
  <2>2. FALSE \in BOOLEAN /\ <<>> \in Seq(Tasks)
    OBVIOUS
  <2>3. QED
    BY <2>1, <2>2, TaskTypes, Zenon
<1>5. AllClosed \in [Peers -> Connections]
  BY AllClosedType
<1>6. picker \in Pickers
  BY DEF TypeInv, TypeOK
<1>7. CASE OnBlockWritten
  <2> DEFINE b        == Head(tasks).block
             finished == MarkAsFinished(picker, b)
             followup == HashFollowup(finished, b[1])
  <2>1. b \in Blocks /\ b[1] \in Pieces
    BY <1>2, <1>7, TaskKinds, BlocksInPieces DEF OnBlockWritten, Done
  <2>2. /\ picker' = finished /\ RemoveDone(followup)
        /\ pendingHashes' = PendingAfter(followup, b[1])
    BY <1>7 DEF OnBlockWritten
  <2>3. finished \in Pickers
    BY <2>1, <1>6, MarkingTypes
  <2> HIDE DEF finished, b
  <2>4. followup \in Seq(Tasks) /\ PendingAfter(followup, b[1]) \in SUBSET Pieces
    BY <2>1, FollowupType
  <2> HIDE DEF followup
  <2>5. tasks' \in Seq(Tasks) /\ disk' = "idle" /\ outcome' = TRUE
    BY <1>3, <2>2, <2>4
  <2>6. QED
    BY <1>7, <2>2, <2>3, <2>4, <2>5 DEF OnBlockWritten, TypeInv, TypeOK
<1>8. CASE OnBlockWriteFailed
  <2>1. Head(tasks).block \in Blocks
    BY <1>2, <1>8, TaskKinds DEF OnBlockWriteFailed, Done
  <2>2. picker' \in Pickers
    BY <1>6, <1>8, <2>1, AbortDownloadsType DEF OnBlockWriteFailed
  <2>3. tasks' \in Seq(Tasks) /\ disk' = "idle" /\ outcome' = TRUE
    BY <1>3, <1>4, <1>8 DEF OnBlockWriteFailed
  <2>4. QED
    BY <1>5, <1>8, <2>2, <2>3 DEF OnBlockWriteFailed, TypeInv, TypeOK
<1>9. CASE OnPieceHashed
  <2> DEFINE p   == Head(tasks).piece
             pk  == IF hashSet /\ ~outcome THEN RestorePiece(picker, p)
                                           ELSE WeHave(picker, p)
             end == IsFinished(pk)
             followups == IF end THEN <<AsyncRelease(FALSE)>> ELSE <<>>
  <2>1. p \in Pieces
    BY <1>2, <1>9, TaskKinds DEF OnPieceHashed, Done
  <2>2. pk \in Pickers
    BY <1>6, <2>1, ClosePieceType DEF RestorePiece, WeHave, PieceStates
  <2>3. /\ picker' = pk
        /\ pendingHashes' = pendingHashes \ {p}
        /\ conn' = IF end THEN AllClosed ELSE conn
        /\ state' = IF end THEN "Finished" ELSE state
        /\ RemoveDone(followups)
    BY <1>9 DEF OnPieceHashed
  <2> HIDE DEF pk, p
  <2>4. followups \in Seq(Tasks)
    BY <1>4
  <2> HIDE DEF end, followups
  <2>5. tasks' \in Seq(Tasks) /\ disk' = "idle" /\ outcome' = TRUE
    BY <1>3, <2>3, <2>4
  <2>6. QED
    BY <1>5, <1>9, <2>2, <2>3, <2>5 DEF OnPieceHashed, TypeInv, TypeOK, TransferStates
<1>10. CASE OnBlockRestored
  <2>1. Head(tasks).block \in Blocks
    BY <1>2, <1>10, TaskKinds DEF OnBlockRestored, Done
  <2>2. WeHaveBlock(picker, Head(tasks).block) \in Pickers
    BY <1>6, <2>1, MarkingTypes
  <2>3. picker' \in Pickers /\ pendingResumeIO' \in Nat
    BY <1>10, <2>2 DEF OnBlockRestored, TypeInv, TypeOK
  <2>4. state' \in TransferStates
    BY <1>10 DEF OnBlockRestored, TypeInv, TypeOK, TransferStates
  <2>5. tasks' \in Seq(Tasks) /\ disk' = "idle" /\ outcome' = TRUE
    BY <1>3, <1>4, <1>10 DEF OnBlockRestored
  <2>6. QED
    BY <1>10, <2>3, <2>4, <2>5 DEF OnBlockRestored, TypeInv, TypeOK
<1>11. CASE OnBlockRestoreFailed
  <2>1. tasks' \in Seq(Tasks) /\ disk' = "idle" /\ outcome' = TRUE
    BY <1>3, <1>4, <1>11 DEF OnBlockRestoreFailed
  <2>2. QED
    BY <1>5, <1>11, <2>1 DEF OnBlockRestoreFailed, TypeInv, TypeOK
<1>12. CASE OnReleaseFile
  <2>1. tasks' \in Seq(Tasks) /\ disk' = "idle" /\ outcome' = TRUE
    BY <1>3, <1>4, <1>12 DEF OnReleaseFile
  <2>2. QED
    BY <1>12, <2>1 DEF OnReleaseFile, TypeInv, TypeOK, transferVars
<1>13. QED
  BY <1>7, <1>8, <1>9, <1>10, <1>11, <1>12 DEF DiskCallback

\* A disk task in its goroutine.
LEMMA DiskGoroutineType ==
  ASSUME PickerAssumption, TypeInv, DiskGoroutine
  PROVE  TypeInv'
<1>1. tasks # <<>> /\ Head(tasks) \in Tasks
  BY HeadType DEF DiskGoroutine, RunWrite, RunHash, RunRestore, RunRelease, Runnable
<1>2. store \in Stores
  BY DEF TypeInv, TypeOK
<1>3. CASE RunWrite
  <2>1. Head(tasks).block \in Blocks /\ Head(tasks).bytes \in Bytes
    BY <1>1, <1>3, TaskKinds DEF RunWrite, Runnable
  <2>2. store' \in Stores
    <3>1. store.file[Head(tasks).block] \in Contents /\ "bad" \in Contents
      BY <1>2, <2>1 DEF Stores, Contents, Bytes
    <3>2. PICK c \in Contents :
            \/ store' = WriteBlock(store, Head(tasks).block, Head(tasks).bytes)
            \/ store' = [store EXCEPT !.file[Head(tasks).block] = c]
      BY <1>3, <3>1 DEF RunWrite
    <3>3. WriteBlock(store, Head(tasks).block, Head(tasks).bytes) \in Stores
      BY <1>2, <2>1, StoreTypes
    <3>4. [store EXCEPT !.file[Head(tasks).block] = c] \in Stores
      BY <1>2, <2>1, StoreTypes
    <3>5. QED
      BY <3>2, <3>3, <3>4
  <2>3. spent' \in [Faults -> Nat]
    BY <1>3, SpendType DEF RunWrite, TypeInv, TypeOK, Faults
  <2>4. QED
    BY <1>1, <1>3, <2>2, <2>3 DEF RunWrite, RunHead, TypeInv, TypeOK, transferVars
<1>4. CASE RunHash
  <2>1. Head(tasks).piece \in Pieces
    BY <1>1, <1>4, TaskKinds DEF RunHash, Runnable
  <2>2. store' \in Stores
    BY <1>2, <1>4, <2>1, StoreTypes DEF RunHash
  <2>3. QED
    BY <1>1, <1>4, <2>2 DEF RunHash, RunHead, HashMatches, TypeInv, TypeOK, transferVars
<1>5. CASE RunRestore
  <2>1. Head(tasks).block \in Blocks
    BY <1>1, <1>5, TaskKinds DEF RunRestore, Runnable
  <2>2. store' \in Stores
    BY <1>2, <1>5, <2>1, StoreTypes DEF RunRestore
  <2>3. spent' \in [Faults -> Nat]
    BY <1>5, SpendType DEF RunRestore, TypeInv, TypeOK, Faults
  <2>4. QED
    BY <1>1, <1>5, <2>2, <2>3 DEF RunRestore, RunHead, TypeInv, TypeOK, transferVars
<1>6. CASE RunRelease
  <2>1. Head(tasks).deleteFile \in BOOLEAN
    BY <1>1, <1>6, TaskKinds DEF RunRelease, Runnable
  <2>2. store' \in Stores
    BY <1>2, <1>6, <2>1, StoreTypes DEF RunRelease
  <2>3. QED
    BY <1>1, <1>6, <2>2 DEF RunRelease, RunHead, TypeInv, TypeOK, transferVars
<1>7. QED
  BY <1>3, <1>4, <1>5, <1>6 DEF DiskGoroutine

\* A call of the API, and a restart from the state file.
LEMMA ApiType ==
  ASSUME PickerAssumption, TypeInv, API
  PROVE  TypeInv'
<1>1. CASE PauseTransfer
  <2>1. spent' \in [Faults -> Nat]
    BY <1>1, SpendType DEF PauseTransfer, Faults
  <2>2. conn' \in [Peers -> Connections] /\ pumping' \in Peers \union {NoPeer}
    BY <1>1, AllClosedType DEF PauseTransfer, CloseUnderTick, TypeInv, TypeOK
  <2>3. QED
    BY <1>1, <2>1, <2>2 DEF PauseTransfer, TypeInv, TypeOK, diskVars
<1>2. CASE ResumeTransfer
  BY <1>2 DEF ResumeTransfer, TypeInv, TypeOK, diskVars
<1>3. ASSUME NEW d \in BOOLEAN, RemoveTransfer(d)
      PROVE  TypeInv'
  <2>1. spent' \in [Faults -> Nat]
    BY <1>3, SpendType DEF RemoveTransfer, Faults
  <2>2. conn' \in [Peers -> Connections] /\ pumping' \in Peers \union {NoPeer}
    BY <1>3, AllClosedType DEF RemoveTransfer, CloseUnderTick, TypeInv, TypeOK
  <2>3. AsyncRelease(d) \in Tasks
    BY TaskTypes, Zenon
  <2>4. tasks' = tasks \o <<AsyncRelease(d)>> /\ disk' = disk /\ outcome' = outcome
    BY <1>3 DEF RemoveTransfer, Submit
  <2>5. tasks' \in Seq(Tasks) /\ (tasks # <<>> => tasks' # <<>>)
    BY <2>3, <2>4 DEF TypeInv, TypeOK
  <2>6. QED
    BY <1>3, <2>1, <2>2, <2>4, <2>5 DEF RemoveTransfer, TypeInv, TypeOK
<1>4. CASE SaveState
  <2>1. spent' \in [Faults -> Nat]
    BY <1>4, SpendType DEF SaveState, Faults
  <2>2. Snapshot \in SavedStates /\ NoState \in SavedStates
    BY DEF Snapshot, NoState, SavedStates, HavePieces, FinishedBlocks, TypeInv, TypeOK
  <2>3. QED
    BY <1>4, <2>1, <2>2 DEF SaveState, TypeInv, TypeOK, transferVars, diskVars
<1>5. QED
  BY <1>1, <1>2, <1>3, <1>4 DEF API

LEMMA RestartType ==
  ASSUME PickerAssumption, TypeInv, Restart
  PROVE  TypeInv'
<1> DEFINE n == Cardinality(saved.blocks)
<1>1. saved \in SavedStates /\ saved.blocks \in SUBSET Blocks /\ saved.have \in SUBSET Pieces
      /\ saved.hashSet \in BOOLEAN /\ saved.paused \in BOOLEAN
  BY DEF TypeInv, TypeOK, SavedStates
<1>2. n \in Nat
  BY <1>1, BlocksFinite
<1>3. picker' \in Pickers
  BY <1>1, EmptyPickerType, RestoreHaveType DEF Restart
<1>4. store' \in Stores
  BY DEF Restart, TypeInv, TypeOK, Stores, EmptyStore, Nothing, Contents, Bytes
<1>5. conn' \in [Peers -> Connections]
  BY DEF Restart, NoConnection, Connections, Phases
<1>6. spent' \in [Faults -> Nat]
  BY SpendType DEF Restart, Faults
<1>7. state' \in TransferStates
  BY DEF Restart, TransferStates
<1>8. tasks' \in Seq(Tasks)
  <2>1. PICK s \in RestoreOrders(saved.blocks) : tasks' = [i \in 1..n |-> AsyncRestore(s[i])]
    BY DEF Restart
  <2>2. \A i \in 1..n : s[i] \in Blocks
    BY <1>1, <2>1 DEF RestoreOrders
  <2>3. \A i \in 1..n : AsyncRestore(s[i]) \in Tasks
    BY <2>2, TaskTypes
  <2> HIDE DEF n
  <2>4. QED
    BY <1>2, <2>1, <2>3
<1>9. /\ pumping' = NoPeer /\ hashSet' = saved.hashSet /\ pendingHashes' = {}
      /\ pendingResumeIO' = n /\ paused' = saved.paused /\ aborted' = FALSE
      /\ disk' = "idle" /\ outcome' = TRUE /\ saved' = saved
  BY DEF Restart
<1>10. QED
  BY <1>1, <1>2, <1>3, <1>4, <1>5, <1>6, <1>7, <1>8, <1>9 DEF TypeInv, TypeOK

LEMMA EndPumpType ==
  ASSUME TypeInv, EndPump
  PROVE  TypeInv'
  BY DEF TypeInv, TypeOK, EndPump, transferVars, diskVars

LEMMA NextType ==
  ASSUME PickerAssumption, DownloadAssumption, TypeInv, [Next]_vars
  PROVE  TypeInv'
<1>1. CASE Tick
  BY <1>1, ConnectionStepType, DiskCallbackType, EndPumpType DEF Tick
<1>2. CASE DiskGoroutine
  BY <1>2, DiskGoroutineType
<1>3. CASE API
  BY <1>3, ApiType
<1>4. CASE Restart
  BY <1>4, RestartType
<1>5. CASE UNCHANGED vars
  BY <1>5 DEF vars, transferVars, diskVars, TypeInv, TypeOK
<1>6. QED
  BY <1>1, <1>2, <1>3, <1>4, <1>5 DEF Next

\* Every variable of a transfer stays in its type, and a result only arrives
\* for a task that is still queued.
THEOREM TypeCorrect == Spec => []TypeOK
<1>1. Init => TypeInv
  BY InitType, PickerAssumption, DownloadAssumption
<1>2. TypeInv /\ [Next]_vars => TypeInv'
  BY NextType, PickerAssumption, DownloadAssumption
<1>3. TypeInv => TypeOK
  BY DEF TypeInv
<1>4. QED
  BY <1>1, <1>2, <1>3, PTL DEF Spec
-----------------------------------------------------------------------------
(* A requested block is in the queue of the connection that asked last.    *)

(* RequestsAreHeld is not inductive: a second downloader would survive the  *)
(* disconnection of the first, and an unknown one would never be aborted.   *)
(* Held adds that a requested block has exactly one downloader, a block     *)
(* that is free has none, and a piece without DownloadingPiece only has     *)
(* free blocks.                                                             *)
Held(pk, cn) ==
  \A b \in Blocks :
    /\ b[1] \notin pk.queue => pk.block[b].state = "None"
    /\ pk.block[b].state = "None" => pk.block[b].downloaders = 0
    /\ pk.block[b].state = "Requested" =>
         /\ pk.block[b].downloaders = 1
         /\ pk.block[b].last \in Peers
         /\ b \in cn[pk.block[b].last].queue

AbsentIsEmpty == \A p \in Peers : conn[p].phase = "Absent" => conn[p].queue = {}

HeldInv == TypeInv /\ AbsentIsEmpty /\ Held(picker, conn)

\* Held only looks at the queues of the connections.
LEMMA HeldSameQueues ==
  ASSUME NEW pk \in Pickers, NEW cn \in [Peers -> Connections],
         NEW dn \in [Peers -> Connections], Held(pk, cn),
         \A p \in Peers : cn[p].queue \subseteq dn[p].queue
  PROVE  Held(pk, dn)
  BY DEF Held

LEMMA HeldClosePiece ==
  ASSUME NEW pk \in Pickers, NEW cn, Held(pk, cn), NEW p \in Pieces, NEW status
  PROVE  Held(ClosePiece(pk, p, status), cn)
<1> DEFINE new == ClosePiece(pk, p, status)
<1>1. \A b \in Blocks : new.block[b] = IF b[1] = p THEN FreshBlock ELSE pk.block[b]
  BY DEF ClosePiece, Pickers
<1>2. new.queue = pk.queue \ {p}
  BY DEF ClosePiece, Pickers
<1>3. FreshBlock.state = "None" /\ FreshBlock.downloaders = 0
  BY DEF FreshBlock
<1> HIDE DEF new
<1>4. QED
  BY <1>1, <1>2, <1>3 DEF Held, new

LEMMA HeldFinish ==
  ASSUME NEW pk \in Pickers, NEW cn, Held(pk, cn), NEW b \in Blocks
  PROVE  Held(MarkAsFinished(pk, b), cn) /\ Held(WeHaveBlock(pk, b), cn)
<1>1. Held(MarkAsFinished(pk, b), cn)
  BY DEF MarkAsFinished, Finish, Held, Pickers, BlockRecords
<1>2. Held(WeHaveBlock(pk, b), cn)
  <2> DEFINE opened == IF b[1] \in pk.queue THEN pk ELSE OpenPieces(pk, {b[1]})
             new    == WeHaveBlock(pk, b)
  <2>1. opened.block = pk.block /\ opened.queue = pk.queue \union {b[1]}
    BY DEF OpenPieces, Pickers
  <2>2. opened \in Pickers
    BY BlocksInPieces, OpenPiecesType
  <2>3. new = [opened EXCEPT !.block[b] = Finish(@)]
    BY DEF WeHaveBlock
  <2> HIDE DEF opened, new
  <2>4. new.queue = pk.queue \union {b[1]}
    BY <2>1, <2>2, <2>3 DEF Pickers
  <2>5. \A c \in Blocks : new.block[c] = IF c = b THEN Finish(pk.block[b]) ELSE pk.block[c]
    BY <2>1, <2>2, <2>3 DEF Pickers
  <2>6. Finish(pk.block[b]).state = "Finished"
    BY DEF Finish, Pickers, BlockRecords
  <2>7. QED
    BY <2>4, <2>5, <2>6 DEF Held, new
<1>3. QED
  BY <1>1, <1>2

\* Aborting the blocks of S releases each that was requested.
LEMMA HeldAbort ==
  ASSUME PickerAssumption, NEW pk \in Pickers, NEW cn, Held(pk, cn), NEW S \in SUBSET Blocks,
         NEW peer
  PROVE  /\ Held(AbortDownloads(pk, S, peer), cn)
         /\ \A b \in S : AbortDownloads(pk, S, peer).block[b].state # "Requested"
<1> DEFINE new == AbortDownloads(pk, S, peer)
<1>1. new.queue = pk.queue
  BY DEF AbortDownloads, Pickers
<1>2. \A b \in Blocks : new.block[b] = IF b \in S /\ b[1] \in pk.queue
                                       THEN Abort(pk.block[b], peer) ELSE pk.block[b]
  BY DEF AbortDownloads, Pickers
<1>3. ASSUME NEW b \in Blocks
      PROVE  LET old == pk.block[b]  a == Abort(old, peer)
             IN  /\ a.state = "None" => a.downloaders = 0
                 /\ a.state # "Requested"
  <2> DEFINE old  == pk.block[b]
             left == IF old.downloaders > 0 THEN old.downloaders - 1 ELSE 0
  <2>1. old \in BlockRecords
    BY DEF Pickers
  <2>2. old.state \in {"None", "Requested"} => left = 0
    BY <2>1 DEF Held, BlockRecords
  <2>3. Abort(old, peer).downloaders = left
        /\ Abort(old, peer).state = IF left = 0 THEN "None" ELSE old.state
    BY <2>1 DEF Abort, BlockRecords
  <2> HIDE DEF old, left
  <2>4. QED
    BY <2>2, <2>3 DEF old
<1> HIDE DEF new
<1>4. Held(new, cn)
  BY <1>1, <1>2, <1>3 DEF Held
<1>5. \A b \in S : new.block[b].state # "Requested"
  BY <1>2, <1>3 DEF Held
<1>6. QED
  BY <1>4, <1>5 DEF new

\* A connection goes once its blocks are aborted.
LEMMA HeldDisconnect ==
  ASSUME NEW pk \in Pickers, NEW cn \in [Peers -> Connections], NEW p \in Peers, Held(pk, cn),
         \A b \in cn[p].queue : pk.block[b].state # "Requested"
  PROVE  Held(pk, [cn EXCEPT ![p] = NoConnection])
  BY DEF Held

\* A block that is written leaves the queue it came in.
LEMMA HeldWrite ==
  ASSUME NEW pk \in Pickers, NEW cn, Held(pk, cn), NEW b \in Blocks
  PROVE  /\ Held(MarkAsWriting(pk, b), cn)
         /\ MarkAsWriting(pk, b).block[b].state # "Requested"
<1> DEFINE new == MarkAsWriting(pk, b)
<1>1. CASE CanWrite(pk, b)
  <2>1. new.queue = pk.queue
    BY <1>1 DEF MarkAsWriting, Pickers
  <2>2. \A c \in Blocks : new.block[c] = IF c = b THEN Write(pk.block[b]) ELSE pk.block[c]
    BY <1>1 DEF MarkAsWriting, Pickers
  <2>3. Write(pk.block[b]).state = "Writing"
    BY DEF Write, Pickers, BlockRecords
  <2>4. b[1] \in pk.queue
    BY <1>1 DEF CanWrite
  <2> HIDE DEF new
  <2>5. QED
    BY <2>1, <2>2, <2>3, <2>4 DEF Held, new
<1>2. CASE ~CanWrite(pk, b)
  BY <1>2 DEF MarkAsWriting, CanWrite, Held
<1>3. QED
  BY <1>1, <1>2

\* RequestBlocks only asks for free blocks, and queues what it asks for.
LEMMA HeldRequest ==
  ASSUME PickerAssumption, TypeInv, NEW pk \in Pickers, NEW p \in Peers,
         NEW phase \in Phases, NEW queue \in SUBSET Blocks, Held(pk, conn),
         \A b \in conn[p].queue : b \in queue \/ pk.block[b].state # "Requested",
         NEW offered, RequestBlocks(pk, p, phase, queue, offered)
  PROVE  Held(picker', conn')
<1> DEFINE picked == IF queue = {}
                     THEN PickedBlocks(pk, RequestQueueSize, offered) ELSE {}
           opened == OpenPieces(pk, {b[1] : b \in picked} \ pk.queue)
           new    == [phase   |-> phase,
                      closing |-> conn[p].closing \/ (queue = {} /\ picked = {}),
                      queue   |-> queue \union picked]
<1>1. picked \in SUBSET Blocks /\ \A b \in picked : pk.block[b].state = "None"
  BY DEF PickedBlocks, FreeBlocks
<1>2. picker' = PickPieces(pk, picked, p, Slow) /\ conn' = [conn EXCEPT ![p] = new]
  BY DEF RequestBlocks
<1>3. conn' \in [Peers -> Connections] /\ picker' \in Pickers
  BY RequestBlocksType
<1>4. opened \in Pickers
  <2>1. {b[1] : b \in picked} \ pk.queue \in SUBSET Pieces
    BY <1>1, BlocksInPieces
  <2>2. QED
    BY <2>1, OpenPiecesType
<1>5. opened.block = pk.block /\ opened.queue = pk.queue \union {b[1] : b \in picked}
  BY DEF OpenPieces, Pickers
<1>6. PickPieces(pk, picked, p, Slow) =
        [opened EXCEPT !.block = [b \in Blocks |-> IF b \in picked THEN Request(@[b], p, Slow)
                                                                 ELSE @[b]]]
  BY DEF PickPieces
<1> HIDE DEF picked, opened
<1>7. picker'.queue = pk.queue \union {b[1] : b \in picked}
  BY <1>2, <1>4, <1>5, <1>6 DEF Pickers
<1>8. \A b \in Blocks : picker'.block[b] = IF b \in picked THEN Request(pk.block[b], p, Slow)
                                                         ELSE pk.block[b]
  BY <1>2, <1>4, <1>5, <1>6 DEF Pickers
<1>9. \A q \in Peers : conn'[q].queue = IF q = p THEN queue \union picked ELSE conn[q].queue
  BY <1>2 DEF TypeInv, TypeOK
<1>10. \A b \in picked : LET r == Request(pk.block[b], p, Slow)
                         IN  r.state = "Requested" /\ r.downloaders = 1 /\ r.last = p
  BY <1>1 DEF Request, Held
<1>11. QED
  BY <1>1, <1>7, <1>8, <1>9, <1>10 DEF Held

LEMMA HeldInit == PickerAssumption /\ DownloadAssumption /\ Init => HeldInv
<1> SUFFICES ASSUME PickerAssumption, DownloadAssumption, Init PROVE HeldInv
  OBVIOUS
<1>1. TypeInv
  BY InitType
<1>2. Held(picker, conn)
  BY DEF Init, EmptyPicker, FreshBlock, Held
<1>3. AbsentIsEmpty
  BY DEF Init, NoConnection, AbsentIsEmpty
<1>4. QED
  BY <1>1, <1>2, <1>3 DEF HeldInv

\* A connection that is closed and gone has no queue left behind.
LEMMA AbsentNext ==
  ASSUME PickerAssumption, DownloadAssumption, TypeInv, AbsentIsEmpty, [Next]_vars
  PROVE  AbsentIsEmpty'
<1> USE DEF TypeInv, TypeOK, AbsentIsEmpty, Connections
<1>1. ASSUME conn' = conn \/ conn' = AllClosed
      PROVE  AbsentIsEmpty'
  BY <1>1 DEF AllClosed
<1>2. ASSUME NEW p \in Peers, NEW phase \in Phases \ {"Absent"}, NEW pk, NEW queue,
             NEW offered, RequestBlocks(pk, p, phase, queue, offered)
      PROVE  AbsentIsEmpty'
  BY <1>2 DEF RequestBlocks
<1>3. ASSUME NEW p \in Peers, ConnectToPeer(p) \/ ReceiveHashSet(p) \/ PeerCloses(p)
                              \/ OnDisconnect(p)
      PROVE  AbsentIsEmpty'
  <2>1. CASE ConnectToPeer(p) \/ OnDisconnect(p)
    <3>1. PICK c : c.queue = {} /\ conn' = [conn EXCEPT ![p] = c]
      BY <2>1 DEF ConnectToPeer, OnDisconnect, NoConnection
    <3>2. QED
      BY <3>1
  <2>2. CASE ReceiveHashSet(p) \/ PeerCloses(p)
    <3>1. /\ conn[p].phase # "Absent"
          /\ \/ conn' = [conn EXCEPT ![p].phase = "Waiting"]
             \/ conn' = [conn EXCEPT ![p].closing = TRUE]
      BY <2>2 DEF ReceiveHashSet, PeerCloses, Live
    <3>2. QED
      BY <3>1
  <2>3. QED
    BY <1>3, <2>1, <2>2
<1>4. CASE Tick
  <2>1. CASE DiskCallback \/ EndPump
    <3>1. conn' = conn \/ conn' = AllClosed
      BY <2>1 DEF EndPump, DiskCallback, OnBlockWritten, OnBlockWriteFailed,
         OnPieceHashed, OnBlockRestored, OnBlockRestoreFailed, OnReleaseFile
    <3>2. QED
      BY <1>1, <3>1
  <2>2. ASSUME NEW p \in Peers,
               \/ ReceiveAcceptUpload(p)
               \/ \E b \in Blocks, c \in Bytes : ReceiveBlock(p, b, c)
        PROVE  AbsentIsEmpty'
    <3>1. CASE ReceiveAcceptUpload(p)
      BY <1>2, <3>1, AcceptsBlocks
    <3>2. ASSUME NEW b \in Blocks, NEW c \in Bytes, ReceiveBlock(p, b, c)
          PROVE  AbsentIsEmpty'
      <4>1. conn[p].phase \in Phases \ {"Absent"}
        BY <3>2 DEF ReceiveBlock
      <4>2. QED
        BY <1>2, <3>2, <4>1 DEF ReceiveBlock
    <3>3. QED
      BY <2>2, <3>1, <3>2
  <2>3. QED
    BY <1>3, <1>4, <2>1, <2>2 DEF Tick
<1>5. CASE DiskGoroutine
  BY <1>1, <1>5 DEF DiskGoroutine, RunWrite, RunHash, RunRestore, RunRelease
<1>6. CASE API
  BY <1>1, <1>6 DEF API, PauseTransfer, ResumeTransfer, RemoveTransfer, SaveState,
     CloseUnderTick
<1>7. CASE Restart
  BY <1>7 DEF Restart, NoConnection
<1>8. CASE UNCHANGED vars
  BY <1>1, <1>8 DEF vars
<1>9. QED
  BY <1>4, <1>5, <1>6, <1>7, <1>8 DEF Next

LEMMA HeldNext ==
  ASSUME PickerAssumption, DownloadAssumption, HeldInv, [Next]_vars
  PROVE  HeldInv'
<1>1. TypeInv /\ TypeInv' /\ AbsentIsEmpty /\ AbsentIsEmpty' /\ Held(picker, conn)
  BY NextType, AbsentNext DEF HeldInv
<1>2. picker \in Pickers /\ conn \in [Peers -> Connections] /\ conn' \in [Peers -> Connections]
  BY <1>1 DEF TypeInv, TypeOK
<1>3. \A p \in Peers : conn[p].queue \in SUBSET Blocks
  BY <1>2 DEF Connections
<1>4. SUFFICES Held(picker', conn')
  BY <1>1 DEF HeldInv
<1>5. ASSUME picker' = picker, \A p \in Peers : conn[p].queue \subseteq conn'[p].queue
      PROVE  Held(picker', conn')
  BY <1>1, <1>2, <1>5, HeldSameQueues
<1>6. ASSUME NEW pk \in Pickers, picker' = pk, conn' = conn \/ conn' = AllClosed, Held(pk, conn)
      PROVE  Held(picker', conn')
  <2>1. \A p \in Peers : conn[p].queue = conn'[p].queue
    BY <1>2, <1>6 DEF AllClosed, Connections
  <2>2. QED
    BY <1>2, <1>6, <2>1, HeldSameQueues
<1>7. ASSUME disk = "done"
      PROVE  LET t == Head(tasks)
             IN  /\ t.kind \in {"write", "restore"} => t.block \in Blocks
                 /\ t.kind = "hash" => t.piece \in Pieces
  BY <1>1, <1>7, HeadType, TaskKinds DEF TypeInv
<1>8. ASSUME NEW p \in Peers, ConnectToPeer(p) \/ ReceiveHashSet(p) \/ PeerCloses(p)
      PROVE  Held(picker', conn')
  <2>1. picker' = picker /\ \A q \in Peers : conn[q].queue \subseteq conn'[q].queue
    BY <1>1, <1>2, <1>8 DEF ConnectToPeer, ReceiveHashSet, PeerCloses, NoConnection,
       Connections, AbsentIsEmpty
  <2>2. QED
    BY <1>5, <2>1
<1>9. ASSUME NEW p \in Peers, ReceiveAcceptUpload(p)
      PROVE  Held(picker', conn')
  <2>1. PICK phase \in Phases, offered \in RemotePieces(p) :
          RequestBlocks(picker, p, phase, conn[p].queue, offered)
    BY <1>1, <1>9, AcceptsBlocks
  <2>2. QED
    BY <1>1, <1>2, <1>3, <2>1, HeldRequest
<1>10. ASSUME NEW p \in Peers, NEW b \in Blocks, NEW c \in Bytes, ReceiveBlock(p, b, c)
       PROVE  Held(picker', conn')
  <2> DEFINE written == MarkAsWriting(picker, b)
  <2>1. PICK offered : RequestBlocks(written, p, conn[p].phase, conn[p].queue \ {b}, offered)
    BY <1>10 DEF ReceiveBlock
  <2>2. written \in Pickers
    BY <1>2, MarkingTypes
  <2>3. Held(written, conn) /\ written.block[b].state # "Requested"
    BY <1>1, <1>2, HeldWrite
  <2>4. conn[p].phase \in Phases
    BY <1>2 DEF Connections
  <2> HIDE DEF written
  <2>5. QED
    BY <1>1, <1>3, <2>1, <2>2, <2>3, <2>4, HeldRequest
<1>11. ASSUME NEW p \in Peers, OnDisconnect(p)
       PROVE  Held(picker', conn')
  <2> DEFINE new == AbortDownloads(picker, conn[p].queue, p)
  <2>1. picker' = new /\ conn' = [conn EXCEPT ![p] = NoConnection]
    BY <1>11 DEF OnDisconnect
  <2>2. new \in Pickers
    BY <1>2, <1>3, AbortDownloadsType
  <2>3. Held(new, conn) /\ \A b \in conn[p].queue : new.block[b].state # "Requested"
    BY <1>1, <1>2, <1>3, HeldAbort
  <2> HIDE DEF new
  <2>4. QED
    BY <1>2, <2>1, <2>2, <2>3, HeldDisconnect
<1>12. CASE OnBlockWritten
  <2>1. Head(tasks).block \in Blocks /\ picker' = MarkAsFinished(picker, Head(tasks).block)
        /\ conn' = conn
    BY <1>7, <1>12 DEF OnBlockWritten, Done
  <2>2. QED
    BY <1>1, <1>2, <1>6, <2>1, MarkingTypes, HeldFinish
<1>13. CASE OnBlockWriteFailed
  <2>1. Head(tasks).block \in Blocks /\ conn' = AllClosed
        /\ picker' = AbortDownloads(picker, {Head(tasks).block}, NoPeer)
    BY <1>7, <1>13 DEF OnBlockWriteFailed, Done
  <2>2. {Head(tasks).block} \in SUBSET Blocks
    BY <2>1
  <2>3. QED
    BY <1>1, <1>2, <1>6, <2>1, <2>2, AbortDownloadsType, HeldAbort
<1>14. CASE OnPieceHashed
  <2> DEFINE p == Head(tasks).piece
  <2>1. p \in Pieces
    BY <1>7, <1>14 DEF OnPieceHashed, Done
  <2>2. PICK status \in PieceStates :
          picker' = ClosePiece(picker, p, status) /\ (conn' = conn \/ conn' = AllClosed)
    BY <1>14 DEF OnPieceHashed, RestorePiece, WeHave, PieceStates
  <2>3. QED
    BY <1>1, <1>2, <1>6, <2>1, <2>2, ClosePieceType, HeldClosePiece
<1>15. CASE OnBlockRestored
  <2>1. Head(tasks).block \in Blocks /\ picker' = WeHaveBlock(picker, Head(tasks).block)
        /\ conn' = conn
    BY <1>7, <1>15 DEF OnBlockRestored, Done
  <2>2. QED
    BY <1>1, <1>2, <1>6, <2>1, MarkingTypes, HeldFinish
<1>16. CASE \/ EndPump \/ OnBlockRestoreFailed \/ OnReleaseFile \/ DiskGoroutine \/ API
            \/ UNCHANGED vars
  <2>1. picker' = picker /\ (conn' = conn \/ conn' = AllClosed)
    BY <1>16 DEF EndPump, OnBlockRestoreFailed, OnReleaseFile, DiskGoroutine, RunWrite,
       RunHash, RunRestore, RunRelease, API, PauseTransfer, ResumeTransfer,
       RemoveTransfer, SaveState, CloseUnderTick, vars
  <2>2. QED
    BY <1>1, <1>2, <1>6, <2>1
<1>17. CASE Restart
  <2>1. picker'.queue = {} /\ picker'.block = [b \in Blocks |-> FreshBlock]
    BY <1>17 DEF Restart, RestoreHave, EmptyPicker
  <2>2. QED
    BY <2>1 DEF Held, FreshBlock
<1>18. QED
  BY <1>8, <1>9, <1>10, <1>11, <1>12, <1>13, <1>14, <1>15, <1>16, <1>17
     DEF Next, Tick, DiskCallback

\* In every state of every transfer a block counted as requested is in the
\* queue of the connection that asked for it: requests are never leaked by a
\* disconnection, a failed write, a failed hash, a restore or a restart.
THEOREM RequestsHeld == Spec => []RequestsAreHeld
<1>1. Init => HeldInv
  BY HeldInit, PickerAssumption, DownloadAssumption
<1>2. HeldInv /\ [Next]_vars => HeldInv'
  BY HeldNext, PickerAssumption, DownloadAssumption
<1>3. HeldInv => RequestsAreHeld
  BY DEF HeldInv, Held, RequestsAreHeld
<1>4. QED
  BY <1>1, <1>2, <1>3, PTL DEF Spec

-----------------------------------------------------------------------------
(* What the transfer remembers of the disk queue.                          *)

Writing(pk) == {b \in Blocks : pk.block[b].state = "Writing"}

\* A piece with a DownloadingPiece is being downloaded, and a block that is
\* being written has no downloader left.
Tidy(pk) ==
  /\ \A p \in pk.queue : pk.status[p] = "Downloading"
  /\ \A b \in Writing(pk) : pk.block[b].downloaders = 0

\* The n restores come first: only a new process submits them.
RestoresFirst(ts, n) ==
  /\ n \in 0..Len(ts)
  /\ \A i \in 1..Len(ts) : ts[i].kind = "restore" <=> i <= n

\* The hash tasks of ts are those of the pieces of S, each once.
HashTasksOf(ts, S) ==
  /\ \A i \in 1..Len(ts) : ts[i].kind = "hash" => ts[i].piece \in S
  /\ \A p \in S : \E i \in 1..Len(ts) : ts[i].kind = "hash" /\ ts[i].piece = p
  /\ \A i, j \in 1..Len(ts) :
       ts[i].kind = "hash" /\ ts[j].kind = "hash" /\ ts[i].piece = ts[j].piece => i = j

WriteQueued(ts, b) == \E i \in 1..Len(ts) : ts[i].kind = "write" /\ ts[i].block = b

\* What the picker says of a piece with a task in the queue.
PiecesMatch(pk, ts, S) ==
  /\ \A p \in S : pk.status[p] = "Downloading"
  /\ \A i \in 1..Len(ts) : ts[i].kind = "restore" => pk.status[ts[i].block[1]] # "Have"
  /\ \A b \in Writing(pk) : WriteQueued(ts, b)

\* The hash set is known before a block is asked for, written or hashed, unless
\* a peer accepted the upload before it had sent one.
HashSetFirst ==
  \/ hashSet
  \/ spent["early"] # 0
  \/ /\ \A p \in Peers : conn[p].phase \in {"Absent", "Handshake"} /\ conn[p].queue = {}
     /\ \A i \in 1..Len(tasks) : tasks[i].kind # "write"
     /\ pendingHashes = {}

\* The queue, and what the transfer remembers of it.
CoreInv ==
  /\ Tidy(picker)
  /\ RestoresFirst(tasks, pendingResumeIO)
  /\ pendingResumeIO > 0 => state = "LoadingResumeData"
  /\ HashTasksOf(tasks, pendingHashes)
  /\ PiecesMatch(picker, tasks, pendingHashes)

\* A saved block is one of a piece that was not saved as complete.
SavedInv == \A b \in saved.blocks : b[1] \notin saved.have

QueueInv == HeldInv /\ CoreInv /\ SavedInv /\ HashSetFirst
-----------------------------------------------------------------------------
(* Lemmas about the queue.                                                 *)

\* Tasks that are submitted leave the restores in front.
LEMMA RestoresAppend ==
  ASSUME NEW ts \in Seq(Tasks), NEW new \in Seq(Tasks), NEW n, RestoresFirst(ts, n),
         \A i \in 1..Len(new) : new[i].kind # "restore"
  PROVE  RestoresFirst(ts \o new, n)
<1> DEFINE all == ts \o new
<1>1. Len(all) = Len(ts) + Len(new) /\ Len(ts) \in Nat /\ Len(new) \in Nat
  OBVIOUS
<1>2. \A i \in 1..Len(all) : all[i] = IF i <= Len(ts) THEN ts[i] ELSE new[i - Len(ts)]
  OBVIOUS
<1> HIDE DEF all
<1>3. \A i \in 1..Len(all) : all[i].kind = "restore" <=> i <= n
  <2> TAKE i \in 1..Len(all)
  <2>1. CASE i <= Len(ts)
    BY <1>1, <1>2, <2>1 DEF RestoresFirst
  <2>2. CASE i > Len(ts)
    <3>1. i - Len(ts) \in 1..Len(new)
      BY <1>1, <2>2
    <3>2. QED
      BY <1>1, <1>2, <2>2, <3>1 DEF RestoresFirst
  <2>3. QED
    BY <1>1, <2>1, <2>2
<1>4. QED
  BY <1>1, <1>3 DEF RestoresFirst, all

\* The head is a restore exactly while one is counted; it leaves the others.
LEMMA RestoresTail ==
  ASSUME NEW ts \in Seq(Tasks), ts # <<>>, NEW n, RestoresFirst(ts, n)
  PROVE  /\ Head(ts).kind = "restore" <=> n > 0
         /\ RestoresFirst(Tail(ts), IF n > 0 THEN n - 1 ELSE 0)
<1>1. Len(ts) \in Nat \ {0} /\ Head(ts) = ts[1] /\ n \in Nat /\ n <= Len(ts)
  BY DEF RestoresFirst
<1>2. Len(Tail(ts)) = Len(ts) - 1 /\ \A i \in 1..Len(Tail(ts)) : Tail(ts)[i] = ts[i + 1]
  BY <1>1
<1>3. QED
  BY <1>1, <1>2 DEF RestoresFirst

LEMMA HashesAppend ==
  ASSUME NEW ts \in Seq(Tasks), NEW new \in Seq(Tasks), NEW S, NEW T,
         HashTasksOf(ts, S), HashTasksOf(new, T), S \intersect T = {}
  PROVE  HashTasksOf(ts \o new, S \union T)
<1> DEFINE all == ts \o new
           m   == Len(ts)
           k   == Len(new)
<1>1. Len(all) = m + k /\ m \in Nat /\ k \in Nat
  OBVIOUS
<1>2. \A i \in 1..m : all[i] = ts[i]
  OBVIOUS
<1>3. \A i \in 1..k : all[m + i] = new[i]
  OBVIOUS
<1> HIDE DEF all, m, k
<1>4. ASSUME NEW i \in 1..(m + k)
      PROVE  i \in 1..m \/ (i - m \in 1..k /\ i = m + (i - m))
  BY <1>1
<1>5. \A i \in 1..m : all[i].kind = "hash" => all[i].piece \in S
  BY <1>2 DEF HashTasksOf, m
<1>6. \A i \in 1..k : all[m + i].kind = "hash" => all[m + i].piece \in T
  BY <1>3 DEF HashTasksOf, k
<1>7. \A i \in 1..(m + k) : all[i].kind = "hash" => all[i].piece \in S \union T
  BY <1>4, <1>5, <1>6
<1>8. \A p \in S \union T : \E i \in 1..(m + k) : all[i].kind = "hash" /\ all[i].piece = p
  <2>1. ASSUME NEW p \in S
        PROVE  \E i \in 1..(m + k) : all[i].kind = "hash" /\ all[i].piece = p
    <3>1. PICK i \in 1..m : ts[i].kind = "hash" /\ ts[i].piece = p
      BY DEF HashTasksOf, m
    <3>2. i \in 1..(m + k)
      BY <1>1
    <3>3. QED
      BY <1>2, <3>1, <3>2
  <2>2. ASSUME NEW p \in T
        PROVE  \E i \in 1..(m + k) : all[i].kind = "hash" /\ all[i].piece = p
    <3>1. PICK i \in 1..k : new[i].kind = "hash" /\ new[i].piece = p
      BY DEF HashTasksOf, k
    <3>2. m + i \in 1..(m + k)
      BY <1>1
    <3>3. QED
      BY <1>3, <3>1, <3>2
  <2>3. QED
    BY <2>1, <2>2
<1>9. ASSUME NEW i \in 1..(m + k), NEW j \in 1..(m + k),
             all[i].kind = "hash", all[j].kind = "hash", all[i].piece = all[j].piece
      PROVE  i = j
  <2>1. CASE i \in 1..m /\ j \in 1..m
    BY <1>2, <1>9, <2>1 DEF HashTasksOf, m
  <2>2. CASE i \notin 1..m /\ j \notin 1..m
    <3>1. i - m \in 1..k /\ i = m + (i - m) /\ j - m \in 1..k /\ j = m + (j - m)
      BY <1>4, <2>2
    <3>2. new[i - m] = all[i] /\ new[j - m] = all[j]
      BY <1>3, <3>1
    <3>3. i - m = j - m
      BY <1>9, <3>1, <3>2 DEF HashTasksOf, k
    <3>4. QED
      BY <3>1, <3>3
  <2>3. CASE (i \in 1..m) # (j \in 1..m)
    <3>1. \/ all[i].piece \in S /\ all[j].piece \in T
          \/ all[i].piece \in T /\ all[j].piece \in S
      BY <1>4, <1>5, <1>6, <1>9, <2>3
    <3>2. QED
      BY <1>9, <3>1
  <2>4. QED
    BY <2>1, <2>2, <2>3
<1>10. QED
  BY <1>1, <1>7, <1>8, <1>9 DEF HashTasksOf, all

\* The tasks a handler submits, one by one.
LEMMA HashesOfOne ==
  /\ HashTasksOf(<<>>, {})
  /\ \A t \in Tasks : t.kind # "hash" => HashTasksOf(<<t>>, {})
  /\ \A p \in Pieces : HashTasksOf(<<AsyncHash(p)>>, {p})
<1>1. HashTasksOf(<<>>, {})
  BY DEF HashTasksOf
<1>2. \A t : Len(<<t>>) = 1 /\ <<t>>[1] = t
  OBVIOUS
<1>3. \A t \in Tasks : t.kind # "hash" => HashTasksOf(<<t>>, {})
  BY <1>2 DEF HashTasksOf
<1>4. \A p \in Pieces : AsyncHash(p).kind = "hash" /\ AsyncHash(p).piece = p
  BY DEF AsyncHash
<1>5. \A p \in Pieces : HashTasksOf(<<AsyncHash(p)>>, {p})
  BY <1>2, <1>4 DEF HashTasksOf
<1>6. QED
  BY <1>1, <1>3, <1>5

\* A finished hash task takes its piece out of the set.
LEMMA HashesTail ==
  ASSUME NEW ts \in Seq(Tasks), ts # <<>>, NEW S, HashTasksOf(ts, S)
  PROVE  /\ Head(ts).kind # "hash" => HashTasksOf(Tail(ts), S)
         /\ Head(ts).kind = "hash" =>
              Head(ts).piece \in S /\ HashTasksOf(Tail(ts), S \ {Head(ts).piece})
<1> DEFINE m == Len(ts)
<1>1. m \in Nat \ {0} /\ Head(ts) = ts[1] /\ Len(Tail(ts)) = m - 1
      /\ \A i \in 1..(m - 1) : Tail(ts)[i] = ts[i + 1]
  OBVIOUS
<1>2. \A i \in 1..(m - 1) : i + 1 \in 1..m /\ i + 1 # 1
  BY <1>1
<1>3. \A i \in 1..m : i = 1 \/ i - 1 \in 1..(m - 1)
  BY <1>1
<1>4. \A i \in 1..m : i # 1 => Tail(ts)[i - 1] = ts[i]
  BY <1>1, <1>3
<1>5. 1 \in 1..m
  BY <1>1
<1> HIDE DEF m
<1>6. \A i, j \in 1..(m - 1) :
        Tail(ts)[i].kind = "hash" /\ Tail(ts)[j].kind = "hash"
        /\ Tail(ts)[i].piece = Tail(ts)[j].piece => i = j
  <2> TAKE i, j \in 1..(m - 1)
  <2> HAVE /\ Tail(ts)[i].kind = "hash" /\ Tail(ts)[j].kind = "hash"
           /\ Tail(ts)[i].piece = Tail(ts)[j].piece
  <2>1. i + 1 = j + 1
    BY <1>1, <1>2 DEF HashTasksOf, m
  <2>2. QED
    BY <2>1
<1>7. CASE ts[1].kind # "hash"
  <2>1. \A i \in 1..(m - 1) : Tail(ts)[i].kind = "hash" => Tail(ts)[i].piece \in S
    BY <1>1, <1>2 DEF HashTasksOf, m
  <2>2. \A p \in S : \E i \in 1..(m - 1) : Tail(ts)[i].kind = "hash" /\ Tail(ts)[i].piece = p
    <3> TAKE p \in S
    <3>1. PICK i \in 1..m : ts[i].kind = "hash" /\ ts[i].piece = p
      BY DEF HashTasksOf, m
    <3>2. i # 1 /\ i - 1 \in 1..(m - 1)
      BY <1>3, <1>7, <3>1
    <3>3. QED
      BY <1>4, <3>1, <3>2
  <2>3. QED
    BY <1>1, <1>7, <1>6, <2>1, <2>2 DEF HashTasksOf
<1>8. CASE ts[1].kind = "hash"
  <2>1. ts[1].piece \in S
    BY <1>5, <1>8 DEF HashTasksOf, m
  <2>2. \A i \in 1..(m - 1) :
          Tail(ts)[i].kind = "hash" => Tail(ts)[i].piece \in S \ {ts[1].piece}
    BY <1>1, <1>2, <1>5, <1>8 DEF HashTasksOf, m
  <2>3. \A p \in S \ {ts[1].piece} :
          \E i \in 1..(m - 1) : Tail(ts)[i].kind = "hash" /\ Tail(ts)[i].piece = p
    <3> TAKE p \in S \ {ts[1].piece}
    <3>1. PICK i \in 1..m : ts[i].kind = "hash" /\ ts[i].piece = p
      BY DEF HashTasksOf, m
    <3>2. i # 1 /\ i - 1 \in 1..(m - 1)
      BY <1>3, <3>1
    <3>3. QED
      BY <1>4, <3>1, <3>2
  <2>4. QED
    BY <1>1, <1>8, <1>6, <2>1, <2>2, <2>3 DEF HashTasksOf
<1>9. QED
  BY <1>7, <1>8

\* The tasks that stay and those that are added are still there.
LEMMA QueueAppend ==
  ASSUME NEW ts \in Seq(Tasks), NEW new \in Seq(Tasks)
  PROVE  /\ \A b : WriteQueued(ts \o new, b) <=> WriteQueued(ts, b) \/ WriteQueued(new, b)
         /\ \A i \in 1..Len(ts \o new) :
              \/ \E j \in 1..Len(ts) : (ts \o new)[i] = ts[j]
              \/ \E j \in 1..Len(new) : (ts \o new)[i] = new[j]
<1> DEFINE all == ts \o new
           m   == Len(ts)
           k   == Len(new)
<1>1. Len(all) = m + k /\ m \in Nat /\ k \in Nat
  OBVIOUS
<1>2. \A i \in 1..m : all[i] = ts[i]
  OBVIOUS
<1>3. \A i \in 1..k : all[m + i] = new[i]
  OBVIOUS
<1> HIDE DEF all, m, k
<1>4. \A i \in 1..(m + k) : i \in 1..m \/ (i - m \in 1..k /\ i = m + (i - m))
  BY <1>1
<1>5. \A i \in 1..(m + k) :
        (\E j \in 1..m : all[i] = ts[j]) \/ (\E j \in 1..k : all[i] = new[j])
  <2> TAKE i \in 1..(m + k)
  <2>1. CASE i \in 1..m
    BY <1>2, <2>1
  <2>2. CASE i - m \in 1..k /\ i = m + (i - m)
    <3>1. all[m + (i - m)] = new[i - m]
      BY <1>3, <2>2
    <3>2. QED
      BY <2>2, <3>1
  <2>3. QED
    BY <1>4, <2>1, <2>2
<1>6. \A i \in 1..m : i \in 1..(m + k)
  BY <1>1
<1>7. \A i \in 1..k : m + i \in 1..(m + k)
  BY <1>1
<1>8. ASSUME NEW b
      PROVE  WriteQueued(all, b) <=> WriteQueued(ts, b) \/ WriteQueued(new, b)
  <2>1. WriteQueued(all, b) => WriteQueued(ts, b) \/ WriteQueued(new, b)
    BY <1>1, <1>5 DEF WriteQueued, m, k
  <2>2. WriteQueued(ts, b) => WriteQueued(all, b)
    BY <1>1, <1>2, <1>6 DEF WriteQueued, m
  <2>3. WriteQueued(new, b) => WriteQueued(all, b)
    BY <1>1, <1>3, <1>7 DEF WriteQueued, k
  <2>4. QED
    BY <2>1, <2>2, <2>3
<1>9. QED
  BY <1>1, <1>5, <1>8 DEF all, m, k

LEMMA QueueTail ==
  ASSUME NEW ts \in Seq(Tasks), ts # <<>>
  PROVE  /\ \A b : WriteQueued(ts, b) =>
              (Head(ts).kind = "write" /\ Head(ts).block = b) \/ WriteQueued(Tail(ts), b)
         /\ \A i \in 1..Len(Tail(ts)) : \E j \in 1..Len(ts) : Tail(ts)[i] = ts[j]
<1> DEFINE m == Len(ts)
<1>1. m \in Nat \ {0} /\ Head(ts) = ts[1] /\ Len(Tail(ts)) = m - 1
      /\ \A i \in 1..(m - 1) : Tail(ts)[i] = ts[i + 1]
  OBVIOUS
<1>2. \A i \in 1..(m - 1) : i + 1 \in 1..m
  BY <1>1
<1>3. \A i \in 1..m : i = 1 \/ (i - 1 \in 1..(m - 1) /\ Tail(ts)[i - 1] = ts[i])
  BY <1>1
<1> HIDE DEF m
<1>4. \A i \in 1..(m - 1) : \E j \in 1..m : Tail(ts)[i] = ts[j]
  BY <1>1, <1>2
<1>5. ASSUME NEW b, WriteQueued(ts, b)
      PROVE  (ts[1].kind = "write" /\ ts[1].block = b) \/ WriteQueued(Tail(ts), b)
  <2>1. PICK i \in 1..m : ts[i].kind = "write" /\ ts[i].block = b
    BY <1>5 DEF WriteQueued, m
  <2>2. QED
    BY <1>1, <1>3, <2>1 DEF WriteQueued
<1>6. QED
  BY <1>1, <1>4, <1>5 DEF m
-----------------------------------------------------------------------------
(* Lemmas about the picker.                                                *)

\* pk becomes new without a piece leaving the download queue: all operations
\* but RestorePiece and WeHave.
Advances(pk, new) ==
  /\ Tidy(new)
  /\ HavePieces(new) = HavePieces(pk)
  /\ \A p \in Pieces : pk.status[p] = "Downloading" => new.status[p] = "Downloading"

LEMMA AdvancesTransitively ==
  ASSUME NEW pk, NEW mid, NEW new, Advances(pk, mid), Advances(mid, new)
  PROVE  Advances(pk, new)
  BY DEF Advances

\* Operations that only touch blocks.
LEMMA AdvancesSamePieces ==
  ASSUME NEW pk, NEW new, Tidy(pk), new.status = pk.status, new.queue = pk.queue,
         \A b \in Blocks : new.block[b] = pk.block[b] \/ new.block[b].state # "Writing"
                           \/ new.block[b].downloaders = 0
  PROVE  Advances(pk, new)
  BY DEF Advances, Tidy, Writing, HavePieces

LEMMA AdvancesWrite ==
  ASSUME NEW pk \in Pickers, Tidy(pk), NEW b \in Blocks
  PROVE  /\ Advances(pk, MarkAsWriting(pk, b))
         /\ ~CanWrite(pk, b) => MarkAsWriting(pk, b) = pk
         /\ Writing(MarkAsWriting(pk, b)) \subseteq Writing(pk) \union {b}
<1> DEFINE new == MarkAsWriting(pk, b)
<1>1. CASE CanWrite(pk, b)
  <2>1. new.status = pk.status /\ new.queue = pk.queue
    BY <1>1 DEF MarkAsWriting, Pickers
  <2>2. \A c \in Blocks : new.block[c] = IF c = b THEN Write(pk.block[b]) ELSE pk.block[c]
    BY <1>1 DEF MarkAsWriting, Pickers
  <2>3. Write(pk.block[b]).downloaders = 0
    BY DEF Write, Pickers, BlockRecords
  <2> HIDE DEF new
  <2>4. Advances(pk, new)
    BY <2>1, <2>2, <2>3, AdvancesSamePieces
  <2>5. Writing(new) \subseteq Writing(pk) \union {b}
    BY <2>2 DEF Writing
  <2>6. QED
    BY <1>1, <2>4, <2>5 DEF new
<1>2. CASE ~CanWrite(pk, b)
  <2>1. new = pk
    BY <1>2 DEF MarkAsWriting
  <2>2. QED
    BY <1>2, <2>1 DEF Advances
<1>3. QED
  BY <1>1, <1>2

LEMMA AdvancesFinish ==
  ASSUME NEW pk \in Pickers, NEW cn, Held(pk, cn), Tidy(pk), NEW b \in Blocks
  PROVE  /\ Advances(pk, MarkAsFinished(pk, b))
         /\ Writing(MarkAsFinished(pk, b)) \subseteq Writing(pk) \ {b}
<1> DEFINE new == MarkAsFinished(pk, b)
<1>1. CASE b[1] \in pk.queue
  <2>1. new.status = pk.status /\ new.queue = pk.queue
    BY <1>1 DEF MarkAsFinished, Pickers
  <2>2. \A c \in Blocks : new.block[c] = IF c = b THEN Finish(pk.block[b]) ELSE pk.block[c]
    BY <1>1 DEF MarkAsFinished, Pickers
  <2>3. Finish(pk.block[b]).state = "Finished"
    BY DEF Finish, Pickers, BlockRecords
  <2> HIDE DEF new
  <2>4. Advances(pk, new)
    BY <2>1, <2>2, <2>3, AdvancesSamePieces
  <2>5. Writing(new) \subseteq Writing(pk) \ {b}
    BY <2>2, <2>3 DEF Writing
  <2>6. QED
    BY <2>4, <2>5 DEF new
<1>2. CASE b[1] \notin pk.queue
  <2>1. new = pk /\ b \notin Writing(pk)
    BY <1>2 DEF MarkAsFinished, Held, Writing
  <2>2. QED
    BY <2>1 DEF Advances
<1>3. QED
  BY <1>1, <1>2

\* A block that is aborted goes back to None, a block being written included.
LEMMA AdvancesAbort ==
  ASSUME PickerAssumption, NEW pk \in Pickers, NEW cn, Held(pk, cn), Tidy(pk),
         NEW S \in SUBSET Blocks, NEW peer
  PROVE  /\ Advances(pk, AbortDownloads(pk, S, peer))
         /\ Writing(AbortDownloads(pk, S, peer)) \subseteq Writing(pk) \ S
<1> DEFINE new == AbortDownloads(pk, S, peer)
<1>1. new.status = pk.status /\ new.queue = pk.queue
  BY DEF AbortDownloads, Pickers
<1>2. \A b \in Blocks : new.block[b] = IF b \in S /\ b[1] \in pk.queue
                                       THEN Abort(pk.block[b], peer) ELSE pk.block[b]
  BY DEF AbortDownloads, Pickers
<1>3. ASSUME NEW b \in Blocks
      PROVE  Abort(pk.block[b], peer).state # "Writing"
  <2> DEFINE old  == pk.block[b]
             left == IF old.downloaders > 0 THEN old.downloaders - 1 ELSE 0
  <2>1. old \in BlockRecords
    BY DEF Pickers
  <2>2. old.state = "Writing" => left = 0
    BY <2>1 DEF Tidy, Writing, BlockRecords
  <2>3. Abort(old, peer).state = IF left = 0 THEN "None" ELSE old.state
    BY <2>1 DEF Abort, BlockRecords
  <2> HIDE DEF old, left
  <2>4. QED
    BY <2>2, <2>3 DEF old
<1> HIDE DEF new
<1>4. Advances(pk, new)
  BY <1>1, <1>2, <1>3, AdvancesSamePieces
<1>5. \A b \in Blocks : b \in S /\ b \in Writing(pk) => b[1] \in pk.queue
  BY DEF Held, Writing
<1>6. Writing(new) \subseteq Writing(pk) \ S
  BY <1>2, <1>3, <1>5 DEF Writing
<1>7. QED
  BY <1>4, <1>6 DEF new

\* Only pieces nobody has begun, and free blocks, are asked for.
LEMMA AdvancesRequest ==
  ASSUME PickerAssumption, TypeInv, NEW pk \in Pickers, Tidy(pk), NEW p \in Peers,
         NEW phase \in Phases, NEW queue \in SUBSET Blocks,
         NEW offered, RequestBlocks(pk, p, phase, queue, offered)
  PROVE  /\ Advances(pk, picker')
         /\ Writing(picker') \subseteq Writing(pk)
<1> DEFINE picked == IF queue = {}
                     THEN PickedBlocks(pk, RequestQueueSize, offered) ELSE {}
           S      == {b[1] : b \in picked} \ pk.queue
           opened == OpenPieces(pk, S)
<1>1. /\ picked \in SUBSET Blocks
      /\ \A b \in picked : pk.block[b].state = "None"
                           /\ (b[1] \in pk.queue \/ pk.status[b[1]] = "None")
  BY DEF PickedBlocks, FreeBlocks, Allowed
<1>2. picker' = [opened EXCEPT !.block = [b \in Blocks |-> IF b \in picked
                                            THEN Request(@[b], p, Slow) ELSE @[b]]]
  BY DEF RequestBlocks, PickPieces
<1>3. S \in SUBSET Pieces
  BY <1>1, BlocksInPieces
<1>4. \A q \in S : pk.status[q] = "None"
  BY <1>1
<1> HIDE DEF picked
<1>5. opened \in Pickers
  BY <1>3, OpenPiecesType
<1>6. /\ opened.block = pk.block /\ opened.queue = pk.queue \union S
      /\ \A q \in Pieces : opened.status[q] = IF q \in S THEN "Downloading" ELSE pk.status[q]
  BY DEF OpenPieces, Pickers
<1> HIDE DEF S, opened
<1>7. /\ picker'.queue = pk.queue \union S
      /\ \A q \in Pieces : picker'.status[q] = IF q \in S THEN "Downloading" ELSE pk.status[q]
      /\ \A b \in Blocks : picker'.block[b] =
           IF b \in picked THEN Request(pk.block[b], p, Slow) ELSE pk.block[b]
  BY <1>2, <1>5, <1>6 DEF Pickers
<1>8. \A blk : Request(blk, p, Slow).state = "Requested"
  BY DEF Request
<1>9. Writing(picker') \subseteq Writing(pk)
  BY <1>7, <1>8 DEF Writing
<1>10. Tidy(picker')
  <2>1. pk.queue \subseteq Pieces
    BY DEF Pickers
  <2>2. QED
    BY <1>3, <1>7, <1>8, <2>1 DEF Tidy, Writing
<1>11. QED
  BY <1>4, <1>7, <1>9, <1>10 DEF Advances, HavePieces

\* A restored block opens its piece, which was not complete.
LEMMA AdvancesRestore ==
  ASSUME NEW pk \in Pickers, Tidy(pk), NEW b \in Blocks, pk.status[b[1]] # "Have"
  PROVE  /\ Advances(pk, WeHaveBlock(pk, b))
         /\ Writing(WeHaveBlock(pk, b)) \subseteq Writing(pk)
<1> DEFINE S      == {b[1]} \ pk.queue
           opened == IF b[1] \in pk.queue THEN pk ELSE OpenPieces(pk, {b[1]})
           new    == WeHaveBlock(pk, b)
<1>1. opened \in Pickers
  BY BlocksInPieces, OpenPiecesType
<1>2. /\ opened.block = pk.block /\ opened.queue = pk.queue \union S
      /\ \A q \in Pieces : opened.status[q] = IF q \in S THEN "Downloading" ELSE pk.status[q]
  BY DEF OpenPieces, Pickers
<1>3. new = [opened EXCEPT !.block[b] = Finish(@)]
  BY DEF WeHaveBlock
<1> HIDE DEF opened, new
<1>4. /\ new.queue = pk.queue \union S
      /\ \A q \in Pieces : new.status[q] = IF q \in S THEN "Downloading" ELSE pk.status[q]
      /\ \A c \in Blocks : new.block[c] = IF c = b THEN Finish(pk.block[b]) ELSE pk.block[c]
  BY <1>1, <1>2, <1>3 DEF Pickers
<1>5. Finish(pk.block[b]).state = "Finished"
  BY DEF Finish, Pickers, BlockRecords
<1>6. Writing(new) \subseteq Writing(pk)
  BY <1>4, <1>5 DEF Writing
<1>7. S \subseteq Pieces /\ pk.queue \subseteq Pieces /\ \A q \in S : pk.status[q] # "Have"
  BY BlocksInPieces DEF Pickers
<1> HIDE DEF S
<1>8. Tidy(new)
  BY <1>4, <1>5, <1>7 DEF Tidy, Writing
<1>9. QED
  BY <1>4, <1>6, <1>7, <1>8 DEF Advances, HavePieces, new

\* A piece that is hashed leaves the download queue, and no other does.
LEMMA ClosePieceEffect ==
  ASSUME NEW pk \in Pickers, Tidy(pk), NEW p \in Pieces, NEW status
  PROVE  LET new == ClosePiece(pk, p, status)
         IN  /\ Tidy(new)
             /\ Writing(new) \subseteq Writing(pk)
             /\ \A q \in Pieces : new.status[q] = IF q = p THEN status ELSE pk.status[q]
<1> DEFINE new == ClosePiece(pk, p, status)
<1>1. /\ new.queue = pk.queue \ {p}
      /\ \A q \in Pieces : new.status[q] = IF q = p THEN status ELSE pk.status[q]
      /\ \A b \in Blocks : new.block[b] = IF b[1] = p THEN FreshBlock ELSE pk.block[b]
  BY DEF ClosePiece, Pickers
<1>2. FreshBlock.state = "None"
  BY DEF FreshBlock
<1>3. pk.queue \subseteq Pieces
  BY DEF Pickers
<1> HIDE DEF new
<1>4. QED
  BY <1>1, <1>2, <1>3 DEF Tidy, Writing, new
-----------------------------------------------------------------------------
(* The inductive invariant, action by action.                              *)

\* What a tick that moves pk to new and leaves the tasks us has to show.
LEMMA MatchKept ==
  ASSUME NEW pk, NEW new, Advances(pk, new), NEW ts \in Seq(Tasks), NEW us \in Seq(Tasks),
         NEW S \in SUBSET Pieces, NEW T \in SUBSET Pieces, PiecesMatch(pk, ts, S),
         \A p \in T : p \in S \/ new.status[p] = "Downloading",
         \A i \in 1..Len(us) : us[i].kind = "restore" => \E j \in 1..Len(ts) : us[i] = ts[j],
         \A b \in Writing(new) : WriteQueued(us, b)
  PROVE  PiecesMatch(new, us, T)
<1>1. \A p \in T : new.status[p] = "Downloading"
  BY DEF PiecesMatch, Advances
<1>2. ASSUME NEW i \in 1..Len(us), us[i].kind = "restore"
      PROVE  new.status[us[i].block[1]] # "Have"
  <2>1. us[i] \in Tasks
    OBVIOUS
  <2>2. us[i].block[1] \in Pieces
    BY <1>2, <2>1, TaskKinds, BlocksInPieces
  <2>3. pk.status[us[i].block[1]] # "Have"
    BY <1>2 DEF PiecesMatch
  <2>4. QED
    BY <2>2, <2>3 DEF Advances, HavePieces
<1>3. QED
  BY <1>1, <1>2 DEF PiecesMatch

\* QueuePieceHash submits a hash that is not pending, of an unfinished piece.
LEMMA FollowupEffect ==
  ASSUME NEW pk \in Pickers, NEW p \in Pieces, NEW f, f = <<>> \/ f = HashFollowup(pk, p),
         pendingHashes \in SUBSET Pieces
  PROVE  \E T \in SUBSET Pieces :
           /\ f \in Seq(Tasks)
           /\ HashTasksOf(f, T)
           /\ pendingHashes \intersect T = {}
           /\ PendingAfter(f, p) = pendingHashes \union T
           /\ \A q \in T : pk.status[q] = "Downloading"
           /\ \A i \in 1..Len(f) : f[i].kind = "hash"
<1>1. CASE f = <<>>
  <2>1. HashTasksOf(f, {})
    BY <1>1, HashesOfOne
  <2>2. QED
    BY <1>1, <2>1 DEF PendingAfter
<1>2. CASE f # <<>>
  <2>1. /\ f = <<AsyncHash(p)>> /\ p \notin pendingHashes
        /\ pk.status[p] = "Downloading"
    BY <1>2 DEF HashFollowup, IsPieceFinished
  <2>2. AsyncHash(p) \in Tasks /\ AsyncHash(p).kind = "hash"
    BY TaskTypes DEF AsyncHash
  <2>3. f \in Seq(Tasks) /\ \A i \in 1..Len(f) : f[i].kind = "hash"
    BY <2>1, <2>2
  <2>4. HashTasksOf(f, {p})
    BY <2>1, HashesOfOne
  <2>5. PendingAfter(f, p) = pendingHashes \union {p}
    BY <1>2 DEF PendingAfter
  <2>6. QED
    BY <2>1, <2>3, <2>4, <2>5
<1>3. QED
  BY <1>1, <1>2

\* The facts every action starts from.
LEMMA QueueTypes ==
  ASSUME HeldInv
  PROVE  /\ TypeInv /\ Held(picker, conn) /\ picker \in Pickers
         /\ tasks \in Seq(Tasks) /\ pendingHashes \in SUBSET Pieces
         /\ pendingResumeIO \in Nat /\ saved \in SavedStates
         /\ conn \in [Peers -> Connections]
         /\ \A p \in Peers : conn[p].queue \in SUBSET Blocks
  BY DEF HeldInv, TypeInv, TypeOK, Connections

\* The acceptance of a peer: its blocks are asked for.
LEMMA AcceptCore ==
  ASSUME PickerAssumption, HeldInv, CoreInv, NEW p \in Peers, ReceiveAcceptUpload(p)
  PROVE  CoreInv' /\ HavePieces(picker') = HavePieces(picker)
<1>1. /\ tasks' = tasks /\ pendingHashes' = pendingHashes
      /\ pendingResumeIO' = pendingResumeIO /\ state' = state
  BY DEF ReceiveAcceptUpload, transferVars, diskVars
<1>2. Advances(picker, picker') /\ Writing(picker') \subseteq Writing(picker)
  BY QueueTypes, AcceptsBlocks, AdvancesRequest DEF CoreInv
<1>3. \A b \in Writing(picker') : WriteQueued(tasks, b)
  BY <1>2 DEF CoreInv, PiecesMatch
<1>4. PiecesMatch(picker', tasks, pendingHashes)
  BY <1>2, <1>3, QueueTypes, MatchKept DEF CoreInv
<1>5. QED
  BY <1>1, <1>2, <1>4 DEF CoreInv, Advances

\* A block that arrives: its write, and the hash of its piece, are submitted.
LEMMA ReceiveCore ==
  ASSUME PickerAssumption, HeldInv, CoreInv, NEW p \in Peers, NEW b \in Blocks,
         NEW c \in Bytes, ReceiveBlock(p, b, c)
  PROVE  CoreInv' /\ HavePieces(picker') = HavePieces(picker)
<1> DEFINE written  == MarkAsWriting(picker, b)
           accepted == CanWrite(picker, b)
           followup == IF accepted /\ ~IsPieceFinished(picker, b[1])
                       THEN HashFollowup(written, b[1]) ELSE <<>>
           write    == IF accepted THEN <<AsyncWrite(b, c)>> ELSE <<>>
           new      == write \o followup
<1>1. /\ tasks' = tasks \o new
      /\ pendingHashes' = PendingAfter(followup, b[1])
      /\ \E offered : RequestBlocks(written, p, conn[p].phase, conn[p].queue \ {b}, offered)
      /\ pendingResumeIO' = pendingResumeIO /\ state' = state
  BY DEF ReceiveBlock, Submit
<1>2. written \in Pickers /\ b[1] \in Pieces
  BY QueueTypes, MarkingTypes, BlocksInPieces
<1>3. Advances(picker, written) /\ Writing(written) \subseteq Writing(picker) \union {b}
      /\ (~accepted => written = picker)
  BY QueueTypes, AdvancesWrite DEF CoreInv
<1>4. PICK T \in SUBSET Pieces :
        /\ followup \in Seq(Tasks)
        /\ HashTasksOf(followup, T)
        /\ pendingHashes \intersect T = {}
        /\ PendingAfter(followup, b[1]) = pendingHashes \union T
        /\ \A q \in T : written.status[q] = "Downloading"
        /\ \A i \in 1..Len(followup) : followup[i].kind = "hash"
  <2>1. followup = <<>> \/ followup = HashFollowup(written, b[1])
    OBVIOUS
  <2>2. pendingHashes \in SUBSET Pieces
    BY QueueTypes
  <2> HIDE DEF followup, written, accepted, new
  <2>3. QED
    BY <1>2, <2>1, <2>2, FollowupEffect, SMTT(30)
<1>5. /\ write \in Seq(Tasks) /\ HashTasksOf(write, {})
      /\ \A i \in 1..Len(write) : write[i].kind = "write"
      /\ accepted => WriteQueued(write, b)
  <2>1. AsyncWrite(b, c) \in Tasks /\ AsyncWrite(b, c).kind = "write"
        /\ AsyncWrite(b, c).block = b
    BY TaskTypes DEF AsyncWrite
  <2>2. CASE accepted
    <3>1. write = <<AsyncWrite(b, c)>>
      BY <2>2
    <3> HIDE DEF write
    <3>2. write \in Seq(Tasks) /\ Len(write) = 1 /\ write[1] = AsyncWrite(b, c)
      BY <2>1, <3>1
    <3>3. HashTasksOf(write, {})
      BY <2>1, <3>1, HashesOfOne
    <3>4. QED
      BY <2>1, <3>2, <3>3 DEF WriteQueued
  <2>3. CASE ~accepted
    BY <2>3, HashesOfOne
  <2>4. QED
    BY <2>2, <2>3
<1> HIDE DEF followup, write, written, accepted
<1>6. new \in Seq(Tasks)
  BY <1>4, <1>5
<1>7. /\ \A d : WriteQueued(new, d) <=> WriteQueued(write, d) \/ WriteQueued(followup, d)
      /\ \A i \in 1..Len(new) : new[i].kind \in {"write", "hash"}
  BY <1>4, <1>5, QueueAppend
<1>8. HashTasksOf(new, T)
  <2>1. HashTasksOf(new, {} \union T)
    BY <1>4, <1>5, HashesAppend
  <2>2. QED
    BY <2>1, Zenon
<1> HIDE DEF new
<1>9. RestoresFirst(tasks', pendingResumeIO')
  BY <1>1, <1>6, <1>7, QueueTypes, RestoresAppend DEF CoreInv
<1>10. HashTasksOf(tasks', pendingHashes')
  BY <1>1, <1>4, <1>6, <1>8, QueueTypes, HashesAppend DEF CoreInv
<1>11. Advances(written, picker') /\ Writing(picker') \subseteq Writing(written)
  <2>1. conn[p].queue \ {b} \in SUBSET Blocks /\ conn[p].phase \in Phases
    BY QueueTypes DEF Connections
  <2>2. Tidy(written)
    BY <1>3 DEF Advances
  <2>3. QED
    BY <1>1, <1>2, <2>1, <2>2, QueueTypes, AdvancesRequest
<1>12. Advances(picker, picker')
  BY <1>3, <1>11, AdvancesTransitively
<1>13. tasks' \in Seq(Tasks)
  BY <1>1, <1>6, QueueTypes
<1>14. \A d \in Writing(picker') : WriteQueued(tasks', d)
  <2> TAKE d \in Writing(picker')
  <2>1. CASE d \in Writing(picker)
    BY <1>1, <1>6, <2>1, QueueTypes, QueueAppend DEF CoreInv, PiecesMatch
  <2>2. CASE d \notin Writing(picker)
    <3>1. d = b /\ accepted
      BY <1>3, <1>11, <2>2
    <3>2. WriteQueued(new, d)
      BY <1>5, <1>7, <3>1
    <3>3. QED
      BY <1>1, <1>6, <3>2, QueueTypes, QueueAppend
  <2>3. QED
    BY <2>1, <2>2
<1>15. \A i \in 1..Len(tasks') : tasks'[i].kind = "restore" =>
          \E j \in 1..Len(tasks) : tasks'[i] = tasks[j]
  <2> TAKE i \in 1..Len(tasks')
  <2>1. \/ \E j \in 1..Len(tasks) : tasks'[i] = tasks[j]
        \/ \E j \in 1..Len(new) : tasks'[i] = new[j]
    BY <1>1, <1>6, QueueTypes, QueueAppend
  <2>2. QED
    BY <1>7, <2>1
<1>16. /\ \A q \in pendingHashes' : q \in pendingHashes \/ picker'.status[q] = "Downloading"
       /\ pendingHashes' \in SUBSET Pieces
  BY <1>1, <1>4, <1>11, QueueTypes DEF Advances
<1>17. PiecesMatch(picker', tasks', pendingHashes')
  BY <1>12, <1>13, <1>14, <1>15, <1>16, QueueTypes, MatchKept DEF CoreInv
<1>18. QED
  BY <1>1, <1>9, <1>10, <1>12, <1>17 DEF CoreInv, Advances

\* A connection that goes aborts the blocks in its queue.
LEMMA DisconnectCore ==
  ASSUME PickerAssumption, HeldInv, CoreInv, NEW p \in Peers, OnDisconnect(p)
  PROVE  CoreInv' /\ HavePieces(picker') = HavePieces(picker)
<1>1. /\ picker' = AbortDownloads(picker, conn[p].queue, p)
      /\ tasks' = tasks /\ pendingHashes' = pendingHashes
      /\ pendingResumeIO' = pendingResumeIO /\ state' = state
  BY DEF OnDisconnect, transferVars, diskVars
<1>2. Advances(picker, picker') /\ Writing(picker') \subseteq Writing(picker)
  <2>1. conn[p].queue \in SUBSET Blocks /\ picker \in Pickers /\ Held(picker, conn)
        /\ Tidy(picker)
    BY QueueTypes DEF CoreInv
  <2>2. QED
    BY <1>1, <2>1, AdvancesAbort
<1>3. \A b \in Writing(picker') : WriteQueued(tasks, b)
  BY <1>2 DEF CoreInv, PiecesMatch
<1>4. PiecesMatch(picker', tasks, pendingHashes)
  BY <1>2, <1>3, QueueTypes, MatchKept DEF CoreInv
<1>5. QED
  BY <1>1, <1>2, <1>4 DEF CoreInv, Advances

\* The task at the head has its result.
LEMMA HeadDone ==
  ASSUME HeldInv, CoreInv, disk = "done"
  PROVE  /\ tasks # <<>> /\ Head(tasks) \in Tasks /\ Tail(tasks) \in Seq(Tasks)
         /\ Head(tasks).kind = "restore" <=> pendingResumeIO > 0
         /\ RestoresFirst(Tail(tasks), IF pendingResumeIO > 0 THEN pendingResumeIO - 1 ELSE 0)
         /\ Head(tasks).kind \in {"write", "restore"} => Head(tasks).block \in Blocks
<1>1. tasks # <<>>
  BY DEF HeldInv, TypeInv
<1>2. Head(tasks) \in Tasks /\ Tail(tasks) \in Seq(Tasks)
  BY <1>1, QueueTypes
<1>3. Head(tasks).kind \in {"write", "restore"} => Head(tasks).block \in Blocks
  BY <1>2, TaskKinds
<1>4. QED
  BY <1>1, <1>2, <1>3, QueueTypes, RestoresTail DEF CoreInv

\* A callback that submits f, the hashes of T among it, and is not a hash's.
LEMMA CallbackCore ==
  ASSUME HeldInv, CoreInv, disk = "done", Head(tasks).kind # "hash",
         NEW f \in Seq(Tasks), NEW T \in SUBSET Pieces,
         tasks' = Tail(tasks) \o f, pendingHashes' = pendingHashes \union T,
         HashTasksOf(f, T), pendingHashes \intersect T = {},
         \A i \in 1..Len(f) : f[i].kind # "restore",
         Advances(picker, picker'), \A q \in T : picker'.status[q] = "Downloading",
         Writing(picker') \subseteq Writing(picker),
         Head(tasks).kind = "write" => Head(tasks).block \notin Writing(picker'),
         pendingResumeIO' = (IF pendingResumeIO > 0 THEN pendingResumeIO - 1 ELSE 0),
         pendingResumeIO' > 0 => state' = "LoadingResumeData"
  PROVE  CoreInv' /\ HavePieces(picker') = HavePieces(picker)
<1> DEFINE left == Tail(tasks)
<1>1. /\ tasks # <<>> /\ left \in Seq(Tasks) /\ tasks \in Seq(Tasks)
      /\ RestoresFirst(left, pendingResumeIO')
  BY HeadDone, QueueTypes
<1>2. HashTasksOf(left, pendingHashes)
  BY <1>1, HashesTail DEF CoreInv
<1>3. /\ \A b : WriteQueued(tasks, b) =>
           (Head(tasks).kind = "write" /\ Head(tasks).block = b) \/ WriteQueued(left, b)
      /\ \A i \in 1..Len(left) : \E j \in 1..Len(tasks) : left[i] = tasks[j]
  BY <1>1, QueueTail
<1> HIDE DEF left
<1>4. tasks' = left \o f
  BY DEF left
<1>5. RestoresFirst(tasks', pendingResumeIO')
  BY <1>1, <1>4, RestoresAppend
<1>6. HashTasksOf(tasks', pendingHashes')
  <2>1. HashTasksOf(left \o f, pendingHashes \union T)
    BY <1>1, <1>2, HashesAppend
  <2>2. QED
    BY <1>4, <2>1
<1>7. \A b \in Writing(picker') : WriteQueued(tasks', b)
  <2> TAKE b \in Writing(picker')
  <2>1. WriteQueued(tasks, b)
    BY DEF CoreInv, PiecesMatch
  <2>2. WriteQueued(left, b)
    BY <1>3, <2>1
  <2>3. WriteQueued(left \o f, b)
    BY <1>1, <2>2, QueueAppend
  <2>4. QED
    BY <1>4, <2>3
<1>8. \A i \in 1..Len(tasks') : tasks'[i].kind = "restore" =>
         \E j \in 1..Len(tasks) : tasks'[i] = tasks[j]
  <2> TAKE i \in 1..Len(tasks')
  <2> HAVE tasks'[i].kind = "restore"
  <2>1. \/ \E j \in 1..Len(left) : tasks'[i] = left[j]
        \/ \E j \in 1..Len(f) : tasks'[i] = f[j]
    BY <1>1, <1>4, QueueAppend
  <2>2. QED
    BY <1>3, <2>1
<1>9. tasks' \in Seq(Tasks) /\ pendingHashes' \in SUBSET Pieces
  BY <1>1, <1>4, QueueTypes
<1>10. PiecesMatch(picker', tasks', pendingHashes')
  BY <1>1, <1>7, <1>8, <1>9, QueueTypes, MatchKept DEF CoreInv
<1>11. QED
  BY <1>5, <1>6, <1>10 DEF CoreInv, Advances

LEMMA WrittenCore ==
  ASSUME PickerAssumption, HeldInv, CoreInv, OnBlockWritten
  PROVE  CoreInv' /\ HavePieces(picker') = HavePieces(picker)
<1> DEFINE b        == Head(tasks).block
           finished == MarkAsFinished(picker, b)
           followup == HashFollowup(finished, b[1])
<1>1. /\ disk = "done" /\ Head(tasks).kind = "write" /\ picker' = finished
      /\ tasks' = Tail(tasks) \o followup
      /\ pendingHashes' = PendingAfter(followup, b[1])
      /\ pendingResumeIO' = pendingResumeIO /\ state' = state
  BY DEF OnBlockWritten, Done, RemoveDone
<1>2. b \in Blocks /\ b[1] \in Pieces /\ ~(pendingResumeIO > 0)
  BY <1>1, HeadDone, BlocksInPieces
<1> HIDE DEF b
<1>3. Advances(picker, finished) /\ Writing(finished) \subseteq Writing(picker) \ {b}
  BY <1>2, QueueTypes, AdvancesFinish DEF CoreInv
<1>4. finished \in Pickers
  BY <1>2, QueueTypes, MarkingTypes
<1> HIDE DEF finished
<1>5. PICK T \in SUBSET Pieces :
        /\ followup \in Seq(Tasks)
        /\ HashTasksOf(followup, T)
        /\ pendingHashes \intersect T = {}
        /\ PendingAfter(followup, b[1]) = pendingHashes \union T
        /\ \A q \in T : finished.status[q] = "Downloading"
        /\ \A i \in 1..Len(followup) : followup[i].kind = "hash"
  <2>1. followup = <<>> \/ followup = HashFollowup(finished, b[1])
    OBVIOUS
  <2>2. pendingHashes \in SUBSET Pieces
    BY QueueTypes
  <2> HIDE DEF followup
  <2>3. QED
    BY <1>2, <1>4, <2>1, <2>2, FollowupEffect
<1> HIDE DEF followup
<1>6. pendingResumeIO = 0
  BY <1>2, QueueTypes
<1>7. \A i \in 1..Len(followup) : followup[i].kind # "restore"
  BY <1>5
<1>8. Head(tasks).block \notin Writing(finished)
  BY <1>3 DEF b
<1>9. QED
  BY <1>1, <1>3, <1>5, <1>6, <1>7, <1>8, CallbackCore

\* The callbacks that submit nothing.
LEMMA QuietCallbackCore ==
  ASSUME HeldInv, CoreInv, disk = "done", Head(tasks).kind # "hash",
         RemoveDone(<<>>), pendingHashes' = pendingHashes,
         Advances(picker, picker'), Writing(picker') \subseteq Writing(picker),
         Head(tasks).kind = "write" => Head(tasks).block \notin Writing(picker'),
         pendingResumeIO' = (IF pendingResumeIO > 0 THEN pendingResumeIO - 1 ELSE 0),
         pendingResumeIO' > 0 => state' = "LoadingResumeData"
  PROVE  CoreInv' /\ HavePieces(picker') = HavePieces(picker)
<1>1. HashTasksOf(<<>>, {}) /\ <<>> \in Seq(Tasks) /\ {} \in SUBSET Pieces
  BY HashesOfOne
<1>2. tasks' = Tail(tasks) \o <<>> /\ pendingHashes' = pendingHashes \union {}
      /\ pendingHashes \intersect {} = {} /\ \A i \in 1..Len(<<>>) : <<>>[i].kind # "restore"
  BY DEF RemoveDone
<1>3. \A q \in {} : picker'.status[q] = "Downloading"
  OBVIOUS
<1> DEFINE f == <<>>
           T == {}
<1>4. /\ HashTasksOf(f, T) /\ f \in Seq(Tasks) /\ T \in SUBSET Pieces
      /\ tasks' = Tail(tasks) \o f /\ pendingHashes' = pendingHashes \union T
      /\ pendingHashes \intersect T = {} /\ \A i \in 1..Len(f) : f[i].kind # "restore"
      /\ \A q \in T : picker'.status[q] = "Downloading"
  BY <1>1, <1>2, <1>3
<1> HIDE DEF f, T
<1>5. QED
  BY <1>4, CallbackCore

LEMMA OtherCallbacksCore ==
  ASSUME PickerAssumption, HeldInv, CoreInv,
         OnBlockWriteFailed \/ OnBlockRestored \/ OnBlockRestoreFailed \/ OnReleaseFile
  PROVE  CoreInv' /\ HavePieces(picker') = HavePieces(picker)
<1> DEFINE b == Head(tasks).block
<1>1. disk = "done" /\ RemoveDone(<<>>) /\ pendingHashes' = pendingHashes
  BY DEF OnBlockWriteFailed, OnBlockRestored, OnBlockRestoreFailed, OnReleaseFile, Done,
     transferVars
<1>2. /\ Head(tasks).kind = "restore" <=> pendingResumeIO > 0
      /\ Head(tasks).kind \in {"write", "restore"} => b \in Blocks
      /\ pendingResumeIO \in Nat
      /\ tasks # <<>> /\ tasks \in Seq(Tasks)
  BY <1>1, HeadDone, QueueTypes
<1>3. Advances(picker, picker)
  BY DEF Advances, CoreInv
<1>4. pendingResumeIO > 0 => state = "LoadingResumeData"
  BY DEF CoreInv
<1>5. CASE OnBlockWriteFailed
  <2>1. /\ Head(tasks).kind = "write" /\ picker' = AbortDownloads(picker, {b}, NoPeer)
        /\ pendingResumeIO' = pendingResumeIO /\ state' = state
    BY <1>5 DEF OnBlockWriteFailed, Done
  <2>2. {b} \in SUBSET Blocks /\ picker \in Pickers /\ Held(picker, conn) /\ Tidy(picker)
    BY <1>2, <2>1, QueueTypes DEF CoreInv
  <2> HIDE DEF b
  <2>3. Advances(picker, picker') /\ Writing(picker') \subseteq Writing(picker) \ {b}
    BY <2>1, <2>2, AdvancesAbort
  <2>4. Head(tasks).block \notin Writing(picker')
    BY <2>3 DEF b
  <2>5. pendingResumeIO = 0
    BY <1>2, <2>1
  <2>6. /\ Writing(picker') \subseteq Writing(picker) /\ Head(tasks).kind # "hash"
        /\ pendingResumeIO' = IF pendingResumeIO > 0 THEN pendingResumeIO - 1 ELSE 0
        /\ pendingResumeIO' > 0 => state' = "LoadingResumeData"
    BY <2>1, <2>3, <2>5
  <2>7. QED
    BY <1>1, <2>3, <2>4, <2>6, QuietCallbackCore
<1>6. CASE OnBlockRestored
  <2>1. /\ Head(tasks).kind = "restore" /\ picker' = WeHaveBlock(picker, b)
        /\ pendingResumeIO' = IF pendingResumeIO > 0 THEN pendingResumeIO - 1 ELSE 0
        /\ pendingResumeIO' # 0 => state' = state
    BY <1>6 DEF OnBlockRestored, Done
  <2>2. picker.status[b[1]] # "Have"
    <3>1. 1 \in 1..Len(tasks) /\ Head(tasks) = tasks[1]
      BY <1>2
    <3>2. QED
      BY <2>1, <3>1 DEF CoreInv, PiecesMatch
  <2>3. picker \in Pickers /\ Tidy(picker) /\ b \in Blocks
    BY <1>2, <2>1, QueueTypes DEF CoreInv
  <2> HIDE DEF b
  <2>4. Advances(picker, picker') /\ Writing(picker') \subseteq Writing(picker)
    BY <2>1, <2>2, <2>3, AdvancesRestore
  <2>5. pendingResumeIO' > 0 => state' = "LoadingResumeData"
    BY <1>2, <1>4, <2>1
  <2>6. QED
    BY <1>1, <2>1, <2>4, <2>5, QuietCallbackCore
<1>7. CASE OnBlockRestoreFailed
  <2>1. /\ Head(tasks).kind = "restore" /\ picker' = picker /\ state' = state
        /\ pendingResumeIO' = IF pendingResumeIO > 0 THEN pendingResumeIO - 1 ELSE 0
    BY <1>7 DEF OnBlockRestoreFailed, Done
  <2>2. QED
    BY <1>1, <1>2, <1>3, <1>4, <2>1, QuietCallbackCore
<1>8. CASE OnReleaseFile
  <2>1. /\ Head(tasks).kind = "release" /\ picker' = picker /\ state' = state
        /\ pendingResumeIO' = pendingResumeIO
    BY <1>8 DEF OnReleaseFile, Done, transferVars
  <2>2. pendingResumeIO = 0
    BY <1>2, <2>1
  <2>3. QED
    BY <1>1, <1>3, <2>1, <2>2, QuietCallbackCore
<1>9. QED
  BY <1>5, <1>6, <1>7, <1>8

\* A release is no restore and no hash.
LEMMA ReleaseEffect ==
  ASSUME NEW d \in BOOLEAN
  PROVE  /\ <<AsyncRelease(d)>> \in Seq(Tasks)
         /\ HashTasksOf(<<AsyncRelease(d)>>, {})
         /\ \A i \in 1..Len(<<AsyncRelease(d)>>) : <<AsyncRelease(d)>>[i].kind = "release"
<1> DEFINE t == AsyncRelease(d)
<1>1. t \in Tasks
  BY TaskTypes, Zenon
<1>2. t.kind = "release"
  BY DEF AsyncRelease
<1> HIDE DEF t
<1>3. HashTasksOf(<<t>>, {})
  BY <1>1, <1>2, HashesOfOne
<1>4. <<t>> \in Seq(Tasks) /\ Len(<<t>>) = 1 /\ <<t>>[1] = t
  BY <1>1
<1>5. \A i \in 1..Len(<<t>>) : <<t>>[i].kind = "release"
  BY <1>2, <1>4
<1>6. QED
  BY <1>3, <1>4, <1>5 DEF t

\* A piece that is hashed leaves pendingPieceHashes with its task, whatever
\* the result; no restore is left at that time.
LEMMA HashedCore ==
  ASSUME PickerAssumption, HeldInv, CoreInv, OnPieceHashed
  PROVE  CoreInv' /\ HavePieces(picker) \subseteq HavePieces(picker')
<1> DEFINE p    == Head(tasks).piece
           left == Tail(tasks)
<1>1. /\ disk = "done" /\ Head(tasks).kind = "hash"
      /\ pendingHashes' = pendingHashes \ {p} /\ pendingResumeIO' = pendingResumeIO
  BY DEF OnPieceHashed, Done
<1>2. PICK status \in PieceStates : picker' = ClosePiece(picker, p, status)
  BY DEF OnPieceHashed, RestorePiece, WeHave, PieceStates
<1>3. PICK f \in {<<>>, <<AsyncRelease(FALSE)>>} : tasks' = left \o f
  BY DEF OnPieceHashed, RemoveDone
<1>4. /\ tasks # <<>> /\ tasks \in Seq(Tasks) /\ left \in Seq(Tasks)
      /\ pendingResumeIO = 0 /\ RestoresFirst(left, 0)
  BY <1>1, HeadDone, QueueTypes
<1>5. /\ p \in pendingHashes /\ HashTasksOf(left, pendingHashes \ {p})
      /\ pendingHashes \in SUBSET Pieces
  BY <1>1, <1>4, QueueTypes, HashesTail DEF CoreInv
<1>6. picker.status[p] = "Downloading" /\ picker \in Pickers /\ Tidy(picker)
  BY <1>5, QueueTypes DEF CoreInv, PiecesMatch
<1>7. /\ f \in Seq(Tasks) /\ HashTasksOf(f, {})
      /\ \A i \in 1..Len(f) : f[i].kind # "restore"
  <2>1. CASE f = <<>>
    BY <2>1, HashesOfOne
  <2>2. CASE f = <<AsyncRelease(FALSE)>>
    <3> DEFINE g == <<AsyncRelease(FALSE)>>
    <3>1. /\ g \in Seq(Tasks) /\ HashTasksOf(g, {})
          /\ \A i \in 1..Len(g) : g[i].kind = "release"
      BY ReleaseEffect
    <3> HIDE DEF g
    <3>2. \A i \in 1..Len(g) : g[i].kind # "restore"
      BY <3>1
    <3>3. QED
      BY <2>2, <3>1, <3>2 DEF g
  <2>3. QED
    BY <1>3, <2>1, <2>2
<1>8. \A b : WriteQueued(tasks, b) => WriteQueued(left, b)
  BY <1>1, <1>4, QueueTail
<1> HIDE DEF left, p
<1>9. /\ Tidy(picker') /\ Writing(picker') \subseteq Writing(picker)
      /\ \A q \in Pieces : picker'.status[q] = IF q = p THEN status ELSE picker.status[q]
  <2>1. p \in Pieces
    BY <1>5
  <2>2. QED
    BY <1>2, <1>6, <2>1, ClosePieceEffect
<1>10. RestoresFirst(tasks', pendingResumeIO')
  BY <1>1, <1>3, <1>4, <1>7, RestoresAppend
<1>11. HashTasksOf(tasks', pendingHashes')
  <2>1. HashTasksOf(left \o f, (pendingHashes \ {p}) \union {})
    BY <1>4, <1>5, <1>7, HashesAppend
  <2>2. (pendingHashes \ {p}) \union {} = pendingHashes'
    BY <1>1 DEF p
  <2>3. QED
    BY <1>3, <2>1, <2>2
<1>12. \A b \in Writing(picker') : WriteQueued(tasks', b)
  <2> TAKE b \in Writing(picker')
  <2>1. WriteQueued(tasks, b)
    BY <1>9 DEF CoreInv, PiecesMatch
  <2>2. WriteQueued(left \o f, b)
    BY <1>4, <1>7, <1>8, <2>1, QueueAppend
  <2>3. QED
    BY <1>3, <2>2
<1>13. \A i \in 1..Len(tasks') : tasks'[i].kind # "restore"
  BY <1>1, <1>4, <1>10 DEF RestoresFirst
<1>14. \A q \in pendingHashes' : picker'.status[q] = "Downloading"
  <2>1. \A q \in pendingHashes : picker.status[q] = "Downloading"
    BY DEF CoreInv, PiecesMatch
  <2>2. pendingHashes' = pendingHashes \ {p}
    BY <1>1 DEF p
  <2>3. QED
    BY <1>5, <1>9, <2>1, <2>2
<1>15. PiecesMatch(picker', tasks', pendingHashes')
  BY <1>12, <1>13, <1>14 DEF PiecesMatch
<1>16. HavePieces(picker) \subseteq HavePieces(picker')
  BY <1>6, <1>9 DEF HavePieces
<1>17. QED
  BY <1>1, <1>4, <1>9, <1>10, <1>11, <1>15, <1>16 DEF CoreInv

\* The removal of the transfer: a release is submitted.
LEMMA RemoveCore ==
  ASSUME HeldInv, CoreInv, NEW d \in BOOLEAN, RemoveTransfer(d)
  PROVE  CoreInv' /\ HavePieces(picker') = HavePieces(picker)
<1> DEFINE f == <<AsyncRelease(d)>>
<1>1. /\ tasks' = tasks \o f /\ picker' = picker /\ pendingHashes' = pendingHashes
      /\ pendingResumeIO' = pendingResumeIO /\ state' = state
  BY DEF RemoveTransfer, Submit
<1>2. /\ f \in Seq(Tasks) /\ HashTasksOf(f, {})
      /\ \A i \in 1..Len(f) : f[i].kind = "release"
  BY ReleaseEffect
<1> HIDE DEF f
<1>3. \A i \in 1..Len(f) : f[i].kind # "restore"
  BY <1>2
<1>4. RestoresFirst(tasks', pendingResumeIO')
  BY <1>1, <1>2, <1>3, QueueTypes, RestoresAppend DEF CoreInv
<1>5. HashTasksOf(tasks', pendingHashes')
  <2>1. HashTasksOf(tasks \o f, pendingHashes \union {})
    BY <1>2, QueueTypes, HashesAppend DEF CoreInv
  <2>2. QED
    BY <1>1, <2>1
<1>6. Advances(picker, picker')
  BY <1>1 DEF Advances, CoreInv
<1>7. \A b \in Writing(picker') : WriteQueued(tasks', b)
  <2> TAKE b \in Writing(picker')
  <2>1. WriteQueued(tasks, b)
    BY <1>1 DEF CoreInv, PiecesMatch
  <2>2. QED
    BY <1>1, <1>2, <2>1, QueueTypes, QueueAppend
<1>8. \A i \in 1..Len(tasks') : tasks'[i].kind = "restore" =>
         \E j \in 1..Len(tasks) : tasks'[i] = tasks[j]
  <2> TAKE i \in 1..Len(tasks')
  <2>1. \/ \E j \in 1..Len(tasks) : tasks'[i] = tasks[j]
        \/ \E j \in 1..Len(f) : tasks'[i] = f[j]
    BY <1>1, <1>2, QueueTypes, QueueAppend
  <2>2. QED
    BY <1>3, <2>1
<1>9. tasks' \in Seq(Tasks) /\ pendingHashes' \in SUBSET Pieces
  BY <1>1, <1>2, QueueTypes
<1>10. PiecesMatch(picker', tasks', pendingHashes')
  BY <1>1, <1>6, <1>7, <1>8, <1>9, QueueTypes, MatchKept DEF CoreInv
<1>11. QED
  BY <1>1, <1>4, <1>5, <1>10 DEF CoreInv

\* A new process queues the restores of the saved blocks and nothing else.
LEMMA RestartCore ==
  ASSUME PickerAssumption, HeldInv, SavedInv, Restart
  PROVE  CoreInv'
<1> DEFINE n == Cardinality(saved.blocks)
<1>1. saved.blocks \in SUBSET Blocks /\ saved.have \in SUBSET Pieces /\ n \in Nat
  BY QueueTypes, BlocksFinite DEF SavedStates
<1>2. PICK s \in RestoreOrders(saved.blocks) : tasks' = [i \in 1..n |-> AsyncRestore(s[i])]
  BY DEF Restart
<1>3. \A i \in 1..n : s[i] \in saved.blocks
  BY <1>2 DEF RestoreOrders
<1>4. /\ picker'.queue = {} /\ picker'.block = [b \in Blocks |-> FreshBlock]
      /\ picker'.status = [p \in Pieces |-> IF p \in saved.have THEN "Have" ELSE "None"]
  BY DEF Restart, RestoreHave, EmptyPicker
<1>5. pendingHashes' = {} /\ pendingResumeIO' = n /\ (n # 0 => state' = "LoadingResumeData")
  BY DEF Restart
<1> HIDE DEF n
<1>6. Len(tasks') = n /\ \A i \in 1..n : tasks'[i] = AsyncRestore(s[i])
  BY <1>1, <1>2
<1>7. \A i \in 1..n : tasks'[i].kind = "restore" /\ tasks'[i].block = s[i]
  BY <1>6 DEF AsyncRestore
<1>8. Tidy(picker') /\ Writing(picker') = {}
  BY <1>4 DEF Tidy, Writing, FreshBlock
<1>9. RestoresFirst(tasks', n)
  BY <1>1, <1>6, <1>7 DEF RestoresFirst
<1>10. HashTasksOf(tasks', {})
  BY <1>6, <1>7 DEF HashTasksOf
<1>11. PiecesMatch(picker', tasks', {})
  <2>1. \A i \in 1..n : s[i][1] \in Pieces /\ s[i][1] \notin saved.have
    BY <1>1, <1>2, <1>3, BlocksInPieces DEF SavedInv
  <2>2. QED
    BY <1>4, <1>6, <1>7, <1>8, <2>1 DEF PiecesMatch
<1>12. QED
  BY <1>5, <1>8, <1>9, <1>10, <1>11 DEF CoreInv

LEMMA CoreNext ==
  ASSUME PickerAssumption, QueueInv, [Next]_vars
  PROVE  /\ CoreInv'
         /\ \/ Restart \/ OnPieceHashed
            \/ HavePieces(picker') = HavePieces(picker)
<1>1. HeldInv /\ CoreInv /\ SavedInv
  BY DEF QueueInv
<1>2. ASSUME UNCHANGED <<picker, tasks, pendingHashes, pendingResumeIO, state>>
      PROVE  CoreInv' /\ HavePieces(picker') = HavePieces(picker)
  BY <1>1, <1>2 DEF CoreInv, Tidy, Writing, RestoresFirst, HashTasksOf, PiecesMatch,
     WriteQueued
<1>3. ASSUME NEW p \in Peers, ConnectToPeer(p) \/ ReceiveHashSet(p) \/ PeerCloses(p)
      PROVE  UNCHANGED <<picker, tasks, pendingHashes, pendingResumeIO, state>>
  BY <1>3 DEF ConnectToPeer, ReceiveHashSet, PeerCloses, transferVars, diskVars
<1>4. CASE Tick
  <2>1. ASSUME NEW p \in Peers,
               \/ ConnectToPeer(p) \/ ReceiveHashSet(p) \/ ReceiveAcceptUpload(p)
               \/ \E b \in Blocks, c \in Bytes : ReceiveBlock(p, b, c)
               \/ PeerCloses(p) \/ OnDisconnect(p)
        PROVE  CoreInv' /\ HavePieces(picker') = HavePieces(picker)
    BY <1>1, <1>2, <1>2, <1>3, <2>1, AcceptCore, ReceiveCore, DisconnectCore
  <2>2. CASE EndPump
    BY <1>2, <2>2 DEF EndPump, transferVars, diskVars
  <2>3. CASE DiskCallback
    BY <1>1, <2>3, WrittenCore, HashedCore, OtherCallbacksCore DEF DiskCallback
  <2>4. QED
    BY <1>4, <2>1, <2>2, <2>3 DEF Tick
<1>5. CASE DiskGoroutine
  <2>1. UNCHANGED <<picker, tasks, pendingHashes, pendingResumeIO, state>>
    BY <1>5 DEF DiskGoroutine, RunWrite, RunHash, RunRestore, RunRelease, RunHead,
       transferVars
  <2>2. QED
    BY <1>2, <2>1
<1>6. CASE API
  <2>1. CASE PauseTransfer \/ ResumeTransfer \/ SaveState
    <3>1. UNCHANGED <<picker, tasks, pendingHashes, pendingResumeIO, state>>
      BY <2>1 DEF PauseTransfer, ResumeTransfer, SaveState, transferVars, diskVars
    <3>2. QED
      BY <1>2, <3>1
  <2>2. ASSUME NEW d \in BOOLEAN, RemoveTransfer(d)
        PROVE  CoreInv' /\ HavePieces(picker') = HavePieces(picker)
    BY <1>1, <2>2, RemoveCore
  <2>3. QED
    BY <1>6, <2>1, <2>2 DEF API
<1>7. CASE Restart
  BY <1>1, <1>7, RestartCore
<1>8. CASE UNCHANGED vars
  BY <1>2, <1>8 DEF vars, transferVars, diskVars
<1>9. QED
  BY <1>4, <1>5, <1>6, <1>7, <1>8 DEF Next

\* A save takes a block only from the download queue of the picker, where no
\* complete piece is.
LEMMA SavedNext ==
  ASSUME QueueInv, [Next]_vars
  PROVE  SavedInv'
<1>1. saved' = saved \/ SaveState
  BY DEF Next, Tick, DiskCallback, DiskGoroutine, API, ConnectToPeer, ReceiveHashSet,
     ReceiveAcceptUpload, ReceiveBlock, PeerCloses, OnDisconnect, EndPump, OnBlockWritten,
     OnBlockWriteFailed, OnPieceHashed, OnBlockRestored, OnBlockRestoreFailed,
     OnReleaseFile, RunWrite, RunHash, RunRestore, RunRelease, PauseTransfer,
     ResumeTransfer, RemoveTransfer, Restart, vars
<1>2. CASE saved' = saved
  BY <1>2 DEF QueueInv, SavedInv
<1>3. CASE SaveState
  <2>1. saved' = NoState \/ saved' = Snapshot
    BY <1>3 DEF SaveState
  <2>2. NoState.blocks = {}
    BY DEF NoState
  <2>3. \A b \in Snapshot.blocks : b[1] \notin Snapshot.have
    BY DEF Snapshot, FinishedBlocks, HavePieces, QueueInv, CoreInv, Tidy
  <2>4. QED
    BY <2>1, <2>2, <2>3 DEF SavedInv
<1>4. QED
  BY <1>1, <1>2, <1>3

\* A step spends at most one of the Limits.
LEMMA SpentNext ==
  ASSUME [Next]_vars
  PROVE  spent' = spent \/ \E f \in Faults : Spend(f)
  BY DEF Faults, Next, Tick, DiskCallback, DiskGoroutine, API, ConnectToPeer, ReceiveHashSet,
     ReceiveAcceptUpload, ReceiveBlock, PeerCloses, OnDisconnect, EndPump, OnBlockWritten,
     OnBlockWriteFailed, OnPieceHashed, OnBlockRestored, OnBlockRestoreFailed,
     OnReleaseFile, RunWrite, RunHash, RunRestore, RunRelease, PauseTransfer,
     ResumeTransfer, RemoveTransfer, SaveState, Restart, vars

\* An upload accepted early is never forgotten.
LEMMA EarlyKept ==
  ASSUME TypeInv, [Next]_vars, spent["early"] # 0
  PROVE  spent'["early"] # 0
<1>1. spent \in [Faults -> Nat] /\ "early" \in Faults
  BY DEF TypeInv, TypeOK, Faults
<1>2. ASSUME NEW f \in Faults, Spend(f)
      PROVE  spent'["early"] # 0
  BY <1>1, <1>2 DEF Spend
<1>3. ASSUME spent' = spent
      PROVE  spent'["early"] # 0
  BY <1>3
<1>4. QED
  BY <1>2, <1>3, SpentNext

\* Nothing is asked for before the hash set, so nothing is written or hashed.
LEMMA HashSetNext ==
  ASSUME PickerAssumption, QueueInv, [Next]_vars
  PROVE  HashSetFirst'
<1>1. /\ tasks \in Seq(Tasks) /\ conn \in [Peers -> Connections]
      /\ HeldInv /\ CoreInv
  BY QueueTypes DEF QueueInv
<1>2. CASE Restart
  <2>1. /\ \A p \in Peers : conn'[p].phase = "Absent" /\ conn'[p].queue = {}
        /\ pendingHashes' = {}
    BY <1>2 DEF Restart, NoConnection
  <2>2. \A i \in 1..Len(tasks') : tasks'[i].kind # "write"
    <3>1. Cardinality(saved.blocks) \in Nat
      BY <1>1, QueueTypes, BlocksFinite DEF SavedStates
    <3>2. PICK s : tasks' = [i \in 1..Cardinality(saved.blocks) |-> AsyncRestore(s[i])]
      BY <1>2 DEF Restart
    <3>3. \A b : AsyncRestore(b).kind = "restore"
      BY DEF AsyncRestore
    <3>4. QED
      BY <3>1, <3>2, <3>3
  <2>3. QED
    BY <2>1, <2>2 DEF HashSetFirst
<1>3. CASE (hashSet' \/ spent'["early"] # 0) /\ ~Restart
  BY <1>3 DEF HashSetFirst
<1>4. CASE ~hashSet' /\ spent'["early"] = 0 /\ ~Restart
  <2>1. ~hashSet /\ ~\E p \in Peers : ReceiveHashSet(p)
    <3>1. ~\E p \in Peers : ReceiveHashSet(p)
      BY <1>4 DEF ReceiveHashSet
    <3>2. hashSet' = hashSet
      BY <1>4, <3>1 DEF Next, Tick, DiskCallback, DiskGoroutine, API, ConnectToPeer,
         ReceiveAcceptUpload, ReceiveBlock, PeerCloses, OnDisconnect, EndPump,
         OnBlockWritten, OnBlockWriteFailed, OnPieceHashed, OnBlockRestored,
         OnBlockRestoreFailed, OnReleaseFile, RunWrite, RunHash, RunRestore, RunRelease,
         PauseTransfer, ResumeTransfer, RemoveTransfer, SaveState, vars, transferVars
    <3>3. QED
      BY <1>4, <3>1, <3>2
  <2>2. /\ \A p \in Peers : conn[p].phase \in {"Absent", "Handshake"} /\ conn[p].queue = {}
        /\ \A i \in 1..Len(tasks) : tasks[i].kind # "write"
        /\ pendingHashes = {}
    <3>1. TypeInv /\ spent["early"] = 0
      BY <1>1, <1>4, EarlyKept DEF HeldInv
    <3>2. QED
      BY <2>1, <3>1 DEF QueueInv, HashSetFirst
  <2>3. /\ ~\E p \in Peers : ReceiveAcceptUpload(p)
        /\ ~\E p \in Peers, b \in Blocks, c \in Bytes : ReceiveBlock(p, b, c)
    <3>1. spent \in [Faults -> Nat] /\ "early" \in Faults
      BY <1>1 DEF HeldInv, TypeInv, TypeOK, Faults
    <3>2. ~Spend("early")
      BY <1>4, <3>1 DEF Spend
    <3>3. ASSUME NEW p \in Peers, ReceiveAcceptUpload(p) PROVE FALSE
      BY <2>2, <3>2, <3>3 DEF ReceiveAcceptUpload
    <3>4. ASSUME NEW p \in Peers, NEW b \in Blocks, NEW c \in Bytes, ReceiveBlock(p, b, c)
          PROVE  FALSE
      BY <2>2, <3>4 DEF ReceiveBlock
    <3>5. QED
      BY <3>3, <3>4
  <2>4. ~OnBlockWritten
    <3>1. ASSUME OnBlockWritten PROVE FALSE
      <4>1. tasks # <<>> /\ Head(tasks).kind = "write"
        BY <1>1, <3>1, HeadDone DEF OnBlockWritten, Done
      <4>2. 1 \in 1..Len(tasks) /\ Head(tasks) = tasks[1]
        BY <1>1, <4>1
      <4>3. QED
        BY <2>2, <4>1, <4>2
    <3>2. QED
      BY <3>1
  <2>5. \A p \in Peers : conn'[p].phase \in {"Absent", "Handshake"} /\ conn'[p].queue = {}
    <3>1. ASSUME NEW p \in Peers, ConnectToPeer(p) \/ PeerCloses(p) \/ OnDisconnect(p)
          PROVE  \A q \in Peers : conn'[q].phase \in {"Absent", "Handshake"} /\ conn'[q].queue = {}
      BY <1>1, <2>2, <3>1 DEF ConnectToPeer, PeerCloses, OnDisconnect, NoConnection,
         Connections
    <3>2. ASSUME conn' = conn \/ conn' = AllClosed
          PROVE  \A q \in Peers : conn'[q].phase \in {"Absent", "Handshake"} /\ conn'[q].queue = {}
      BY <1>1, <2>2, <3>2 DEF AllClosed, Connections
    <3>3. CASE ~\E p \in Peers : ConnectToPeer(p) \/ PeerCloses(p) \/ OnDisconnect(p)
      <4>1. conn' = conn \/ conn' = AllClosed
        BY <1>4, <2>1, <2>3, <2>4, <3>3 DEF Next, Tick, DiskCallback, DiskGoroutine, API,
           EndPump, OnBlockWriteFailed, OnPieceHashed, OnBlockRestored,
           OnBlockRestoreFailed, OnReleaseFile, RunWrite, RunHash, RunRestore,
           RunRelease, PauseTransfer, ResumeTransfer, RemoveTransfer, SaveState,
           CloseUnderTick, vars
      <4>2. QED
        BY <3>2, <4>1
    <3>4. QED
      BY <3>1, <3>3
  <2>6. pendingHashes' = {}
    BY <1>4, <2>1, <2>2, <2>3, <2>4 DEF Next, Tick, DiskCallback, DiskGoroutine, API,
       ConnectToPeer, PeerCloses, OnDisconnect, EndPump, OnBlockWriteFailed,
       OnPieceHashed, OnBlockRestored, OnBlockRestoreFailed, OnReleaseFile, RunWrite,
       RunHash, RunRestore, RunRelease, PauseTransfer, ResumeTransfer, RemoveTransfer,
       SaveState, vars, transferVars
  <2>7. \A i \in 1..Len(tasks') : tasks'[i].kind # "write"
    <3>1. ASSUME NEW ts \in Seq(Tasks), \A i \in 1..Len(ts) : ts[i].kind # "write",
                 NEW d \in BOOLEAN, tasks' = ts \o <<AsyncRelease(d)>>
          PROVE  \A i \in 1..Len(tasks') : tasks'[i].kind # "write"
      <4> DEFINE f == <<AsyncRelease(d)>>
      <4>1. /\ f \in Seq(Tasks) /\ \A i \in 1..Len(f) : f[i].kind = "release"
        BY ReleaseEffect
      <4> HIDE DEF f
      <4>2. tasks' = ts \o f
        BY <3>1 DEF f
      <4>3. TAKE i \in 1..Len(tasks')
      <4>4. \/ \E j \in 1..Len(ts) : tasks'[i] = ts[j]
            \/ \E j \in 1..Len(f) : tasks'[i] = f[j]
        BY <4>1, <4>2, QueueAppend
      <4>5. QED
        BY <3>1, <4>1, <4>4
    <3>2. ASSUME DiskCallback
          PROVE  \A i \in 1..Len(tasks') : tasks'[i].kind # "write"
      <4> DEFINE left == Tail(tasks)
      <4>1. disk = "done"
        BY <3>2 DEF DiskCallback, OnBlockWritten, OnBlockWriteFailed, OnPieceHashed,
           OnBlockRestored, OnBlockRestoreFailed, OnReleaseFile, Done
      <4>2. tasks # <<>> /\ left \in Seq(Tasks)
        BY <1>1, <4>1, HeadDone
      <4>3. \A i \in 1..Len(left) : left[i].kind # "write"
        BY <1>1, <2>2, <4>2, QueueTail
      <4>4. RemoveDone(<<>>) \/ RemoveDone(<<AsyncRelease(FALSE)>>)
        BY <2>4, <3>2 DEF DiskCallback, OnBlockWriteFailed, OnPieceHashed,
           OnBlockRestored, OnBlockRestoreFailed, OnReleaseFile
      <4>5. tasks' = left \o <<>> \/ tasks' = left \o <<AsyncRelease(FALSE)>>
        BY <4>4 DEF RemoveDone
      <4> HIDE DEF left
      <4>6. CASE tasks' = left \o <<>>
        BY <4>2, <4>3, <4>6
      <4>7. CASE tasks' = left \o <<AsyncRelease(FALSE)>>
        BY <3>1, <4>2, <4>3, <4>7
      <4>8. QED
        BY <4>5, <4>6, <4>7
    <3>3. ASSUME NEW d \in BOOLEAN, RemoveTransfer(d)
          PROVE  \A i \in 1..Len(tasks') : tasks'[i].kind # "write"
      <4>1. tasks' = tasks \o <<AsyncRelease(d)>>
        BY <3>3 DEF RemoveTransfer, Submit
      <4>2. QED
        BY <1>1, <2>2, <3>1, <4>1
    <3>4. CASE ~DiskCallback /\ ~\E d \in BOOLEAN : RemoveTransfer(d)
      <4>1. tasks' = tasks
        BY <1>4, <2>1, <2>3, <3>4 DEF Next, Tick, DiskGoroutine, API, ConnectToPeer,
           PeerCloses, OnDisconnect, EndPump, RunWrite, RunHash, RunRestore, RunRelease,
           RunHead, PauseTransfer, ResumeTransfer, SaveState, vars, diskVars
      <4>2. QED
        BY <2>2, <4>1
    <3>5. QED
      BY <3>2, <3>3, <3>4
  <2>8. QED
    BY <2>5, <2>6, <2>7 DEF HashSetFirst
<1>5. hashSet' \in BOOLEAN
  <2>1. TypeInv'
    BY <1>1, QueueTypes, NextType, DownloadAssumption
  <2>2. QED
    BY <2>1 DEF TypeInv, TypeOK
<1>6. QED
  BY <1>2, <1>3, <1>4, <1>5
-----------------------------------------------------------------------------
(* The theorems.                                                           *)

LEMMA QueueInit == PickerAssumption /\ DownloadAssumption /\ Init => QueueInv
<1> SUFFICES ASSUME PickerAssumption, DownloadAssumption, Init PROVE QueueInv
  OBVIOUS
<1>1. HeldInv
  BY HeldInit
<1>2. /\ picker = EmptyPicker /\ tasks = <<>> /\ pendingResumeIO = 0 /\ pendingHashes = {}
      /\ saved = Snapshot
  BY DEF Init, DiskInit
<1>3. Tidy(picker) /\ Writing(picker) = {} /\ picker.queue = {}
  BY <1>2 DEF EmptyPicker, FreshBlock, Tidy, Writing
<1>4. CoreInv
  BY <1>2, <1>3, HashesOfOne DEF CoreInv, RestoresFirst, PiecesMatch
<1>5. SavedInv
  BY <1>2, <1>3 DEF SavedInv, Snapshot, FinishedBlocks
<1>6. HashSetFirst
  <2>1. \A p \in Peers : conn[p].phase = "Absent" /\ conn[p].queue = {}
    BY DEF Init, NoConnection
  <2>2. QED
    BY <1>2, <2>1 DEF HashSetFirst
<1>7. QED
  BY <1>1, <1>4, <1>5, <1>6 DEF QueueInv

LEMMA QueueNext ==
  ASSUME PickerAssumption, DownloadAssumption, QueueInv, [Next]_vars
  PROVE  QueueInv'
<1>1. HeldInv'
  BY HeldNext DEF QueueInv
<1>2. CoreInv' /\ SavedInv' /\ HashSetFirst'
  BY CoreNext, SavedNext, HashSetNext
<1>3. QED
  BY <1>1, <1>2 DEF QueueInv

\* What the transfer remembers of the disk queue is what the queue holds.
LEMMA QueueInvImplies ==
  ASSUME QueueInv
  PROVE  WritesAreQueued /\ HashesAreQueued /\ RestoresAreCounted /\ HashesAreKnown
<1>1. /\ tasks \in Seq(Tasks) /\ pendingHashes \in SUBSET Pieces /\ pendingResumeIO \in Nat
      /\ CoreInv /\ HashSetFirst
  BY QueueTypes DEF QueueInv
<1>2. DOMAIN tasks = 1..Len(tasks) /\ Len(tasks) \in Nat
  BY <1>1
<1>3. \A i \in 1..Len(tasks) : tasks[i] \in Tasks
  BY <1>1
<1>4. WritesAreQueued
  <2>1. ASSUME NEW b \in Blocks, picker.block[b].state = "Writing"
        PROVE  \E c \in Bytes : Queued(AsyncWrite(b, c))
    <3>1. PICK i \in 1..Len(tasks) : tasks[i].kind = "write" /\ tasks[i].block = b
      BY <1>1, <2>1 DEF CoreInv, PiecesMatch, Writing, WriteQueued
    <3>2. tasks[i] \in WriteTasks
      BY <1>3, <3>1 DEF Tasks, HashTasks, RestoreTasks, ReleaseTasks
    <3>3. tasks[i].bytes \in Bytes /\ tasks[i] = AsyncWrite(b, tasks[i].bytes)
      BY <3>1, <3>2 DEF WriteTasks, AsyncWrite
    <3>4. QED
      BY <1>2, <3>3 DEF Queued
  <2>2. QED
    BY <2>1 DEF WritesAreQueued
<1>5. HashesAreQueued
  <2>1. ASSUME NEW i \in 1..Len(tasks), tasks[i].kind = "hash"
        PROVE  tasks[i].piece \in Pieces /\ tasks[i] = AsyncHash(tasks[i].piece)
    <3>1. tasks[i] \in HashTasks
      BY <1>3, <2>1 DEF Tasks, WriteTasks, RestoreTasks, ReleaseTasks
    <3>2. QED
      BY <3>1 DEF HashTasks, AsyncHash
  <2>2. \A p \in pendingHashes : Queued(AsyncHash(p))
    <3> TAKE p \in pendingHashes
    <3>1. PICK i \in 1..Len(tasks) : tasks[i].kind = "hash" /\ tasks[i].piece = p
      BY <1>1 DEF CoreInv, HashTasksOf
    <3>2. QED
      BY <1>2, <2>1, <3>1 DEF Queued
  <2>3. \A p \in Pieces : Queued(AsyncHash(p)) => p \in pendingHashes
    <3> TAKE p \in Pieces
    <3> HAVE Queued(AsyncHash(p))
    <3>1. PICK i \in 1..Len(tasks) : tasks[i] = AsyncHash(p)
      BY <1>2 DEF Queued
    <3>2. tasks[i].kind = "hash" /\ tasks[i].piece = p
      BY <3>1 DEF AsyncHash
    <3>3. QED
      BY <1>1, <3>2 DEF CoreInv, HashTasksOf
  <2>4. pendingHashes = {p \in Pieces : Queued(AsyncHash(p))}
    BY <1>1, <2>2, <2>3
  <2>5. \A i, j \in 1..Len(tasks) : tasks[i].kind = "hash" /\ tasks[i] = tasks[j] => i = j
    BY <1>1 DEF CoreInv, HashTasksOf
  <2>6. \A p \in pendingHashes : picker.status[p] = "Downloading"
    BY <1>1 DEF CoreInv, PiecesMatch
  <2>7. QED
    BY <1>2, <2>4, <2>5, <2>6 DEF HashesAreQueued
<1>6. RestoresAreCounted
  <2> DEFINE n        == pendingResumeIO
             restores == {i \in DOMAIN tasks : tasks[i].kind = "restore"}
  <2>1. n \in 0..Len(tasks) /\ \A i \in 1..Len(tasks) : tasks[i].kind = "restore" <=> i <= n
    BY <1>1 DEF CoreInv, RestoresFirst
  <2>2. restores = 1..n
    BY <1>2, <2>1
  <2> HIDE DEF restores
  <2>3. Cardinality(1..n) = n
    <3>1. Cardinality(1..n) = IF 1 > n THEN 0 ELSE n - 1 + 1
      BY <1>1, FS_Interval
    <3>2. QED
      BY <1>1, <3>1
  <2>4. restores # {} => n > 0
    BY <1>1, <2>2
  <2>5. n > 0 => state = "LoadingResumeData"
    BY <1>1 DEF CoreInv
  <2>6. QED
    BY <2>2, <2>3, <2>4, <2>5 DEF RestoresAreCounted, restores
<1>7. HashesAreKnown
  BY <1>1 DEF HashSetFirst, HashesAreKnown
<1>8. QED
  BY <1>4, <1>5, <1>6, <1>7

LEMMA QueueInvariant == Spec => []QueueInv
<1>1. Init => QueueInv
  BY QueueInit, PickerAssumption, DownloadAssumption
<1>2. QueueInv /\ [Next]_vars => QueueInv'
  BY QueueNext, PickerAssumption, DownloadAssumption
<1>3. QED
  BY <1>1, <1>2, PTL DEF Spec

\* A block is Writing only while the write that will move it on is in the disk
\* queue: no block is stuck between its arrival and the disk.
THEOREM WritesQueued == Spec => []WritesAreQueued
<1>1. QueueInv => WritesAreQueued
  BY QueueInvImplies
<1>2. QED
  BY <1>1, QueueInvariant, PTL

\* pendingPieceHashes is exactly the set of pieces with a hash in the disk
\* queue, each of them once: QueuePieceHash neither forgets nor repeats one.
THEOREM HashesQueued == Spec => []HashesAreQueued
<1>1. QueueInv => HashesAreQueued
  BY QueueInvImplies
<1>2. QED
  BY <1>1, QueueInvariant, PTL

\* pendingResumeIO counts the restores in the disk queue, failed ones
\* included, and the transfer is loading as long as there is one.
THEOREM RestoresCounted == Spec => []RestoresAreCounted
<1>1. QueueInv => RestoresAreCounted
  BY QueueInvImplies
<1>2. QED
  BY <1>1, QueueInvariant, PTL

\* While every peer that accepts an upload has sent the hash set before, no piece
\* is hashed before the hash set is known: OnPieceHashCompleted takes none without
\* comparing it.
THEOREM HashesKnown == Spec => []HashesAreKnown
<1>1. QueueInv => HashesAreKnown
  BY QueueInvImplies
<1>2. QED
  BY <1>1, QueueInvariant, PTL

\* Within a process no late result of the disk takes back a complete piece.
THEOREM HaveKept == Spec => HaveNeverLost
<1> DEFINE Kept == spent'["restart"] = spent["restart"]
                     => HavePieces(picker) \subseteq HavePieces(picker')
<1>1. QueueInv /\ [Next]_vars => [Kept]_vars
  <2> SUFFICES ASSUME QueueInv, [Next]_vars, spent'["restart"] = spent["restart"]
               PROVE  HavePieces(picker) \subseteq HavePieces(picker')
    OBVIOUS
  <2>1. ~Restart
    <3>1. spent \in [Faults -> Nat] /\ "restart" \in Faults
      BY DEF QueueInv, HeldInv, TypeInv, TypeOK, Faults
    <3>2. QED
      BY <3>1 DEF Restart, Spend
  <2>2. CASE OnPieceHashed
    BY <2>2, HashedCore, PickerAssumption DEF QueueInv
  <2>3. QED
    BY <2>1, <2>2, CoreNext, PickerAssumption
<1>2. QED
  BY <1>1, QueueInvariant, PTL DEF Spec, HaveNeverLost

=============================================================================
