---------------------------- MODULE DiskProofs ----------------------------
(***************************************************************************)
(* Proofs about Download and what is on disk, for any file and any set of  *)
(* peers.  For any number of faults, saves and restarts: what the state    *)
(* file claims is in the file.  For a process that is not interrupted and  *)
(* whose disk works: the transfer keeps the contract of FileTransfer.      *)
(***************************************************************************)
EXTENDS DownloadProofs

Stored(b) == store.file[b] # "none"

\* A block that counts as finished, alone or in a complete piece.
Claimed(pk, b) == pk.block[b].state = "Finished" \/ pk.status[b[1]] = "Have"

(* SavedIsOnDisk is not inductive: a save copies what the picker claims, the *)
(* picker claims what a task has reported, and a hash is computed from       *)
(* buffers.  OnDisk follows a block back along that way; no task deletes the *)
(* file as long as the transfer is not removed.                              *)
NoneDeletes == \A i \in 1..Len(tasks) : tasks[i].kind = "release" => ~tasks[i].deleteFile

RestoresStored == \A i \in 1..Len(tasks) : tasks[i].kind = "restore" => Stored(tasks[i].block)

\* What a result that has not been received yet is about to make of it.
ResultStored ==
  disk = "done" /\ outcome =>
    /\ Head(tasks).kind = "write" => Stored(Head(tasks).block)
    /\ Head(tasks).kind = "hash"  => \A b \in BlocksOf(Head(tasks).piece) : Stored(b)

\* A right block only enters a hash when it is written or read.
BuffersStored(st) ==
  \A b \in Blocks : st.buffer[b] = "good" \/ st.hashed[b] = "good" => st.file[b] # "none"

OnDisk ==
  /\ NoneDeletes
  /\ RestoresStored
  /\ ResultStored
  /\ BuffersStored(store)
  /\ \A b \in Blocks : Claimed(picker, b) => Stored(b)
  /\ \A b \in Blocks : Recorded(b) => Stored(b)

DiskInv == QueueInv /\ (spent["remove"] = 0 /\ spent["early"] = 0 => OnDisk)
-----------------------------------------------------------------------------
(* Lemmas about the store.                                                 *)

LEMMA RegisterStored ==
  ASSUME NEW st \in Stores, BuffersStored(st), NEW b \in Blocks, NEW c \in Bytes,
         c = "good" => st.file[b] # "none"
  PROVE  /\ BuffersStored(RegisterBlock(st, b, c))
         /\ RegisterBlock(st, b, c).file = st.file
<1> DEFINE kept == [st.buffer EXCEPT ![b] = c]
           run  == IF IsNextToHash(st, b) THEN RunFrom(kept, b) ELSE {}
           new  == RegisterBlock(st, b, c)
<1>1. \A x \in Blocks : kept[x] = IF x = b THEN c ELSE st.buffer[x]
  BY DEF Stores
<1>2. \A x \in Blocks : kept[x] = "good" => st.file[x] # "none"
  BY <1>1 DEF BuffersStored
<1>3. new = [st EXCEPT !.hashed = [x \in Blocks |-> IF x \in run THEN kept[x] ELSE @[x]],
                       !.buffer = [x \in Blocks |-> IF x \in run THEN "none" ELSE kept[x]]]
  BY DEF RegisterBlock
<1> HIDE DEF kept, run, new
<1>4. /\ new.file = st.file
      /\ \A x \in Blocks : new.hashed[x] = IF x \in run THEN kept[x] ELSE st.hashed[x]
      /\ \A x \in Blocks : new.buffer[x] = IF x \in run THEN "none" ELSE kept[x]
  BY <1>3 DEF Stores
<1>5. BuffersStored(new)
  BY <1>2, <1>4 DEF BuffersStored
<1>6. QED
  BY <1>4, <1>5 DEF new

LEMMA FileStored ==
  ASSUME NEW st \in Stores, BuffersStored(st), NEW b \in Blocks, NEW c \in Contents,
         st.file[b] # "none" => c # "none"
  PROVE  /\ [st EXCEPT !.file[b] = c] \in Stores
         /\ BuffersStored([st EXCEPT !.file[b] = c])
         /\ \A x \in Blocks :
              [st EXCEPT !.file[b] = c].file[x] = IF x = b THEN c ELSE st.file[x]
  BY DEF Stores, BuffersStored

\* A write, right or wrong, leaves what is stored; so does one that fails.
LEMMA WriteStored ==
  ASSUME NEW st \in Stores, BuffersStored(st), NEW b \in Blocks, NEW c \in Bytes
  PROVE  /\ BuffersStored(WriteBlock(st, b, c))
         /\ WriteBlock(st, b, c).file[b] # "none"
         /\ \A x \in Blocks : st.file[x] # "none" => WriteBlock(st, b, c).file[x] # "none"
<1> DEFINE mid == [st EXCEPT !.file[b] = c]
<1>1. c \in Contents /\ c # "none"
  BY DEF Contents, Bytes
<1>2. /\ mid \in Stores /\ BuffersStored(mid)
      /\ \A x \in Blocks : mid.file[x] = IF x = b THEN c ELSE st.file[x]
  BY <1>1, FileStored
<1>3. WriteBlock(st, b, c) = RegisterBlock(mid, b, c)
  BY DEF WriteBlock
<1> HIDE DEF mid
<1>4. BuffersStored(RegisterBlock(mid, b, c)) /\ RegisterBlock(mid, b, c).file = mid.file
  BY <1>1, <1>2, RegisterStored
<1>5. QED
  BY <1>1, <1>2, <1>3, <1>4

LEMMA FailedWriteStored ==
  ASSUME NEW st \in Stores, BuffersStored(st), NEW b \in Blocks, NEW c,
         c = st.file[b] \/ c = "bad"
  PROVE  /\ BuffersStored([st EXCEPT !.file[b] = c])
         /\ \A x \in Blocks : st.file[x] # "none" => [st EXCEPT !.file[b] = c].file[x] # "none"
<1>1. c \in Contents /\ (st.file[b] # "none" => c # "none")
  BY DEF Stores, Contents, Bytes
<1>2. QED
  BY <1>1, FileStored

LEMMA RestoreStored ==
  ASSUME NEW st \in Stores, BuffersStored(st), NEW b \in Blocks
  PROVE  BuffersStored(RestoreBlock(st, b)) /\ RestoreBlock(st, b).file = st.file
<1> DEFINE c == IF st.file[b] = "none" THEN "bad" ELSE st.file[b]
<1>1. c \in Bytes /\ (c = "good" => st.file[b] # "none")
  BY DEF Stores, Contents, Bytes
<1>2. RestoreBlock(st, b) = RegisterBlock(st, b, c)
  BY DEF RestoreBlock
<1> HIDE DEF c
<1>3. QED
  BY <1>1, <1>2, RegisterStored

LEMMA DropStored ==
  ASSUME NEW st \in Stores, BuffersStored(st)
  PROVE  /\ \A p \in Pieces :
              BuffersStored(DropManager(st, p)) /\ DropManager(st, p).file = st.file
         /\ BuffersStored(ReleaseFile(st, FALSE)) /\ ReleaseFile(st, FALSE).file = st.file
<1>1. ASSUME NEW p \in Pieces
      PROVE  BuffersStored(DropManager(st, p)) /\ DropManager(st, p).file = st.file
  <2>1. /\ DropManager(st, p).file = st.file
        /\ \A b \in Blocks :
             /\ DropManager(st, p).buffer[b] = IF b[1] = p THEN "none" ELSE st.buffer[b]
             /\ DropManager(st, p).hashed[b] = IF b[1] = p THEN "none" ELSE st.hashed[b]
    BY DEF DropManager, Stores
  <2>2. QED
    BY <2>1 DEF BuffersStored
<1>2. BuffersStored(ReleaseFile(st, FALSE)) /\ ReleaseFile(st, FALSE).file = st.file
  BY DEF ReleaseFile, Nothing, BuffersStored
<1>3. QED
  BY <1>1, <1>2
-----------------------------------------------------------------------------
(* Lemmas about what the picker claims.                                    *)

\* Requests, arriving blocks and aborts claim nothing; a finished write or
\* restore claims its block.
LEMMA ClaimedFrom ==
  ASSUME NEW pk \in Pickers, NEW b \in Blocks
  PROVE  /\ \A x \in Blocks : Claimed(MarkAsWriting(pk, b), x) => Claimed(pk, x)
         /\ \A x \in Blocks : Claimed(MarkAsFinished(pk, b), x) => Claimed(pk, x) \/ x = b
         /\ \A x \in Blocks : Claimed(WeHaveBlock(pk, b), x) => Claimed(pk, x) \/ x = b
<1>1. \A x \in Blocks : Claimed(MarkAsWriting(pk, b), x) => Claimed(pk, x)
  BY DEF MarkAsWriting, Write, Claimed, Pickers, BlockRecords
<1>2. \A x \in Blocks : Claimed(MarkAsFinished(pk, b), x) => Claimed(pk, x) \/ x = b
  BY DEF MarkAsFinished, Finish, Claimed, Pickers, BlockRecords
<1>3. \A x \in Blocks : Claimed(WeHaveBlock(pk, b), x) => Claimed(pk, x) \/ x = b
  <2> DEFINE opened == IF b[1] \in pk.queue THEN pk ELSE OpenPieces(pk, {b[1]})
             new    == WeHaveBlock(pk, b)
  <2>1. opened \in Pickers
    BY BlocksInPieces, OpenPiecesType
  <2>2. /\ opened.block = pk.block
        /\ \A q \in Pieces : opened.status[q] = "Have" => pk.status[q] = "Have"
    BY DEF OpenPieces, Pickers
  <2>3. new = [opened EXCEPT !.block[b] = Finish(@)]
    BY DEF WeHaveBlock
  <2> HIDE DEF opened, new
  <2>4. /\ new.status = opened.status
        /\ \A x \in Blocks : x # b => new.block[x] = pk.block[x]
    BY <2>1, <2>2, <2>3 DEF Pickers
  <2>5. QED
    BY <2>2, <2>4, BlocksInPieces DEF Claimed, new
<1>4. QED
  BY <1>1, <1>2, <1>3

LEMMA ClaimedAbort ==
  ASSUME NEW pk \in Pickers, NEW S \in SUBSET Blocks, NEW peer, NEW x \in Blocks,
         Claimed(AbortDownloads(pk, S, peer), x)
  PROVE  Claimed(pk, x)
  BY DEF AbortDownloads, Abort, Claimed, Pickers, BlockRecords

LEMMA ClaimedRequest ==
  ASSUME PickerAssumption, TypeInv, NEW pk \in Pickers, NEW p \in Peers,
         NEW phase \in Phases, NEW queue \in SUBSET Blocks,
         NEW offered, RequestBlocks(pk, p, phase, queue, offered), NEW x \in Blocks, Claimed(picker', x)
  PROVE  Claimed(pk, x)
<1> DEFINE picked == IF queue = {}
                     THEN PickedBlocks(pk, RequestQueueSize, offered) ELSE {}
           S      == {b[1] : b \in picked} \ pk.queue
           opened == OpenPieces(pk, S)
<1>1. picked \in SUBSET Blocks
  BY DEF PickedBlocks, FreeBlocks
<1>2. picker' = [opened EXCEPT !.block = [b \in Blocks |-> IF b \in picked
                                            THEN Request(@[b], p, Slow) ELSE @[b]]]
  BY DEF RequestBlocks, PickPieces
<1>3. S \in SUBSET Pieces
  BY <1>1, BlocksInPieces
<1> HIDE DEF picked
<1>4. opened \in Pickers
  BY <1>3, OpenPiecesType
<1>5. /\ opened.block = pk.block
      /\ \A q \in Pieces : opened.status[q] = "Have" => pk.status[q] = "Have"
  BY DEF OpenPieces, Pickers
<1> HIDE DEF S, opened
<1>6. /\ picker'.status = opened.status
      /\ picker'.block[x] = IF x \in picked THEN Request(pk.block[x], p, Slow)
                                           ELSE pk.block[x]
  BY <1>2, <1>4, <1>5 DEF Pickers
<1>7. Request(pk.block[x], p, Slow).state = "Requested"
  BY DEF Request
<1>8. QED
  BY <1>5, <1>6, <1>7, BlocksInPieces DEF Claimed

\* Only a piece that is taken for good adds claims, those of its blocks.
LEMMA ClaimedClose ==
  ASSUME NEW pk \in Pickers, NEW p \in Pieces, NEW status, NEW x \in Blocks,
         Claimed(ClosePiece(pk, p, status), x)
  PROVE  Claimed(pk, x) \/ (status = "Have" /\ x \in BlocksOf(p))
<1>1. /\ \A q \in Pieces : ClosePiece(pk, p, status).status[q] =
                             IF q = p THEN status ELSE pk.status[q]
      /\ ClosePiece(pk, p, status).block[x] = IF x[1] = p THEN FreshBlock ELSE pk.block[x]
  BY DEF ClosePiece, Pickers
<1>2. FreshBlock.state = "None"
  BY DEF FreshBlock
<1>3. QED
  BY <1>1, <1>2, BlocksInPieces DEF Claimed, BlocksOf
-----------------------------------------------------------------------------
(* The inductive invariant, part by part.                                  *)

\* No step takes back that a transfer was removed.
LEMMA RemovedBefore ==
  ASSUME HeldInv, [Next]_vars, spent'["remove"] = 0
  PROVE  spent["remove"] = 0 /\ ~\E d \in BOOLEAN : RemoveTransfer(d)
<1>1. spent \in [Faults -> Nat] /\ "remove" \in Faults
  BY DEF HeldInv, TypeInv, TypeOK, Faults
<1>2. spent' = spent \/ \E f \in Faults : Spend(f)
  BY SpentNext
<1>3. spent["remove"] <= spent'["remove"] /\ spent["remove"] \in Nat
  BY <1>1, <1>2 DEF Spend
<1>4. \A d \in BOOLEAN : ~RemoveTransfer(d)
  BY <1>1 DEF RemoveTransfer, Spend
<1>5. QED
  BY <1>3, <1>4

\* What is stored stays stored, and the buffers with it.
LEMMA StoreNext ==
  ASSUME DiskInv, OnDisk, [Next]_vars
  PROVE  /\ BuffersStored(store')
         /\ \A b \in Blocks : Stored(b) => Stored(b)'
<1>1. /\ store \in Stores /\ BuffersStored(store) /\ tasks \in Seq(Tasks)
      /\ HeldInv
  BY DEF DiskInv, QueueInv, HeldInv, TypeInv, TypeOK, OnDisk
<1>2. ASSUME NEW kind, Runnable(kind)
      PROVE  /\ tasks # <<>> /\ Head(tasks) \in Tasks /\ Head(tasks).kind = kind
             /\ 1 \in 1..Len(tasks) /\ Head(tasks) = tasks[1]
  BY <1>1, <1>2 DEF Runnable
<1>3. CASE store' = store
  BY <1>1, <1>3 DEF Stored
<1>4. CASE Restart
  <2>1. store'.file = store.file /\ store'.buffer = Nothing /\ store'.hashed = Nothing
    BY <1>1, <1>4 DEF Restart, EmptyStore
  <2>2. QED
    BY <2>1 DEF BuffersStored, Nothing, Stored
<1>5. CASE RunWrite
  <2> DEFINE b == Head(tasks).block
             c == Head(tasks).bytes
  <2>1. b \in Blocks /\ c \in Bytes
    BY <1>2, <1>5, TaskKinds DEF RunWrite
  <2>2. \/ store' = WriteBlock(store, b, c)
        \/ \E d \in {store.file[b], "bad"} : store' = [store EXCEPT !.file[b] = d]
    BY <1>5 DEF RunWrite
  <2> HIDE DEF b, c
  <2>3. CASE store' = WriteBlock(store, b, c)
    BY <1>1, <2>1, <2>3, WriteStored DEF Stored
  <2>4. ASSUME NEW d, d = store.file[b] \/ d = "bad", store' = [store EXCEPT !.file[b] = d]
        PROVE  /\ BuffersStored(store')
               /\ \A x \in Blocks : Stored(x) => Stored(x)'
    BY <1>1, <2>1, <2>4, FailedWriteStored DEF Stored
  <2>5. QED
    BY <2>2, <2>3, <2>4
<1>6. CASE RunHash
  <2>1. Head(tasks).piece \in Pieces
    BY <1>2, <1>6, TaskKinds DEF RunHash
  <2>2. store' = DropManager(store, Head(tasks).piece)
    BY <1>6 DEF RunHash
  <2>3. QED
    BY <1>1, <2>1, <2>2, DropStored DEF Stored
<1>7. CASE RunRestore
  <2>1. Head(tasks).block \in Blocks
    BY <1>2, <1>7, TaskKinds DEF RunRestore
  <2>2. store' = store \/ store' = RestoreBlock(store, Head(tasks).block)
    BY <1>7 DEF RunRestore
  <2>3. QED
    BY <1>1, <2>1, <2>2, RestoreStored DEF Stored
<1>8. CASE RunRelease
  <2>1. Head(tasks).deleteFile \in BOOLEAN /\ ~Head(tasks).deleteFile
    BY <1>2, <1>8, TaskKinds DEF RunRelease, OnDisk, NoneDeletes
  <2>2. Head(tasks).deleteFile = FALSE
    BY <2>1
  <2>3. store' = ReleaseFile(store, FALSE)
    BY <1>8, <2>2 DEF RunRelease
  <2>4. QED
    BY <1>1, <2>3, DropStored DEF Stored
<1>9. store' = store \/ Restart \/ DiskGoroutine
  BY DEF Next, Tick, DiskCallback, API, ConnectToPeer, ReceiveHashSet, ReceiveAcceptUpload,
     ReceiveBlock, PeerCloses, OnDisconnect, EndPump, OnBlockWritten, OnBlockWriteFailed,
     OnPieceHashed, OnBlockRestored, OnBlockRestoreFailed, OnReleaseFile, PauseTransfer,
     ResumeTransfer, RemoveTransfer, SaveState, vars
<1>10. QED
  BY <1>3, <1>4, <1>5, <1>6, <1>7, <1>8, <1>9 DEF DiskGoroutine

\* A task in the queue was there before, or it is one that neither deletes the
\* file nor relies on it.
Harmless(t) ==
  /\ t.kind # "restore"
  /\ t.kind = "release" => ~t.deleteFile

LEMMA FollowupHarmless ==
  ASSUME NEW pk, NEW p \in Pieces
  PROVE  /\ HashFollowup(pk, p) \in Seq(Tasks)
         /\ \A i \in 1..Len(HashFollowup(pk, p)) : Harmless(HashFollowup(pk, p)[i])
<1>1. HashFollowup(pk, p) = <<>> \/ HashFollowup(pk, p) = <<AsyncHash(p)>>
  BY DEF HashFollowup
<1>2. AsyncHash(p) \in Tasks /\ Harmless(AsyncHash(p))
  BY TaskTypes DEF AsyncHash, Harmless
<1>3. HashFollowup(pk, p) \in Seq(Tasks)
  BY FollowupType
<1>4. \A i \in 1..Len(<<AsyncHash(p)>>) : Harmless(<<AsyncHash(p)>>[i])
  BY <1>2
<1>5. \A i \in 1..Len(<<>>) : Harmless(<<>>[i])
  OBVIOUS
<1>6. QED
  BY <1>1, <1>3, <1>4, <1>5

LEMMA TasksFrom ==
  ASSUME PickerAssumption, QueueInv, [Next]_vars, ~Restart,
         ~\E d \in BOOLEAN : RemoveTransfer(d), NEW i \in 1..Len(tasks')
  PROVE  (\E j \in 1..Len(tasks) : tasks'[i] = tasks[j]) \/ Harmless(tasks'[i])
<1>1. /\ tasks \in Seq(Tasks) /\ HeldInv /\ CoreInv
  BY QueueTypes DEF QueueInv
<1>2. CASE tasks' = tasks
  BY <1>2
<1>3. ASSUME NEW ts \in Seq(Tasks), NEW f \in Seq(Tasks), tasks' = ts \o f,
             \A k \in 1..Len(f) : Harmless(f[k]),
             \A k \in 1..Len(ts) : \E j \in 1..Len(tasks) : ts[k] = tasks[j]
      PROVE  (\E j \in 1..Len(tasks) : tasks'[i] = tasks[j]) \/ Harmless(tasks'[i])
  <2>1. i \in 1..Len(ts \o f)
    BY <1>3
  <2>2. \/ \E k \in 1..Len(ts) : (ts \o f)[i] = ts[k]
        \/ \E k \in 1..Len(f) : (ts \o f)[i] = f[k]
    BY <2>1, QueueAppend
  <2>3. QED
    BY <1>3, <2>2
<1>4. ASSUME NEW p \in Peers, NEW b \in Blocks, NEW c \in Bytes, ReceiveBlock(p, b, c)
      PROVE  (\E j \in 1..Len(tasks) : tasks'[i] = tasks[j]) \/ Harmless(tasks'[i])
  <2> DEFINE write    == IF CanWrite(picker, b) THEN <<AsyncWrite(b, c)>> ELSE <<>>
             followup == IF CanWrite(picker, b) /\ ~IsPieceFinished(picker, b[1])
                         THEN HashFollowup(MarkAsWriting(picker, b), b[1]) ELSE <<>>
             f        == write \o followup
  <2>1. tasks' = tasks \o f
    BY <1>4 DEF ReceiveBlock, Submit
  <2>2. write \in Seq(Tasks) /\ \A k \in 1..Len(write) : Harmless(write[k])
    <3>1. AsyncWrite(b, c) \in Tasks /\ Harmless(AsyncWrite(b, c))
      BY TaskTypes DEF AsyncWrite, Harmless
    <3>2. /\ <<AsyncWrite(b, c)>> \in Seq(Tasks) /\ <<>> \in Seq(Tasks)
          /\ \A k \in 1..Len(<<AsyncWrite(b, c)>>) : Harmless(<<AsyncWrite(b, c)>>[k])
          /\ \A k \in 1..Len(<<>>) : Harmless(<<>>[k])
      BY <3>1
    <3>3. QED
      BY <3>2
  <2>3. followup \in Seq(Tasks) /\ \A k \in 1..Len(followup) : Harmless(followup[k])
    <3>1. b[1] \in Pieces
      BY BlocksInPieces
    <3>2. <<>> \in Seq(Tasks) /\ \A k \in 1..Len(<<>>) : Harmless(<<>>[k])
      OBVIOUS
    <3>3. QED
      BY <3>1, <3>2, FollowupHarmless
  <2> HIDE DEF write, followup
  <2>4. f \in Seq(Tasks) /\ \A k \in 1..Len(f) : Harmless(f[k])
    <3>1. f \in Seq(Tasks)
      BY <2>2, <2>3
    <3>2. \A k \in 1..Len(f) : (\E j \in 1..Len(write) : f[k] = write[j])
                               \/ (\E j \in 1..Len(followup) : f[k] = followup[j])
      BY <2>2, <2>3, QueueAppend
    <3>3. QED
      BY <2>2, <2>3, <3>1, <3>2
  <2> HIDE DEF f
  <2>5. QED
    BY <1>1, <1>3, <2>1, <2>4
<1>5. CASE DiskCallback
  <2> DEFINE left == Tail(tasks)
  <2>1. disk = "done"
    BY <1>5 DEF DiskCallback, OnBlockWritten, OnBlockWriteFailed, OnPieceHashed,
       OnBlockRestored, OnBlockRestoreFailed, OnReleaseFile, Done
  <2>2. /\ tasks # <<>> /\ left \in Seq(Tasks)
        /\ Head(tasks).kind \in {"write", "restore"} => Head(tasks).block \in Blocks
    BY <1>1, <2>1, HeadDone
  <2>3. \A k \in 1..Len(left) : \E j \in 1..Len(tasks) : left[k] = tasks[j]
    BY <1>1, <2>2, QueueTail
  <2>4. PICK f \in Seq(Tasks) : /\ \A k \in 1..Len(f) : Harmless(f[k])
                                /\ tasks' = left \o f
    <3>1. CASE OnBlockWritten
      <4> DEFINE b == Head(tasks).block
                 g == HashFollowup(MarkAsFinished(picker, b), b[1])
      <4>1. b[1] \in Pieces /\ tasks' = left \o g
        BY <2>2, <3>1, BlocksInPieces DEF OnBlockWritten, Done, RemoveDone
      <4> HIDE DEF b
      <4>2. QED
        BY <4>1, FollowupHarmless
    <3>2. CASE ~OnBlockWritten
      <4>1. tasks' = left \o <<>> \/ tasks' = left \o <<AsyncRelease(FALSE)>>
        BY <1>5, <3>2 DEF DiskCallback, OnBlockWriteFailed, OnPieceHashed, OnBlockRestored,
           OnBlockRestoreFailed, OnReleaseFile, RemoveDone
      <4>2. <<>> \in Seq(Tasks) /\ \A k \in 1..Len(<<>>) : Harmless(<<>>[k])
        OBVIOUS
      <4>3. /\ <<AsyncRelease(FALSE)>> \in Seq(Tasks)
            /\ \A k \in 1..Len(<<AsyncRelease(FALSE)>>) : Harmless(<<AsyncRelease(FALSE)>>[k])
        <5>1. <<AsyncRelease(FALSE)>> \in Seq(Tasks)
          BY ReleaseEffect
        <5> DEFINE t == AsyncRelease(FALSE)
        <5>2. Harmless(t)
          BY DEF AsyncRelease, Harmless
        <5> HIDE DEF t
        <5>3. \A k \in 1..Len(<<t>>) : Harmless(<<t>>[k])
          BY <5>2
        <5>4. QED
          BY <5>1, <5>3 DEF t
      <4>4. QED
        BY <4>1, <4>2, <4>3
    <3>3. QED
      BY <3>1, <3>2
  <2> HIDE DEF left
  <2>5. QED
    BY <1>3, <2>2, <2>3, <2>4
<1>6. CASE ~DiskCallback /\ ~\E p \in Peers, b \in Blocks, c \in Bytes : ReceiveBlock(p, b, c)
  <2>1. tasks' = tasks
    BY <1>6 DEF Next, Tick, DiskGoroutine, API, ConnectToPeer, ReceiveHashSet,
       ReceiveAcceptUpload, PeerCloses, OnDisconnect, EndPump, RunWrite, RunHash,
       RunRestore, RunRelease, RunHead, PauseTransfer, ResumeTransfer, SaveState, vars,
       diskVars
  <2>2. QED
    BY <1>2, <2>1
<1>7. QED
  BY <1>4, <1>5, <1>6

\* No task that is queued deletes the file, and restores read what is stored.
LEMMA TasksNext ==
  ASSUME PickerAssumption, DiskInv, OnDisk, [Next]_vars,
         ~\E d \in BOOLEAN : RemoveTransfer(d)
  PROVE  NoneDeletes' /\ RestoresStored'
<1>1. /\ \A b \in Blocks : Stored(b) => Stored(b)'
      /\ tasks \in Seq(Tasks) /\ saved \in SavedStates
  BY StoreNext, QueueTypes DEF DiskInv, QueueInv
<1>2. CASE Restart
  <2>1. Cardinality(saved.blocks) \in Nat /\ saved.blocks \in SUBSET Blocks
    BY <1>1, BlocksFinite DEF SavedStates
  <2>2. PICK s \in RestoreOrders(saved.blocks) :
          tasks' = [i \in 1..Cardinality(saved.blocks) |-> AsyncRestore(s[i])]
    BY <1>2 DEF Restart
  <2>3. /\ Len(tasks') = Cardinality(saved.blocks)
        /\ \A i \in 1..Len(tasks') : tasks'[i] = AsyncRestore(s[i]) /\ s[i] \in saved.blocks
    BY <2>1, <2>2 DEF RestoreOrders
  <2>4. \A b : AsyncRestore(b).kind = "restore" /\ AsyncRestore(b).block = b
    BY DEF AsyncRestore
  <2>5. \A b \in saved.blocks : Stored(b)'
    BY <1>1, <2>1 DEF OnDisk, Recorded
  <2>6. NoneDeletes'
    BY <2>3, <2>4 DEF NoneDeletes
  <2>7. RestoresStored'
    BY <2>3, <2>4, <2>5 DEF RestoresStored, Stored
  <2>8. QED
    BY <2>6, <2>7
<1>3. CASE ~Restart
  <2>1. \A i \in 1..Len(tasks') :
          (\E j \in 1..Len(tasks) : tasks'[i] = tasks[j]) \/ Harmless(tasks'[i])
    BY <1>3, TasksFrom DEF DiskInv
  <2>2. NoneDeletes'
    BY <2>1 DEF NoneDeletes, OnDisk, Harmless
  <2>3. \A j \in 1..Len(tasks) :
          tasks[j].kind = "restore" => store'.file[tasks[j].block] # "none"
    <3> TAKE j \in 1..Len(tasks)
    <3> HAVE tasks[j].kind = "restore"
    <3>1. tasks[j] \in Tasks
      BY <1>1
    <3>2. tasks[j].block \in Blocks
      BY <3>1, TaskKinds
    <3>3. QED
      BY <1>1, <3>2 DEF OnDisk, RestoresStored, Stored
  <2>4. RestoresStored'
    BY <2>1, <2>3 DEF RestoresStored, Harmless, Stored
  <2>5. QED
    BY <2>2, <2>4
<1>4. QED
  BY <1>2, <1>3

\* A write that succeeded is on disk, and so is a piece whose hash matches.
LEMMA ResultNext ==
  ASSUME PickerAssumption, DiskInv, OnDisk, [Next]_vars
  PROVE  ResultStored'
<1>1. /\ tasks \in Seq(Tasks) /\ store \in Stores /\ BuffersStored(store)
      /\ disk = "done" => tasks # <<>>
  BY DEF DiskInv, QueueInv, HeldInv, TypeInv, TypeOK, OnDisk
<1>2. ASSUME NEW kind, Runnable(kind)
      PROVE  /\ Head(tasks) \in Tasks /\ Head(tasks).kind = kind
  BY <1>1, <1>2 DEF Runnable
<1>3. CASE disk' = "idle"
  BY <1>3 DEF ResultStored
<1>4. CASE RunWrite
  <2> DEFINE b == Head(tasks).block
             c == Head(tasks).bytes
  <2>1. b \in Blocks /\ c \in Bytes /\ Head(tasks).kind = "write" /\ tasks' = tasks
    BY <1>2, <1>4, TaskKinds DEF RunWrite, RunHead
  <2>2. outcome' = FALSE \/ store' = WriteBlock(store, b, c)
    BY <1>4 DEF RunWrite, RunHead
  <2>3. WriteBlock(store, b, c).file[b] # "none"
    BY <1>1, <2>1, WriteStored
  <2>4. outcome' => store'.file[b] # "none"
    BY <2>2, <2>3
  <2>5. QED
    BY <2>1, <2>4 DEF ResultStored, Stored
<1>5. CASE RunHash
  <2> DEFINE p == Head(tasks).piece
  <2>1. p \in Pieces /\ Head(tasks).kind = "hash" /\ tasks' = tasks
    BY <1>2, <1>5, TaskKinds DEF RunHash, RunHead
  <2>2. outcome' = HashMatches(store, p) /\ store' = DropManager(store, p)
    BY <1>5 DEF RunHash, RunHead
  <2>3. store'.file = store.file
    BY <1>1, <2>1, <2>2, DropStored
  <2>4. ASSUME outcome', NEW b \in BlocksOf(p)
        PROVE  store'.file[b] # "none"
    <3>1. b \in Blocks /\ store.hashed[b] = "good"
      BY <2>2, <2>4 DEF HashMatches, BlocksOf
    <3>2. QED
      BY <1>1, <2>3, <3>1 DEF BuffersStored
  <2>5. QED
    BY <2>1, <2>4 DEF ResultStored, Stored
<1>6. CASE RunRestore \/ RunRelease
  <2>1. Head(tasks).kind \in {"restore", "release"} /\ tasks' = tasks
    BY <1>2, <1>6 DEF RunRestore, RunRelease, RunHead
  <2>2. QED
    BY <2>1 DEF ResultStored
<1>7. CASE disk' = disk /\ outcome' = outcome /\ store' = store
           /\ (tasks # <<>> => Head(tasks') = Head(tasks))
  BY <1>1, <1>7 DEF ResultStored, OnDisk, Stored
<1>8. CASE \E new \in Seq(Tasks) : Submit(new) /\ store' = store
  <2>1. PICK new \in Seq(Tasks) : tasks' = tasks \o new /\ disk' = disk /\ outcome' = outcome
    BY <1>8 DEF Submit
  <2>2. tasks # <<>> => Head(tasks') = Head(tasks)
    BY <1>1, <2>1
  <2>3. QED
    BY <1>7, <1>8, <2>1, <2>2
<1>9. ASSUME NEW p \in Peers, NEW b \in Blocks, NEW c \in Bytes, ReceiveBlock(p, b, c)
      PROVE  \E new \in Seq(Tasks) : Submit(new) /\ store' = store
  <2> DEFINE write    == IF CanWrite(picker, b) THEN <<AsyncWrite(b, c)>> ELSE <<>>
             followup == IF CanWrite(picker, b) /\ ~IsPieceFinished(picker, b[1])
                         THEN HashFollowup(MarkAsWriting(picker, b), b[1]) ELSE <<>>
  <2>1. Submit(write \o followup) /\ store' = store
    BY <1>9 DEF ReceiveBlock
  <2>2. <<AsyncWrite(b, c)>> \in Seq(Tasks) /\ <<>> \in Seq(Tasks) /\ b[1] \in Pieces
    BY TaskTypes, BlocksInPieces
  <2>3. followup \in Seq(Tasks)
    BY <2>2, FollowupType
  <2>4. write \o followup \in Seq(Tasks)
    BY <2>2, <2>3
  <2>5. QED
    BY <2>1, <2>4
<1>10. ASSUME NEW d \in BOOLEAN, RemoveTransfer(d)
       PROVE  \E new \in Seq(Tasks) : Submit(new) /\ store' = store
  BY <1>10, ReleaseEffect DEF RemoveTransfer
<1>11. CASE DiskCallback \/ Restart
  <2>1. disk' = "idle"
    BY <1>11 DEF DiskCallback, OnBlockWritten, OnBlockWriteFailed, OnPieceHashed,
       OnBlockRestored, OnBlockRestoreFailed, OnReleaseFile, RemoveDone, Restart
  <2>2. QED
    BY <1>3, <2>1
<1>12. CASE /\ ~DiskCallback /\ ~Restart /\ ~DiskGoroutine
            /\ ~\E p \in Peers, b \in Blocks, c \in Bytes : ReceiveBlock(p, b, c)
            /\ ~\E d \in BOOLEAN : RemoveTransfer(d)
  <2>1. disk' = disk /\ outcome' = outcome /\ store' = store /\ tasks' = tasks
    BY <1>12 DEF Next, Tick, API, ConnectToPeer, ReceiveHashSet, ReceiveAcceptUpload,
       PeerCloses, OnDisconnect, EndPump, PauseTransfer, ResumeTransfer, SaveState, vars,
       diskVars
  <2>2. QED
    BY <1>7, <2>1
<1>13. QED
  BY <1>4, <1>5, <1>6, <1>8, <1>9, <1>10, <1>11, <1>12 DEF DiskGoroutine

\* The picker only claims a block when its result is in, and a piece when its
\* hash was compared and right.
LEMMA ClaimsNext ==
  ASSUME PickerAssumption, DiskInv, OnDisk, [Next]_vars, spent["early"] = 0, NEW x \in Blocks,
         Claimed(picker', x)
  PROVE  Stored(x)
<1>1. /\ tasks \in Seq(Tasks) /\ HeldInv /\ TypeInv /\ CoreInv /\ picker \in Pickers
      /\ \A p \in Peers : conn[p].queue \in SUBSET Blocks
      /\ pendingHashes \in SUBSET Pieces
  BY QueueTypes DEF DiskInv, QueueInv
<1>2. SUFFICES ASSUME ~Claimed(picker, x) PROVE Stored(x)
  BY DEF OnDisk
<1>3. ~(picker' = picker)
  BY <1>2
<1>4. ASSUME disk = "done"
      PROVE  /\ tasks # <<>> /\ Head(tasks) \in Tasks /\ Head(tasks) = tasks[1]
             /\ 1 \in 1..Len(tasks)
             /\ Head(tasks).kind \in {"write", "restore"} => Head(tasks).block \in Blocks
  BY <1>1, <1>4, HeadDone
<1>5. ASSUME NEW p \in Peers, ReceiveAcceptUpload(p)
      PROVE  FALSE
  <2>1. PICK phase \in Phases, offered \in RemotePieces(p) :
          RequestBlocks(picker, p, phase, conn[p].queue, offered)
    BY <1>1, <1>5, AcceptsBlocks
  <2>2. QED
    BY <1>1, <1>2, <2>1, ClaimedRequest
<1>6. ASSUME NEW p \in Peers, NEW b \in Blocks, NEW c \in Bytes, ReceiveBlock(p, b, c)
      PROVE  FALSE
  <2> DEFINE written == MarkAsWriting(picker, b)
  <2>1. /\ \E offered : RequestBlocks(written, p, conn[p].phase, conn[p].queue \ {b}, offered)
        /\ conn[p].queue \ {b} \in SUBSET Blocks /\ conn[p].phase \in Phases
    BY <1>1, <1>6 DEF ReceiveBlock, TypeInv, TypeOK, Connections
  <2>2. written \in Pickers /\ (Claimed(written, x) => Claimed(picker, x))
    BY <1>1, MarkingTypes, ClaimedFrom
  <2> HIDE DEF written
  <2>3. QED
    BY <1>1, <1>2, <2>1, <2>2, ClaimedRequest
<1>7. ASSUME NEW p \in Peers, OnDisconnect(p)
      PROVE  FALSE
  <2>1. picker' = AbortDownloads(picker, conn[p].queue, p) /\ conn[p].queue \in SUBSET Blocks
    BY <1>1, <1>7 DEF OnDisconnect
  <2>2. QED
    BY <1>1, <1>2, <2>1, ClaimedAbort
<1>8. CASE OnBlockWriteFailed
  <2>1. picker' = AbortDownloads(picker, {Head(tasks).block}, NoPeer)
        /\ {Head(tasks).block} \in SUBSET Blocks
    BY <1>4, <1>8 DEF OnBlockWriteFailed, Done
  <2>2. QED
    BY <1>1, <1>2, <2>1, ClaimedAbort
<1>9. CASE OnBlockWritten
  <2>1. /\ picker' = MarkAsFinished(picker, Head(tasks).block) /\ Head(tasks).block \in Blocks
        /\ disk = "done" /\ outcome /\ Head(tasks).kind = "write"
    BY <1>4, <1>9 DEF OnBlockWritten, Done
  <2>2. x = Head(tasks).block
    BY <1>1, <1>2, <2>1, ClaimedFrom
  <2>3. QED
    BY <2>1, <2>2 DEF OnDisk, ResultStored
<1>10. CASE OnBlockRestored
  <2>1. /\ picker' = WeHaveBlock(picker, Head(tasks).block) /\ Head(tasks).block \in Blocks
        /\ disk = "done" /\ Head(tasks).kind = "restore"
    BY <1>4, <1>10 DEF OnBlockRestored, Done
  <2>2. x = Head(tasks).block
    BY <1>1, <1>2, <2>1, ClaimedFrom
  <2>3. QED
    BY <1>4, <2>1, <2>2 DEF OnDisk, RestoresStored
<1>11. CASE OnPieceHashed
  <2> DEFINE p == Head(tasks).piece
  <2>1. disk = "done" /\ Head(tasks).kind = "hash"
    BY <1>11 DEF OnPieceHashed, Done
  <2>2. p \in pendingHashes /\ p \in Pieces
    BY <1>1, <1>4, <2>1 DEF CoreInv, HashTasksOf
  <2>3. hashSet
    BY <2>2 DEF DiskInv, QueueInv, HashSetFirst
  <2>4. CASE outcome
    <3>1. picker' = ClosePiece(picker, p, "Have")
      BY <1>11, <2>4 DEF OnPieceHashed, WeHave
    <3>2. x \in BlocksOf(p)
      BY <1>1, <1>2, <2>2, <3>1, ClaimedClose
    <3>3. QED
      BY <2>1, <2>4, <3>2 DEF OnDisk, ResultStored
  <2>5. CASE ~outcome
    <3>1. picker' = ClosePiece(picker, p, "None")
      BY <1>11, <2>3, <2>5 DEF OnPieceHashed, RestorePiece
    <3>2. FALSE
      BY <1>1, <1>2, <2>2, <3>1, ClaimedClose
    <3>3. QED
      BY <3>2
  <2>6. QED
    BY <2>4, <2>5
<1>12. CASE Restart
  <2>1. /\ picker'.block[x] = FreshBlock
        /\ picker'.status = [p \in Pieces |-> IF p \in saved.have THEN "Have" ELSE "None"]
    BY <1>12 DEF Restart, RestoreHave, EmptyPicker
  <2>2. x[1] \in saved.have
    BY <2>1, BlocksInPieces DEF Claimed, FreshBlock
  <2>3. QED
    BY <2>2 DEF OnDisk, Recorded
<1>13. CASE \/ \E p \in Peers : ConnectToPeer(p) \/ ReceiveHashSet(p) \/ PeerCloses(p)
            \/ EndPump \/ OnBlockRestoreFailed \/ OnReleaseFile \/ DiskGoroutine \/ API
            \/ UNCHANGED vars
  BY <1>3, <1>13 DEF ConnectToPeer, ReceiveHashSet, PeerCloses, EndPump,
     OnBlockRestoreFailed, OnReleaseFile, DiskGoroutine, RunWrite, RunHash, RunRestore,
     RunRelease, API, PauseTransfer, ResumeTransfer, RemoveTransfer, SaveState, vars
<1>14. QED
  BY <1>5, <1>6, <1>7, <1>8, <1>9, <1>10, <1>11, <1>12, <1>13 DEF Next, Tick, DiskCallback

\* The state file records what the picker claims.
LEMMA RecordedNext ==
  ASSUME OnDisk, [Next]_vars, NEW b \in Blocks, Recorded(b)'
  PROVE  Stored(b)
<1>1. saved' = saved \/ SaveState
  BY DEF Next, Tick, DiskCallback, DiskGoroutine, API, ConnectToPeer, ReceiveHashSet,
     ReceiveAcceptUpload, ReceiveBlock, PeerCloses, OnDisconnect, EndPump, OnBlockWritten,
     OnBlockWriteFailed, OnPieceHashed, OnBlockRestored, OnBlockRestoreFailed,
     OnReleaseFile, RunWrite, RunHash, RunRestore, RunRelease, PauseTransfer,
     ResumeTransfer, RemoveTransfer, Restart, vars
<1>2. CASE saved' = saved
  BY <1>2 DEF Recorded, OnDisk
<1>3. CASE SaveState
  <2>1. saved' = NoState \/ saved' = Snapshot
    BY <1>3 DEF SaveState
  <2>2. NoState.blocks = {} /\ NoState.have = {}
    BY DEF NoState
  <2>3. b \in Snapshot.blocks \/ b[1] \in Snapshot.have
    BY <2>1, <2>2 DEF Recorded
  <2>4. Claimed(picker, b)
    BY <2>3 DEF Snapshot, FinishedBlocks, HavePieces, Claimed
  <2>5. QED
    BY <2>4 DEF OnDisk
<1>4. QED
  BY <1>1, <1>2, <1>3
-----------------------------------------------------------------------------
(* The theorem about the state file.                                       *)

LEMMA DiskInvInit == PickerAssumption /\ DownloadAssumption /\ Init => DiskInv
<1> SUFFICES ASSUME PickerAssumption, DownloadAssumption, Init PROVE DiskInv
  OBVIOUS
<1>1. QueueInv
  BY QueueInit
<1>2. /\ picker = EmptyPicker /\ tasks = <<>> /\ disk = "idle" /\ saved = Snapshot
      /\ store = EmptyStore
  BY DEF Init, DiskInit
<1>3. NoneDeletes /\ RestoresStored /\ ResultStored
  BY <1>2 DEF NoneDeletes, RestoresStored, ResultStored
<1>4. BuffersStored(store)
  BY <1>2 DEF BuffersStored, EmptyStore, Nothing
<1>5. \A b \in Blocks : ~Claimed(picker, b)
  BY <1>2, BlocksInPieces DEF EmptyPicker, FreshBlock, Claimed
<1>6. \A b \in Blocks : ~Recorded(b)
  BY <1>2, <1>5, BlocksInPieces DEF Recorded, Snapshot, FinishedBlocks, HavePieces, Claimed
<1>7. QED
  BY <1>1, <1>3, <1>4, <1>5, <1>6 DEF DiskInv, OnDisk

LEMMA DiskInvNext ==
  ASSUME PickerAssumption, DownloadAssumption, DiskInv, [Next]_vars
  PROVE  DiskInv'
<1>1. QueueInv' /\ HeldInv
  BY QueueNext DEF DiskInv, QueueInv
<1>2. ASSUME spent'["remove"] = 0, spent'["early"] = 0
      PROVE  OnDisk'
  <2>1. OnDisk /\ spent["early"] = 0 /\ ~\E d \in BOOLEAN : RemoveTransfer(d)
    BY <1>1, <1>2, RemovedBefore, EarlyKept DEF DiskInv, HeldInv
  <2>2. BuffersStored(store') /\ \A b \in Blocks : Stored(b) => Stored(b)'
    BY <2>1, StoreNext
  <2>3. NoneDeletes' /\ RestoresStored' /\ ResultStored'
    BY <2>1, TasksNext, ResultNext
  <2>4. \A b \in Blocks : Claimed(picker', b) => Stored(b)'
    BY <2>1, <2>2, ClaimsNext
  <2>5. \A b \in Blocks : Recorded(b)' => Stored(b)'
    BY <2>1, <2>2, RecordedNext
  <2>6. QED
    BY <2>2, <2>3, <2>4, <2>5 DEF OnDisk
<1>3. QED
  BY <1>1, <1>2 DEF DiskInv

\* As long as the transfer is not removed and no peer accepts an upload before
\* the hash set, every block the state file names, alone or in a complete piece,
\* has reached the file: whenever the process ends, a new one does not trust a
\* block that was never written.
THEOREM SavedStored == Spec => []SavedIsOnDisk
<1>1. Init => DiskInv
  BY DiskInvInit, PickerAssumption, DownloadAssumption
<1>2. DiskInv /\ [Next]_vars => DiskInv'
  BY DiskInvNext, PickerAssumption, DownloadAssumption
<1>3. DiskInv => SavedIsOnDisk
  BY DEF DiskInv, OnDisk, Recorded, Stored, SavedIsOnDisk
<1>4. QED
  BY <1>1, <1>2, <1>3, PTL DEF Spec
-----------------------------------------------------------------------------
(* A process that is not interrupted, whose disk works and whose peers      *)
(* accept an upload after the hash set.                                    *)

Steady == Limits["io"] = 0 /\ Limits["restart"] = 0 /\ Limits["early"] = 0

\* The writes of a piece come before its hash, and each block is written once.
Orderly(ts) ==
  /\ \A i, j \in 1..Len(ts) :
       ts[i].kind = "hash" /\ ts[j].kind = "write" /\ i < j => ts[j].block[1] # ts[i].piece
  /\ \A i, j \in 1..Len(ts) :
       ts[i].kind = "write" /\ ts[j].kind = "write" /\ ts[i].block = ts[j].block => i = j

Arrived(pk, b) == pk.block[b].state = "Writing" \/ pk.block[b].state = "Finished"

\* What the picker says of the blocks with a write in the queue, and of those
\* of a piece that waits for its hash.
BlocksMatch(pk, ts, S) ==
  /\ \A i \in 1..Len(ts) : ts[i].kind = "write" => pk.block[ts[i].block].state = "Writing"
  /\ \A p \in S : \A b \in BlocksOf(p) : Arrived(pk, b)

StepInv ==
  /\ QueuesMatchPicker
  /\ pendingResumeIO = 0
  /\ Orderly(tasks)
  /\ BlocksMatch(picker, tasks, pendingHashes)

Registered(st, b) == st.buffer[b] # "none" \/ st.hashed[b] # "none"
Right(b) == store.file[b] = "good"

BuffersRight(st) ==
  \A b \in Blocks : st.buffer[b] = "good" \/ st.hashed[b] = "good" => st.file[b] = "good"

\* The block managers know a block from its write to the hash of its piece.
RegisteredMatch ==
  \A b \in Blocks : Registered(store, b) =>
    \/ picker.block[b].state = "Finished"
    \/ /\ picker.block[b].state = "Writing"
       /\ disk = "done" /\ Head(tasks).kind = "write" /\ Head(tasks).block = b

\* A write does not fail; a piece that passed is right, and forgotten.
ResultRight ==
  /\ disk = "done" /\ Head(tasks).kind = "write" => outcome
  /\ disk = "done" /\ Head(tasks).kind = "hash" =>
       \A b \in BlocksOf(Head(tasks).piece) : ~Registered(store, b) /\ (outcome => Right(b))

CompleteRight ==
  ~aborted =>
    /\ \A b \in Blocks : picker.status[b[1]] = "Have" => Right(b)
    /\ NoneDeletes

\* What a block manager holds is what the file holds, and so are the pieces
\* that are complete.
StoreInv == RegisteredMatch /\ BuffersRight(store) /\ ResultRight /\ CompleteRight

SteadyInv == QueueInv /\ StepInv /\ StoreInv /\ spent["early"] = 0
-----------------------------------------------------------------------------
(* Lemmas about the order of the queue.                                    *)

LEMMA OrderlyAppend ==
  ASSUME NEW ts \in Seq(Tasks), NEW new \in Seq(Tasks), Orderly(ts), Orderly(new),
         \A i \in 1..Len(ts), j \in 1..Len(new) :
           new[j].kind = "write" =>
             /\ ts[i].kind = "hash"  => new[j].block[1] # ts[i].piece
             /\ ts[i].kind = "write" => new[j].block # ts[i].block
  PROVE  Orderly(ts \o new)
<1> DEFINE all == ts \o new
           m   == Len(ts)
           k   == Len(new)
<1>1. Len(all) = m + k /\ m \in Nat /\ k \in Nat
  OBVIOUS
<1>2. \A i \in 1..m : all[i] = ts[i]
  OBVIOUS
<1>3. \A i \in 1..k : all[m + i] = new[i]
  OBVIOUS
<1> HIDE DEF all, m, k
<1>4. ASSUME NEW i \in 1..(m + k)
      PROVE  i \in 1..m \/ (i - m \in 1..k /\ i = m + (i - m))
  BY <1>1
<1>5. ASSUME NEW i \in 1..(m + k), i \notin 1..m
      PROVE  i - m \in 1..k /\ all[i] = new[i - m]
  <2>1. i - m \in 1..k /\ i = m + (i - m)
    BY <1>4, <1>5
  <2>2. all[m + (i - m)] = new[i - m]
    BY <1>3, <2>1
  <2>3. QED
    BY <2>1, <2>2
<1>6. ASSUME NEW i \in 1..(m + k), NEW j \in 1..(m + k),
             all[i].kind = "hash", all[j].kind = "write", i < j
      PROVE  all[j].block[1] # all[i].piece
  <2>1. CASE j \in 1..m
    <3>1. i \in 1..m
      BY <1>1, <1>6, <2>1
    <3>2. QED
      BY <1>2, <1>6, <2>1, <3>1 DEF Orderly, m
  <2>2. CASE j \notin 1..m /\ i \in 1..m
    BY <1>2, <1>5, <1>6, <2>2 DEF m, k
  <2>3. CASE j \notin 1..m /\ i \notin 1..m
    <3>1. i - m < j - m
      BY <1>1, <1>6
    <3>2. QED
      BY <1>5, <1>6, <2>3, <3>1 DEF Orderly, k
  <2>4. QED
    BY <2>1, <2>2, <2>3
<1>7. ASSUME NEW i \in 1..(m + k), NEW j \in 1..(m + k),
             all[i].kind = "write", all[j].kind = "write", all[i].block = all[j].block
      PROVE  i = j
  <2>1. CASE i \in 1..m /\ j \in 1..m
    BY <1>2, <1>7, <2>1 DEF Orderly, m
  <2>2. CASE (i \in 1..m) # (j \in 1..m)
    BY <1>2, <1>5, <1>7, <2>2 DEF m, k
  <2>3. CASE j \notin 1..m /\ i \notin 1..m
    <3>1. i - m = j - m
      BY <1>5, <1>7, <2>3 DEF Orderly, k
    <3>2. QED
      BY <1>1, <3>1
  <2>4. QED
    BY <2>1, <2>2, <2>3
<1>8. QED
  BY <1>1, <1>6, <1>7 DEF Orderly, all

\* Behind a hash there is no write of its piece, behind a write none of its block.
LEMMA OrderlyTail ==
  ASSUME NEW ts \in Seq(Tasks), ts # <<>>, Orderly(ts)
  PROVE  /\ Orderly(Tail(ts))
         /\ \A i \in 1..Len(Tail(ts)) : Tail(ts)[i].kind = "write" =>
              /\ Head(ts).kind = "hash"  => Tail(ts)[i].block[1] # Head(ts).piece
              /\ Head(ts).kind = "write" => Tail(ts)[i].block # Head(ts).block
<1> DEFINE m    == Len(ts)
           left == Tail(ts)
<1>1. m \in Nat \ {0} /\ Head(ts) = ts[1] /\ Len(left) = m - 1
      /\ \A i \in 1..(m - 1) : left[i] = ts[i + 1]
  OBVIOUS
<1> HIDE DEF m, left
<1>2. 1 \in 1..m /\ \A i \in 1..(m - 1) : i + 1 \in 1..m /\ 1 < i + 1 /\ i + 1 # 1
  BY <1>1
<1>3. \A i, j \in 1..(m - 1) : (i < j => i + 1 < j + 1) /\ (i + 1 = j + 1 => i = j)
  BY <1>1
<1>4. \A i, j \in 1..(m - 1) :
        left[i].kind = "hash" /\ left[j].kind = "write" /\ i < j
          => left[j].block[1] # left[i].piece
  BY <1>1, <1>2, <1>3 DEF Orderly, m
<1>5. \A i, j \in 1..(m - 1) :
        left[i].kind = "write" /\ left[j].kind = "write" /\ left[i].block = left[j].block
          => i = j
  <2> TAKE i, j \in 1..(m - 1)
  <2> HAVE left[i].kind = "write" /\ left[j].kind = "write" /\ left[i].block = left[j].block
  <2>1. i + 1 = j + 1
    BY <1>1, <1>2 DEF Orderly, m
  <2>2. QED
    BY <1>3, <2>1
<1>6. Orderly(left)
  BY <1>1, <1>4, <1>5 DEF Orderly
<1>7. \A i \in 1..(m - 1) : left[i].kind = "write" =>
        /\ ts[1].kind = "hash"  => left[i].block[1] # ts[1].piece
        /\ ts[1].kind = "write" => left[i].block # ts[1].block
  BY <1>1, <1>2 DEF Orderly, m
<1>8. QED
  BY <1>1, <1>6, <1>7 DEF left

LEMMA OrderlyOne ==
  /\ Orderly(<<>>)
  /\ \A t : Orderly(<<t>>)
<1>1. \A t : Len(<<t>>) = 1
  OBVIOUS
<1>2. \A i, j \in 1..1 : i = j /\ ~(i < j)
  OBVIOUS
<1>3. \A t : Orderly(<<t>>)
  BY <1>1, <1>2 DEF Orderly
<1>4. QED
  BY <1>3 DEF Orderly

\* Tasks that are no writes can be added.
LEMMA OrderlyNoWrites ==
  ASSUME NEW ts \in Seq(Tasks), NEW new \in Seq(Tasks), Orderly(ts),
         \A i \in 1..Len(new) : new[i].kind # "write"
  PROVE  Orderly(ts \o new)
<1>1. Orderly(new)
  BY DEF Orderly
<1>2. QED
  BY <1>1, OrderlyAppend
-----------------------------------------------------------------------------
(* Lemmas about what is requested and what has arrived.                    *)

Wanted(pk, p) == {b \in Blocks : pk.block[b].state = "Requested" /\ pk.block[b].last = p}

\* A block that arrived stays so, in the same state.
KeepsArrived(pk, new) ==
  \A b \in Blocks : Arrived(pk, b) => new.block[b].state = pk.block[b].state

\* Free blocks become requested, and join the queue of the connection.
LEMMA RequestMatch ==
  ASSUME PickerAssumption, TypeInv, NEW pk \in Pickers, NEW p \in Peers,
         NEW phase \in Phases, NEW queue \in SUBSET Blocks,
         NEW offered, RequestBlocks(pk, p, phase, queue, offered), queue = Wanted(pk, p),
         \A q \in Peers : q # p => conn[q].queue = Wanted(pk, q)
  PROVE  QueuesMatchPicker' /\ KeepsArrived(pk, picker')
<1> DEFINE picked == IF queue = {}
                     THEN PickedBlocks(pk, RequestQueueSize, offered) ELSE {}
           S      == {b[1] : b \in picked} \ pk.queue
           opened == OpenPieces(pk, S)
<1>1. /\ picked \in SUBSET Blocks
      /\ \A b \in picked : pk.block[b].state = "None"
  BY DEF PickedBlocks, FreeBlocks
<1>2. picker' = [opened EXCEPT !.block = [b \in Blocks |-> IF b \in picked
                                            THEN Request(@[b], p, Slow) ELSE @[b]]]
  BY DEF RequestBlocks, PickPieces
<1>3. /\ \A q \in Peers : q # p => conn'[q].queue = conn[q].queue
      /\ conn'[p].queue = queue \union picked
  BY DEF RequestBlocks, TypeInv, TypeOK
<1>4. S \in SUBSET Pieces
  BY <1>1, BlocksInPieces
<1> HIDE DEF picked
<1>5. opened \in Pickers
  BY <1>4, OpenPiecesType
<1>6. opened.block = pk.block
  BY DEF OpenPieces, Pickers
<1> HIDE DEF S, opened
<1>7. \A b \in Blocks :
        picker'.block[b] = IF b \in picked THEN Request(pk.block[b], p, Slow) ELSE pk.block[b]
  BY <1>2, <1>5, <1>6 DEF Pickers
<1>8. \A blk : Request(blk, p, Slow).state = "Requested" /\ Request(blk, p, Slow).last = p
  BY DEF Request
<1>9. KeepsArrived(pk, picker')
  BY <1>1, <1>7 DEF KeepsArrived, Arrived
<1>10. \A q \in Peers :
        {b \in Blocks : picker'.block[b].state = "Requested" /\ picker'.block[b].last = q}
          = IF q = p THEN Wanted(pk, q) \union picked ELSE Wanted(pk, q)
  BY <1>1, <1>7, <1>8 DEF Wanted
<1>11. QED
  BY <1>3, <1>9, <1>10 DEF QueuesMatchPicker

\* The block that arrives was requested from its connection and from no other.
LEMMA ReceiveMatch ==
  ASSUME PickerAssumption, HeldInv, QueuesMatchPicker, NEW p \in Peers, NEW b \in Blocks,
         NEW c \in Bytes, ReceiveBlock(p, b, c)
  PROVE  /\ picker.block[b].state = "Requested" /\ CanWrite(picker, b)
         /\ KeepsArrived(picker, MarkAsWriting(picker, b))
         /\ MarkAsWriting(picker, b).block[b].state = "Writing"
         /\ KeepsArrived(MarkAsWriting(picker, b), picker')
         /\ QueuesMatchPicker'
<1> DEFINE written == MarkAsWriting(picker, b)
<1>1. /\ \E offered : RequestBlocks(written, p, conn[p].phase, conn[p].queue \ {b}, offered)
      /\ b \in conn[p].queue /\ conn[p].phase \in Phases
  BY DEF ReceiveBlock, HeldInv, TypeInv, TypeOK, Connections
<1>2. TypeInv /\ Held(picker, conn) /\ picker \in Pickers /\ conn[p].queue \in SUBSET Blocks
  BY QueueTypes
<1>3. \A q \in Peers : conn[q].queue = Wanted(picker, q)
  BY DEF QueuesMatchPicker, Wanted
<1>4. picker.block[b].state = "Requested" /\ picker.block[b].last = p
  BY <1>1, <1>3 DEF Wanted
<1>5. CanWrite(picker, b)
  BY <1>2, <1>4 DEF CanWrite, Held
<1>6. /\ written \in Pickers
      /\ \A x \in Blocks : written.block[x] = IF x = b THEN Write(picker.block[b])
                                                      ELSE picker.block[x]
  BY <1>2, <1>5, MarkingTypes DEF MarkAsWriting, Pickers
<1>7. Write(picker.block[b]).state = "Writing"
  BY <1>2 DEF Write, Pickers, BlockRecords
<1> HIDE DEF written
<1>8. KeepsArrived(picker, written) /\ written.block[b].state = "Writing"
  BY <1>4, <1>6, <1>7 DEF KeepsArrived, Arrived
<1>9. \A q \in Peers : Wanted(written, q) = IF q = p THEN conn[q].queue \ {b} ELSE conn[q].queue
  BY <1>3, <1>4, <1>6, <1>7 DEF Wanted
<1>10. conn[p].queue \ {b} \in SUBSET Blocks /\ conn[p].queue \ {b} = Wanted(written, p)
       /\ \A q \in Peers : q # p => conn[q].queue = Wanted(written, q)
  BY <1>2, <1>9
<1>11. KeepsArrived(written, picker') /\ QueuesMatchPicker'
  BY <1>1, <1>2, <1>6, <1>10, RequestMatch
<1>12. QED
  BY <1>4, <1>5, <1>8, <1>11 DEF written

\* Only blocks that nobody sent are free again when a connection closes.
LEMMA DisconnectMatch ==
  ASSUME PickerAssumption, HeldInv, QueuesMatchPicker, NEW p \in Peers, OnDisconnect(p)
  PROVE  QueuesMatchPicker' /\ KeepsArrived(picker, picker')
<1>1. /\ picker' = AbortDownloads(picker, conn[p].queue, p)
      /\ conn' = [conn EXCEPT ![p] = NoConnection]
  BY DEF OnDisconnect
<1>2. /\ Held(picker, conn) /\ picker \in Pickers /\ conn[p].queue \in SUBSET Blocks
      /\ conn \in [Peers -> Connections]
  BY QueueTypes
<1>3. \A q \in Peers : conn[q].queue = Wanted(picker, q)
  BY DEF QueuesMatchPicker, Wanted
<1>4. \A b \in Blocks : picker'.block[b] = IF b \in conn[p].queue /\ b[1] \in picker.queue
                                           THEN Abort(picker.block[b], p) ELSE picker.block[b]
  BY <1>1, <1>2 DEF AbortDownloads, Pickers
<1>5. ASSUME NEW b \in Blocks, b \in conn[p].queue
      PROVE  /\ picker.block[b].state = "Requested"
             /\ picker'.block[b].state = "None"
  <2>1. picker.block[b].state = "Requested" /\ picker.block[b].downloaders = 1
        /\ b[1] \in picker.queue
    BY <1>2, <1>3, <1>5 DEF Wanted, Held
  <2>2. Abort(picker.block[b], p).state = "None"
    BY <1>2, <2>1 DEF Abort, Pickers, BlockRecords
  <2>3. QED
    BY <1>4, <1>5, <2>1, <2>2
<1>6. ASSUME NEW b \in Blocks, b \notin conn[p].queue
      PROVE  picker'.block[b] = picker.block[b]
  BY <1>4, <1>6
<1>7. KeepsArrived(picker, picker')
  BY <1>5, <1>6 DEF KeepsArrived, Arrived
<1>8. /\ conn'[p].queue = {}
      /\ \A q \in Peers : q # p => conn'[q].queue = conn[q].queue
  BY <1>1, <1>2 DEF NoConnection
<1>9. Wanted(picker', p) = {}
  <2>1. \A b \in Blocks : ~(picker'.block[b].state = "Requested" /\ picker'.block[b].last = p)
    BY <1>3, <1>5, <1>6 DEF Wanted
  <2>2. QED
    BY <2>1 DEF Wanted
<1>10. \A q \in Peers : q # p => Wanted(picker', q) = Wanted(picker, q)
  <2>1. \A b \in conn[p].queue : picker.block[b].last = p
    BY <1>3 DEF Wanted
  <2>2. QED
    BY <1>5, <1>6, <2>1 DEF Wanted
<1>11. QED
  BY <1>3, <1>7, <1>8, <1>9, <1>10 DEF QueuesMatchPicker, Wanted

LEMMA BlocksKept ==
  ASSUME NEW pk, NEW new, NEW ts \in Seq(Tasks), NEW S, BlocksMatch(pk, ts, S),
         KeepsArrived(pk, new)
  PROVE  BlocksMatch(new, ts, S)
<1>1. ASSUME NEW i \in 1..Len(ts), ts[i].kind = "write"
      PROVE  new.block[ts[i].block].state = "Writing"
  <2>1. ts[i] \in Tasks
    OBVIOUS
  <2>2. ts[i].block \in Blocks
    BY <1>1, <2>1, TaskKinds
  <2>3. QED
    BY <1>1, <2>2 DEF BlocksMatch, KeepsArrived, Arrived
<1>2. \A p \in S : \A b \in BlocksOf(p) : Arrived(new, b)
  BY DEF BlocksMatch, KeepsArrived, Arrived, BlocksOf
<1>3. QED
  BY <1>1, <1>2 DEF BlocksMatch

LEMMA BlocksAppend ==
  ASSUME NEW pk, NEW ts \in Seq(Tasks), NEW new \in Seq(Tasks), NEW S, NEW T,
         BlocksMatch(pk, ts, S),
         \A i \in 1..Len(new) : new[i].kind = "write" => pk.block[new[i].block].state = "Writing",
         \A p \in T : p \in S \/ \A b \in BlocksOf(p) : Arrived(pk, b)
  PROVE  BlocksMatch(pk, ts \o new, T)
<1> DEFINE all == ts \o new
<1>1. \A i \in 1..Len(all) : \/ \E j \in 1..Len(ts) : all[i] = ts[j]
                             \/ \E j \in 1..Len(new) : all[i] = new[j]
  BY QueueAppend
<1> HIDE DEF all
<1>2. \A i \in 1..Len(all) : all[i].kind = "write" => pk.block[all[i].block].state = "Writing"
  BY <1>1 DEF BlocksMatch
<1>3. \A p \in T : \A b \in BlocksOf(p) : Arrived(pk, b)
  BY DEF BlocksMatch
<1>4. QED
  BY <1>2, <1>3 DEF BlocksMatch, all

\* A piece is queued for its hash when all its blocks have arrived.
LEMMA FollowupBlocks ==
  ASSUME NEW pk \in Pickers, NEW p \in Pieces, NEW f, f = <<>> \/ f = HashFollowup(pk, p),
         pendingHashes \in SUBSET Pieces
  PROVE  /\ f \in Seq(Tasks)
         /\ \A i \in 1..Len(f) : f[i].kind = "hash"
         /\ \A q \in PendingAfter(f, p) :
              q \in pendingHashes \/ \A b \in BlocksOf(q) : Arrived(pk, b)
<1>1. f \in Seq(Tasks) /\ \A i \in 1..Len(f) : f[i].kind = "hash"
  BY FollowupEffect
<1>2. CASE f = <<>>
  BY <1>1, <1>2 DEF PendingAfter
<1>3. CASE f # <<>>
  <2>1. pk.status[p] # "Have" /\ IsPieceFinished(pk, p)
    BY <1>3 DEF HashFollowup
  <2>2. \A b \in BlocksOf(p) : Arrived(pk, b)
    BY <2>1 DEF IsPieceFinished, Arrived
  <2>3. QED
    BY <1>1, <1>3, <2>2 DEF PendingAfter
<1>4. QED
  BY <1>2, <1>3
-----------------------------------------------------------------------------
(* Steps.                                                                  *)

\* A process that may not fail does not.
LEMMA NothingFails ==
  ASSUME PickerAssumption, DownloadAssumption, Steady, SteadyInv
  PROVE  /\ ~Restart /\ ~OnBlockWriteFailed /\ ~OnBlockRestored /\ ~OnBlockRestoreFailed
         /\ ~RunRestore
         /\ RunWrite => /\ store' = WriteBlock(store, Head(tasks).block, Head(tasks).bytes)
                        /\ RunHead(TRUE)
<1>1. spent \in [Faults -> Nat] /\ "io" \in Faults /\ "restart" \in Faults
      /\ tasks \in Seq(Tasks)
  BY DEF SteadyInv, QueueInv, HeldInv, TypeInv, TypeOK, Faults
<1>2. ~Spend("io") /\ ~Spend("restart")
  BY <1>1 DEF Spend, Steady
<1>3. ~Restart
  BY <1>2 DEF Restart
<1>4. RunWrite => /\ store' = WriteBlock(store, Head(tasks).block, Head(tasks).bytes)
                  /\ RunHead(TRUE)
  BY <1>2 DEF RunWrite
<1>5. ~OnBlockWriteFailed
  BY DEF OnBlockWriteFailed, Done, SteadyInv, StoreInv, ResultRight
<1>6. tasks # <<>> => Head(tasks).kind # "restore"
  BY <1>1, RestoresTail DEF SteadyInv, QueueInv, CoreInv, StepInv
<1>7. disk = "done" => tasks # <<>>
  BY DEF SteadyInv, QueueInv, HeldInv, TypeInv
<1>8. ~OnBlockRestored /\ ~OnBlockRestoreFailed /\ ~RunRestore
  BY <1>6, <1>7 DEF OnBlockRestored, OnBlockRestoreFailed, RunRestore, Done, Runnable
<1>9. QED
  BY <1>3, <1>4, <1>5, <1>8

LEMMA SteadyTypes ==
  ASSUME SteadyInv
  PROVE  /\ HeldInv /\ CoreInv /\ QueuesMatchPicker /\ Orderly(tasks)
         /\ BlocksMatch(picker, tasks, pendingHashes)
         /\ picker \in Pickers /\ tasks \in Seq(Tasks) /\ store \in Stores
         /\ pendingHashes \in SUBSET Pieces /\ Held(picker, conn)
  BY DEF SteadyInv, QueueInv, StepInv, HeldInv, TypeInv, TypeOK

\* The block that arrived has no write, and its piece no hash, in the queue.
LEMMA ReceiveStep ==
  ASSUME PickerAssumption, SteadyInv, NEW p \in Peers, NEW b \in Blocks, NEW c \in Bytes,
         ReceiveBlock(p, b, c)
  PROVE  Orderly(tasks') /\ BlocksMatch(picker', tasks', pendingHashes')
<1> DEFINE written == MarkAsWriting(picker, b)
           w       == <<AsyncWrite(b, c)>>
           f       == IF CanWrite(picker, b) /\ ~IsPieceFinished(picker, b[1])
                      THEN HashFollowup(written, b[1]) ELSE <<>>
           new     == w \o f
<1>1. /\ picker.block[b].state = "Requested" /\ CanWrite(picker, b)
      /\ KeepsArrived(picker, written) /\ written.block[b].state = "Writing"
      /\ KeepsArrived(written, picker')
  BY SteadyTypes, ReceiveMatch
<1>2. tasks' = tasks \o new /\ pendingHashes' = PendingAfter(f, b[1])
  BY <1>1 DEF ReceiveBlock, Submit
<1>3. written \in Pickers /\ b[1] \in Pieces /\ (f = <<>> \/ f = HashFollowup(written, b[1]))
  BY SteadyTypes, MarkingTypes, BlocksInPieces
<1> HIDE DEF f, written
<1>4. /\ f \in Seq(Tasks)
      /\ \A i \in 1..Len(f) : f[i].kind = "hash"
      /\ \A q \in PendingAfter(f, b[1]) :
           q \in pendingHashes \/ \A x \in BlocksOf(q) : Arrived(written, x)
  BY <1>3, SteadyTypes, FollowupBlocks
<1>5. /\ w \in Seq(Tasks) /\ Orderly(w) /\ Len(w) = 1 /\ w[1] = AsyncWrite(b, c)
      /\ AsyncWrite(b, c).kind = "write" /\ AsyncWrite(b, c).block = b
  BY TaskTypes, OrderlyOne DEF AsyncWrite
<1> HIDE DEF w
<1>6. new \in Seq(Tasks) /\ Orderly(new)
  BY <1>4, <1>5, OrderlyNoWrites
<1>7. \A i \in 1..Len(new) : \/ \E j \in 1..Len(w) : new[i] = w[j]
                             \/ \E j \in 1..Len(f) : new[i] = f[j]
  BY <1>4, <1>5, QueueAppend
<1>8. \A i \in 1..Len(new) : new[i].kind = "write" => new[i].block = b
  BY <1>4, <1>5, <1>7
<1> HIDE DEF new
<1>9. ASSUME NEW i \in 1..Len(tasks)
      PROVE  /\ tasks[i].kind = "hash"  => b[1] # tasks[i].piece
             /\ tasks[i].kind = "write" => b # tasks[i].block
  <2>1. tasks[i].kind = "hash" => tasks[i].piece \in pendingHashes
    BY SteadyTypes DEF CoreInv, HashTasksOf
  <2>2. b[1] \notin pendingHashes
    BY <1>1, SteadyTypes DEF BlocksMatch, BlocksOf, Arrived
  <2>3. QED
    BY <1>1, <2>1, <2>2, SteadyTypes DEF BlocksMatch
<1>10. Orderly(tasks \o new)
  BY <1>6, <1>8, <1>9, SteadyTypes, OrderlyAppend
<1>11. BlocksMatch(written, tasks, pendingHashes)
  BY <1>1, SteadyTypes, BlocksKept
<1>12. BlocksMatch(written, tasks \o new, pendingHashes')
  BY <1>1, <1>2, <1>4, <1>6, <1>8, <1>11, SteadyTypes, BlocksAppend
<1>13. tasks \o new \in Seq(Tasks)
  BY <1>6, SteadyTypes
<1>14. QED
  BY <1>1, <1>2, <1>10, <1>12, <1>13, BlocksKept

\* The write that is done is the only one of its block.
LEMMA WrittenStep ==
  ASSUME PickerAssumption, SteadyInv, OnBlockWritten
  PROVE  /\ Orderly(tasks') /\ BlocksMatch(picker', tasks', pendingHashes')
         /\ QueuesMatchPicker'
         /\ \A x \in Blocks : picker'.block[x] =
              IF x = Head(tasks).block THEN Finish(picker.block[x]) ELSE picker.block[x]
         /\ Head(tasks).block \in Blocks /\ picker.block[Head(tasks).block].state = "Writing"
<1> DEFINE b        == Head(tasks).block
           left     == Tail(tasks)
           finished == MarkAsFinished(picker, b)
           f        == HashFollowup(finished, b[1])
<1>1. /\ disk = "done" /\ Head(tasks).kind = "write"
      /\ picker' = finished /\ tasks' = left \o f /\ conn' = conn
      /\ pendingHashes' = PendingAfter(f, b[1])
  BY DEF OnBlockWritten, Done, RemoveDone
<1>2. tasks # <<>> /\ left \in Seq(Tasks) /\ b \in Blocks
  BY <1>1, SteadyTypes, HeadDone
<1>3. 1 \in 1..Len(tasks) /\ Head(tasks) = tasks[1]
  BY <1>2, SteadyTypes
<1>4. picker.block[b].state = "Writing"
  BY <1>1, <1>3, SteadyTypes DEF BlocksMatch
<1>5. b[1] \in picker.queue
  BY <1>2, <1>4, SteadyTypes DEF Held
<1>6. finished \in Pickers /\ b[1] \in Pieces
  BY <1>2, SteadyTypes, MarkingTypes, BlocksInPieces
<1>7. \A x \in Blocks : finished.block[x] =
        IF x = b THEN Finish(picker.block[x]) ELSE picker.block[x]
  BY <1>2, <1>5, SteadyTypes DEF MarkAsFinished, Pickers
<1>8. Finish(picker.block[b]).state = "Finished"
  BY <1>2, SteadyTypes DEF Finish, Pickers, BlockRecords
<1>9. f \in Seq(Tasks)
      /\ (\A i \in 1..Len(f) : f[i].kind = "hash")
      /\ \A q \in PendingAfter(f, b[1]) :
           q \in pendingHashes \/ \A x \in BlocksOf(q) : Arrived(finished, x)
  BY <1>6, SteadyTypes, FollowupBlocks
<1>10. /\ Orderly(left)
       /\ \A i \in 1..Len(left) : left[i].kind = "write" => left[i].block # b
       /\ \A i \in 1..Len(left) : \E j \in 1..Len(tasks) : left[i] = tasks[j]
  BY <1>1, <1>2, SteadyTypes, OrderlyTail, QueueTail
<1> HIDE DEF b, left, finished, f
<1>11. Orderly(left \o f)
  BY <1>2, <1>9, <1>10, OrderlyNoWrites
<1>12. BlocksMatch(finished, left, pendingHashes)
  <2>1. ASSUME NEW i \in 1..Len(left), left[i].kind = "write"
        PROVE  finished.block[left[i].block].state = "Writing"
    <3>1. left[i] \in Tasks
      BY <1>2
    <3>2. left[i].block \in Blocks /\ left[i].block # b
      BY <1>10, <2>1, <3>1, TaskKinds
    <3>3. picker.block[left[i].block].state = "Writing"
      BY <1>10, <2>1, SteadyTypes DEF BlocksMatch
    <3>4. QED
      BY <1>7, <3>2, <3>3
  <2>2. \A q \in pendingHashes : \A x \in BlocksOf(q) : Arrived(finished, x)
    BY <1>7, <1>8, SteadyTypes DEF BlocksMatch, Arrived, BlocksOf
  <2>3. QED
    BY <2>1, <2>2 DEF BlocksMatch
<1>13. BlocksMatch(finished, left \o f, pendingHashes')
  BY <1>1, <1>2, <1>9, <1>12, BlocksAppend
<1>14. \A q \in Peers : Wanted(finished, q) = Wanted(picker, q)
  BY <1>4, <1>7, <1>8 DEF Wanted
<1>15. QueuesMatchPicker'
  BY <1>1, <1>14, SteadyTypes DEF QueuesMatchPicker, Wanted
<1>16. QED
  BY <1>1, <1>2, <1>4, <1>7, <1>11, <1>13, <1>15 DEF b, finished

\* A piece that is hashed has arrived, and nothing of it waits to be written.
LEMMA HashedStep ==
  ASSUME PickerAssumption, SteadyInv, OnPieceHashed
  PROVE  /\ Orderly(tasks') /\ BlocksMatch(picker', tasks', pendingHashes')
         /\ QueuesMatchPicker'
         /\ Head(tasks).piece \in pendingHashes
         /\ \A x \in Blocks : picker'.block[x] =
              IF x[1] = Head(tasks).piece THEN FreshBlock ELSE picker.block[x]
         /\ picker' = ClosePiece(picker, Head(tasks).piece, IF outcome THEN "Have" ELSE "None")
<1> DEFINE p    == Head(tasks).piece
           left == Tail(tasks)
<1>1. /\ disk = "done" /\ Head(tasks).kind = "hash"
      /\ pendingHashes' = pendingHashes \ {p}
      /\ conn' = AllClosed \/ conn' = conn
      /\ tasks' = left \o <<>> \/ tasks' = left \o <<AsyncRelease(FALSE)>>
  BY DEF OnPieceHashed, Done, RemoveDone
<1>2. tasks # <<>> /\ left \in Seq(Tasks)
  BY <1>1, SteadyTypes, HeadDone
<1>3. 1 \in 1..Len(tasks) /\ Head(tasks) = tasks[1]
  BY <1>2, SteadyTypes
<1>4. p \in pendingHashes /\ p \in Pieces
  BY <1>1, <1>3, SteadyTypes DEF CoreInv, HashTasksOf
<1>5. hashSet
  BY <1>4 DEF SteadyInv, QueueInv, HashSetFirst
<1>6. picker' = ClosePiece(picker, p, IF outcome THEN "Have" ELSE "None")
  BY <1>5 DEF OnPieceHashed, RestorePiece, WeHave
<1>7. \A x \in Blocks : picker'.block[x] = IF x[1] = p THEN FreshBlock ELSE picker.block[x]
  BY <1>6, SteadyTypes DEF ClosePiece, Pickers
<1>8. FreshBlock.state = "None"
  BY DEF FreshBlock
<1>9. \A x \in BlocksOf(p) : Arrived(picker, x)
  BY <1>4, SteadyTypes DEF BlocksMatch
<1>10. /\ Orderly(left)
       /\ \A i \in 1..Len(left) : left[i].kind = "write" => left[i].block[1] # p
       /\ \A i \in 1..Len(left) : \E j \in 1..Len(tasks) : left[i] = tasks[j]
  BY <1>1, <1>2, SteadyTypes, OrderlyTail, QueueTail
<1> HIDE DEF p, left
<1>11. BlocksMatch(picker', left, pendingHashes')
  <2>1. ASSUME NEW i \in 1..Len(left), left[i].kind = "write"
        PROVE  picker'.block[left[i].block].state = "Writing"
    <3>1. left[i] \in Tasks
      BY <1>2
    <3>2. left[i].block \in Blocks /\ left[i].block[1] # p
      BY <1>10, <2>1, <3>1, TaskKinds
    <3>3. picker.block[left[i].block].state = "Writing"
      BY <1>10, <2>1, SteadyTypes DEF BlocksMatch
    <3>4. QED
      BY <1>7, <3>2, <3>3
  <2>2. \A q \in pendingHashes \ {p} : \A x \in BlocksOf(q) : Arrived(picker', x)
    BY <1>7, SteadyTypes DEF BlocksMatch, Arrived, BlocksOf
  <2>3. QED
    BY <1>1, <2>1, <2>2 DEF BlocksMatch
<1>12. ASSUME NEW f \in Seq(Tasks), \A i \in 1..Len(f) : f[i].kind # "write"
       PROVE  Orderly(left \o f) /\ BlocksMatch(picker', left \o f, pendingHashes')
  BY <1>2, <1>10, <1>11, <1>12, OrderlyNoWrites, BlocksAppend
<1>13. Orderly(tasks') /\ BlocksMatch(picker', tasks', pendingHashes')
  <2>1. CASE tasks' = left \o <<>>
    <3> DEFINE f == <<>>
    <3>1. f \in Seq(Tasks) /\ \A i \in 1..Len(f) : f[i].kind # "write"
      OBVIOUS
    <3> HIDE DEF f
    <3>2. Orderly(left \o f) /\ BlocksMatch(picker', left \o f, pendingHashes')
      BY <1>12, <3>1
    <3>3. QED
      BY <2>1, <3>2 DEF f
  <2>2. CASE tasks' = left \o <<AsyncRelease(FALSE)>>
    <3> DEFINE f == <<AsyncRelease(FALSE)>>
    <3>1. f \in Seq(Tasks) /\ \A i \in 1..Len(f) : f[i].kind = "release"
      BY ReleaseEffect
    <3> HIDE DEF f
    <3>2. Orderly(left \o f) /\ BlocksMatch(picker', left \o f, pendingHashes')
      BY <1>12, <3>1
    <3>3. QED
      BY <2>2, <3>2 DEF f
  <2>3. QED
    BY <1>1, <2>1, <2>2
<1>14. \A q \in Peers : conn'[q].queue = conn[q].queue
  BY <1>1, SteadyTypes, QueueTypes DEF AllClosed, Connections
<1>15. \A q \in Peers : Wanted(picker', q) = Wanted(picker, q)
  <2>1. \A x \in Blocks : x[1] = p => picker.block[x].state # "Requested"
    BY <1>9 DEF Arrived, BlocksOf
  <2>2. QED
    BY <1>7, <1>8, <2>1 DEF Wanted
<1>16. QueuesMatchPicker'
  BY <1>14, <1>15, SteadyTypes DEF QueuesMatchPicker, Wanted
<1>17. QED
  BY <1>4, <1>6, <1>7, <1>13, <1>16 DEF p

\* Steps that submit nothing but perhaps a release, and leave the picker alone.
LEMMA QuietStep ==
  ASSUME SteadyInv, picker' = picker, pendingHashes' = pendingHashes,
         NEW f \in Seq(Tasks), \A i \in 1..Len(f) : f[i].kind = "release",
         NEW ts \in Seq(Tasks), Orderly(ts),
         \A i \in 1..Len(ts) : \E j \in 1..Len(tasks) : ts[i] = tasks[j],
         tasks' = ts \o f
  PROVE  Orderly(tasks') /\ BlocksMatch(picker', tasks', pendingHashes')
<1>1. Orderly(ts \o f)
  BY OrderlyNoWrites
<1>2. BlocksMatch(picker, ts, pendingHashes)
  BY SteadyTypes DEF BlocksMatch
<1>3. BlocksMatch(picker, ts \o f, pendingHashes)
  BY <1>2, BlocksAppend
<1>4. QED
  BY <1>1, <1>3

LEMMA StepNext ==
  ASSUME PickerAssumption, DownloadAssumption, Steady, SteadyInv, [Next]_vars
  PROVE  StepInv'
<1>1. pendingResumeIO' = 0
  BY NothingFails DEF SteadyInv, StepInv, Next, Tick, DiskCallback, DiskGoroutine, API,
     ConnectToPeer, ReceiveHashSet, ReceiveAcceptUpload, ReceiveBlock, PeerCloses,
     OnDisconnect, EndPump, OnBlockWritten, OnPieceHashed, OnReleaseFile, RunWrite,
     RunHash, RunRelease, PauseTransfer, ResumeTransfer, RemoveTransfer, SaveState,
     vars, transferVars
<1>2. conn \in [Peers -> Connections] /\ TypeInv
      /\ \A p \in Peers : conn[p].queue \in SUBSET Blocks
  BY SteadyTypes, QueueTypes
<1>3. SUFFICES /\ QueuesMatchPicker'
               /\ Orderly(tasks') /\ BlocksMatch(picker', tasks', pendingHashes')
  BY <1>1 DEF StepInv
<1>4. ASSUME NEW p \in Peers, ReceiveAcceptUpload(p)
      PROVE  /\ QueuesMatchPicker'
             /\ Orderly(tasks') /\ BlocksMatch(picker', tasks', pendingHashes')
  <2>1. /\ \E phase \in Phases, offered \in RemotePieces(p) :
             RequestBlocks(picker, p, phase, conn[p].queue, offered)
        /\ tasks' = tasks /\ pendingHashes' = pendingHashes
    <3>1. tasks' = tasks /\ pendingHashes' = pendingHashes
      BY <1>4 DEF ReceiveAcceptUpload, transferVars, diskVars
    <3>2. QED
      BY <1>2, <1>4, <3>1, AcceptsBlocks
  <2>2. \A q \in Peers : conn[q].queue = Wanted(picker, q)
    BY SteadyTypes DEF QueuesMatchPicker, Wanted
  <2>3. QueuesMatchPicker' /\ KeepsArrived(picker, picker')
    BY <1>2, <2>1, <2>2, SteadyTypes, RequestMatch
  <2>4. QED
    BY <2>1, <2>3, SteadyTypes, BlocksKept
<1>5. ASSUME NEW p \in Peers, NEW b \in Blocks, NEW c \in Bytes, ReceiveBlock(p, b, c)
      PROVE  /\ QueuesMatchPicker'
             /\ Orderly(tasks') /\ BlocksMatch(picker', tasks', pendingHashes')
  BY <1>5, SteadyTypes, ReceiveStep, ReceiveMatch
<1>6. ASSUME NEW p \in Peers, OnDisconnect(p)
      PROVE  /\ QueuesMatchPicker'
             /\ Orderly(tasks') /\ BlocksMatch(picker', tasks', pendingHashes')
  <2>1. tasks' = tasks /\ pendingHashes' = pendingHashes
    BY <1>6 DEF OnDisconnect, transferVars, diskVars
  <2>2. QueuesMatchPicker' /\ KeepsArrived(picker, picker')
    BY <1>6, SteadyTypes, DisconnectMatch
  <2>3. QED
    BY <2>1, <2>2, SteadyTypes, BlocksKept
<1>7. ASSUME picker' = picker, \A q \in Peers : conn'[q].queue = conn[q].queue
      PROVE  QueuesMatchPicker'
  BY <1>7, SteadyTypes DEF QueuesMatchPicker
<1>8. CASE OnReleaseFile
  <2> DEFINE f    == <<>>
             left == Tail(tasks)
  <2>1. disk = "done" /\ picker' = picker /\ pendingHashes' = pendingHashes /\ conn' = conn
        /\ tasks' = left \o f
    BY <1>8 DEF OnReleaseFile, Done, RemoveDone, transferVars
  <2>2. tasks # <<>> /\ left \in Seq(Tasks)
    BY <2>1, SteadyTypes, HeadDone
  <2>3. Orderly(left) /\ \A i \in 1..Len(left) : \E j \in 1..Len(tasks) : left[i] = tasks[j]
    BY <2>2, SteadyTypes, OrderlyTail, QueueTail
  <2>4. f \in Seq(Tasks) /\ \A i \in 1..Len(f) : f[i].kind = "release"
    OBVIOUS
  <2> HIDE DEF f, left
  <2>5. Orderly(tasks') /\ BlocksMatch(picker', tasks', pendingHashes')
    BY <2>1, <2>2, <2>3, <2>4, QuietStep
  <2>6. QED
    BY <1>7, <2>1, <2>5
<1>9. ASSUME conn' = conn \/ conn' = AllClosed
      PROVE  \A q \in Peers : conn'[q].queue = conn[q].queue
  BY <1>2, <1>9 DEF AllClosed, Connections
<1>10. ASSUME NEW d \in BOOLEAN, RemoveTransfer(d)
       PROVE  /\ QueuesMatchPicker'
              /\ Orderly(tasks') /\ BlocksMatch(picker', tasks', pendingHashes')
  <2> DEFINE f == <<AsyncRelease(d)>>
  <2>1. picker' = picker /\ pendingHashes' = pendingHashes /\ conn' = AllClosed
        /\ tasks' = tasks \o f
    BY <1>10 DEF RemoveTransfer, CloseUnderTick, Submit
  <2>2. f \in Seq(Tasks) /\ \A i \in 1..Len(f) : f[i].kind = "release"
    BY ReleaseEffect
  <2> HIDE DEF f
  <2>3. Orderly(tasks') /\ BlocksMatch(picker', tasks', pendingHashes')
    BY <2>1, <2>2, SteadyTypes, QuietStep
  <2>4. QED
    BY <1>7, <1>9, <2>1, <2>3
<1>11. ASSUME UNCHANGED <<picker, tasks, pendingHashes>>,
              \A q \in Peers : conn'[q].queue = conn[q].queue
       PROVE  /\ QueuesMatchPicker'
              /\ Orderly(tasks') /\ BlocksMatch(picker', tasks', pendingHashes')
  BY <1>7, <1>11, SteadyTypes
<1>12. ASSUME NEW p \in Peers, ConnectToPeer(p) \/ ReceiveHashSet(p) \/ PeerCloses(p)
       PROVE  /\ UNCHANGED <<picker, tasks, pendingHashes>>
              /\ \A q \in Peers : conn'[q].queue = conn[q].queue
  <2>1. UNCHANGED <<picker, tasks, pendingHashes>>
    BY <1>12 DEF ConnectToPeer, ReceiveHashSet, PeerCloses, transferVars, diskVars
  <2>2. conn[p].phase = "Absent" => conn[p].queue = {}
    BY SteadyTypes DEF HeldInv, AbsentIsEmpty
  <2>3. conn'[p].queue = conn[p].queue
    <3>1. CASE ConnectToPeer(p)
      BY <1>2, <2>2, <3>1 DEF ConnectToPeer, NoConnection
    <3>2. CASE ReceiveHashSet(p) \/ PeerCloses(p)
      BY <1>2, <3>2 DEF ReceiveHashSet, PeerCloses, Connections
    <3>3. QED
      BY <1>12, <3>1, <3>2
  <2>4. \A q \in Peers : q # p => conn'[q] = conn[q]
    BY <1>2, <1>12 DEF ConnectToPeer, ReceiveHashSet, PeerCloses
  <2>5. QED
    BY <2>1, <2>3, <2>4
<1>13. CASE EndPump \/ RunWrite \/ RunHash \/ RunRelease \/ PauseTransfer \/ ResumeTransfer
            \/ SaveState \/ UNCHANGED vars
  <2>1. UNCHANGED <<picker, tasks, pendingHashes>> /\ (conn' = conn \/ conn' = AllClosed)
    BY <1>13 DEF EndPump, RunWrite, RunHash, RunRelease, RunHead, PauseTransfer,
       ResumeTransfer, SaveState, CloseUnderTick, vars, transferVars, diskVars
  <2>2. QED
    BY <1>9, <1>11, <2>1
<1>14. QED
  BY <1>4, <1>5, <1>6, <1>8, <1>10, <1>11, <1>12, <1>13, NothingFails, WrittenStep,
     HashedStep DEF Next, Tick, DiskCallback, DiskGoroutine, API
-----------------------------------------------------------------------------
(* Lemmas about the store of such a process.                               *)

LEMMA RegisterRight ==
  ASSUME NEW st \in Stores, BuffersRight(st), NEW b \in Blocks, NEW c \in Bytes,
         c = st.file[b]
  PROVE  LET new == RegisterBlock(st, b, c)
         IN  /\ BuffersRight(new) /\ new.file = st.file
             /\ \A x \in Blocks : Registered(new, x) => x = b \/ Registered(st, x)
<1> DEFINE kept == [st.buffer EXCEPT ![b] = c]
           run  == IF IsNextToHash(st, b) THEN RunFrom(kept, b) ELSE {}
           new  == RegisterBlock(st, b, c)
<1>1. \A x \in Blocks : kept[x] = IF x = b THEN c ELSE st.buffer[x]
  BY DEF Stores
<1>2. new = [st EXCEPT !.hashed = [x \in Blocks |-> IF x \in run THEN kept[x] ELSE @[x]],
                       !.buffer = [x \in Blocks |-> IF x \in run THEN "none" ELSE kept[x]]]
  BY DEF RegisterBlock
<1> HIDE DEF kept, run, new
<1>3. /\ new.file = st.file
      /\ \A x \in Blocks : new.hashed[x] = IF x \in run THEN kept[x] ELSE st.hashed[x]
      /\ \A x \in Blocks : new.buffer[x] = IF x \in run THEN "none" ELSE kept[x]
  BY <1>2 DEF Stores
<1>4. BuffersRight(new)
  BY <1>1, <1>3 DEF BuffersRight
<1>5. \A x \in Blocks : Registered(new, x) => x = b \/ Registered(st, x)
  BY <1>1, <1>3 DEF Registered
<1>6. QED
  BY <1>3, <1>4, <1>5 DEF new

LEMMA WriteRight ==
  ASSUME NEW st \in Stores, BuffersRight(st), NEW b \in Blocks, NEW c \in Bytes,
         ~Registered(st, b)
  PROVE  LET new == WriteBlock(st, b, c)
         IN  /\ BuffersRight(new)
             /\ \A x \in Blocks : Registered(new, x) => x = b \/ Registered(st, x)
             /\ \A x \in Blocks : x # b => new.file[x] = st.file[x]
<1> DEFINE mid == [st EXCEPT !.file[b] = c]
<1>1. c \in Contents /\ c # "none"
  BY DEF Contents, Bytes
<1>2. mid \in Stores
  BY <1>1 DEF Stores
<1>3. /\ mid.buffer = st.buffer /\ mid.hashed = st.hashed
      /\ \A x \in Blocks : mid.file[x] = IF x = b THEN c ELSE st.file[x]
  BY DEF Stores
<1>4. WriteBlock(st, b, c) = RegisterBlock(mid, b, c)
  BY DEF WriteBlock
<1> HIDE DEF mid
<1>5. BuffersRight(mid)
  BY <1>3 DEF BuffersRight, Registered
<1>6. /\ BuffersRight(RegisterBlock(mid, b, c)) /\ RegisterBlock(mid, b, c).file = mid.file
      /\ \A x \in Blocks : Registered(RegisterBlock(mid, b, c), x) => x = b \/ Registered(mid, x)
  BY <1>2, <1>3, <1>5, RegisterRight
<1>7. QED
  BY <1>3, <1>4, <1>6 DEF Registered

LEMMA DropRight ==
  ASSUME NEW st \in Stores, BuffersRight(st), NEW p \in Pieces
  PROVE  LET new == DropManager(st, p)
         IN  /\ BuffersRight(new) /\ new.file = st.file
             /\ \A x \in Blocks : Registered(new, x) => x \notin BlocksOf(p) /\ Registered(st, x)
<1>1. /\ DropManager(st, p).file = st.file
      /\ \A b \in Blocks :
           /\ DropManager(st, p).buffer[b] = IF b[1] = p THEN "none" ELSE st.buffer[b]
           /\ DropManager(st, p).hashed[b] = IF b[1] = p THEN "none" ELSE st.hashed[b]
  BY DEF DropManager, Stores
<1>2. QED
  BY <1>1 DEF BuffersRight, Registered, BlocksOf

LEMMA ReleaseRight ==
  ASSUME NEW st \in Stores, NEW d \in BOOLEAN
  PROVE  /\ BuffersRight(ReleaseFile(st, d))
         /\ \A x \in Blocks : ~Registered(ReleaseFile(st, d), x)
         /\ ~d => ReleaseFile(st, d).file = st.file
  BY DEF ReleaseFile, Nothing, BuffersRight, Registered
-----------------------------------------------------------------------------
(* The disk goroutine.                                                     *)

LEMMA RunWriteRight ==
  ASSUME PickerAssumption, DownloadAssumption, Steady, SteadyInv, RunWrite
  PROVE  StoreInv'
<1> DEFINE b == Head(tasks).block
           c == Head(tasks).bytes
<1>1. /\ disk = "idle" /\ tasks # <<>> /\ Head(tasks).kind = "write"
      /\ disk' = "done" /\ outcome' = TRUE /\ tasks' = tasks
      /\ store' = WriteBlock(store, b, c)
      /\ picker' = picker /\ aborted' = aborted
  BY NothingFails DEF RunWrite, Runnable, RunHead, transferVars
<1>2. Head(tasks) \in Tasks /\ 1 \in 1..Len(tasks) /\ Head(tasks) = tasks[1]
  BY <1>1, SteadyTypes
<1>3. b \in Blocks /\ c \in Bytes
  BY <1>1, <1>2, TaskKinds
<1>4. picker.block[b].state = "Writing"
  BY <1>1, <1>2, SteadyTypes DEF BlocksMatch
<1>5. RegisteredMatch /\ BuffersRight(store) /\ CompleteRight
  BY DEF SteadyInv, StoreInv
<1>6. ~Registered(store, b)
  BY <1>1, <1>3, <1>4, <1>5 DEF RegisteredMatch
<1>7. picker.status[b[1]] # "Have"
  <2>1. b[1] \in picker.queue
    BY <1>3, <1>4, SteadyTypes DEF Held
  <2>2. QED
    BY <2>1, SteadyTypes DEF CoreInv, Tidy
<1> HIDE DEF b, c
<1>8. /\ BuffersRight(store')
      /\ \A x \in Blocks : Registered(store', x) => x = b \/ Registered(store, x)
      /\ \A x \in Blocks : x # b => store'.file[x] = store.file[x]
  BY <1>1, <1>3, <1>5, <1>6, SteadyTypes, WriteRight
<1>9. RegisteredMatch'
  <2>1. ASSUME NEW x \in Blocks, Registered(store', x)
        PROVE  \/ picker.block[x].state = "Finished"
               \/ picker.block[x].state = "Writing" /\ b = x
    BY <1>1, <1>4, <1>5, <1>8, <2>1 DEF RegisteredMatch
  <2>2. QED
    BY <1>1, <2>1 DEF RegisteredMatch, b
<1>10. ResultRight'
  BY <1>1 DEF ResultRight
<1>11. CompleteRight'
  <2>1. ASSUME ~aborted, NEW x \in Blocks, picker.status[x[1]] = "Have"
        PROVE  store'.file[x] = "good"
    <3>1. x # b /\ store.file[x] = "good"
      BY <1>5, <1>7, <2>1 DEF CompleteRight, Right
    <3>2. QED
      BY <1>8, <3>1
  <2>2. NoneDeletes' <=> NoneDeletes
    BY <1>1 DEF NoneDeletes
  <2>3. QED
    BY <1>1, <1>5, <2>1, <2>2 DEF CompleteRight, Right
<1>12. QED
  BY <1>8, <1>9, <1>10, <1>11 DEF StoreInv

LEMMA RunHashRight ==
  ASSUME SteadyInv, RunHash
  PROVE  StoreInv'
<1> DEFINE p == Head(tasks).piece
<1>1. /\ disk = "idle" /\ tasks # <<>> /\ Head(tasks).kind = "hash"
      /\ disk' = "done" /\ outcome' = HashMatches(store, p) /\ tasks' = tasks
      /\ store' = DropManager(store, p)
      /\ picker' = picker /\ aborted' = aborted
  BY DEF RunHash, Runnable, RunHead, transferVars
<1>2. Head(tasks) \in Tasks
  BY <1>1, SteadyTypes
<1>3. p \in Pieces
  BY <1>1, <1>2, TaskKinds
<1>4. RegisteredMatch /\ BuffersRight(store) /\ CompleteRight
  BY DEF SteadyInv, StoreInv
<1> HIDE DEF p
<1>5. /\ BuffersRight(store') /\ store'.file = store.file
      /\ \A x \in Blocks : Registered(store', x) => x \notin BlocksOf(p) /\ Registered(store, x)
  BY <1>1, <1>3, <1>4, SteadyTypes, DropRight
<1>6. RegisteredMatch'
  BY <1>1, <1>4, <1>5 DEF RegisteredMatch
<1>7. ResultRight'
  <2>1. ASSUME NEW x \in BlocksOf(p)
        PROVE  x \in Blocks /\ ~Registered(store', x)
    BY <1>5 DEF BlocksOf
  <2>2. ASSUME outcome', NEW x \in BlocksOf(p)
        PROVE  store'.file[x] = "good"
    <3>1. x \in Blocks /\ store.hashed[x] = "good"
      BY <1>1, <2>2 DEF HashMatches, BlocksOf
    <3>2. QED
      BY <1>4, <1>5, <3>1 DEF BuffersRight
  <2>3. QED
    BY <1>1, <2>1, <2>2 DEF ResultRight, Right, p
<1>8. CompleteRight'
  BY <1>1, <1>4, <1>5 DEF CompleteRight, Right, NoneDeletes
<1>9. QED
  BY <1>5, <1>6, <1>7, <1>8 DEF StoreInv

LEMMA RunReleaseRight ==
  ASSUME SteadyInv, RunRelease
  PROVE  StoreInv'
<1> DEFINE d == Head(tasks).deleteFile
<1>1. /\ tasks # <<>> /\ Head(tasks).kind = "release" /\ tasks' = tasks
      /\ store' = ReleaseFile(store, d) /\ picker' = picker /\ aborted' = aborted
  BY DEF RunRelease, Runnable, RunHead, transferVars
<1>2. Head(tasks) \in Tasks /\ 1 \in 1..Len(tasks) /\ Head(tasks) = tasks[1]
  BY <1>1, SteadyTypes
<1>3. d \in BOOLEAN
  BY <1>1, <1>2, TaskKinds
<1>4. CompleteRight
  BY DEF SteadyInv, StoreInv
<1>5. ~aborted => ~d
  BY <1>1, <1>2, <1>4 DEF CompleteRight, NoneDeletes
<1> HIDE DEF d
<1>6. /\ BuffersRight(store') /\ (~aborted => store'.file = store.file)
      /\ \A x \in Blocks : ~Registered(store', x)
  BY <1>1, <1>3, <1>5, SteadyTypes, ReleaseRight
<1>7. RegisteredMatch'
  BY <1>6 DEF RegisteredMatch
<1>8. ResultRight'
  BY <1>1 DEF ResultRight
<1>9. CompleteRight'
  BY <1>1, <1>4, <1>6 DEF CompleteRight, Right, NoneDeletes
<1>10. QED
  BY <1>6, <1>7, <1>8, <1>9 DEF StoreInv
-----------------------------------------------------------------------------
(* The tick and the API.                                                   *)

LEMMA AbortedBefore ==
  ASSUME PickerAssumption, DownloadAssumption, Steady, SteadyInv, [Next]_vars
  PROVE  \/ aborted' = aborted /\ ~\E d \in BOOLEAN : RemoveTransfer(d)
         \/ ~aborted /\ aborted' /\ \E d \in BOOLEAN : RemoveTransfer(d)
<1>1. ASSUME NEW d \in BOOLEAN, RemoveTransfer(d)
      PROVE  ~aborted /\ aborted'
  BY <1>1 DEF RemoveTransfer
<1>2. CASE ~\E d \in BOOLEAN : RemoveTransfer(d)
  BY <1>2, NothingFails DEF Next, Tick, DiskCallback, DiskGoroutine, API, ConnectToPeer,
     ReceiveHashSet, ReceiveAcceptUpload, ReceiveBlock, PeerCloses, OnDisconnect, EndPump,
     OnBlockWritten, OnPieceHashed, OnReleaseFile, RunWrite, RunHash, RunRelease,
     PauseTransfer, ResumeTransfer, SaveState, vars, transferVars
<1>3. QED
  BY <1>1, <1>2

\* Only a removal submits a task that deletes the file.
LEMMA DeletesNext ==
  ASSUME PickerAssumption, DownloadAssumption, Steady, SteadyInv, [Next]_vars, ~aborted'
  PROVE  NoneDeletes'
<1>1. ~aborted /\ ~\E d \in BOOLEAN : RemoveTransfer(d)
  BY AbortedBefore
<1>2. NoneDeletes
  BY <1>1 DEF SteadyInv, StoreInv, CompleteRight
<1>3. \A i \in 1..Len(tasks') :
        (\E j \in 1..Len(tasks) : tasks'[i] = tasks[j]) \/ Harmless(tasks'[i])
  BY <1>1, NothingFails, TasksFrom DEF SteadyInv
<1>4. QED
  BY <1>2, <1>3 DEF NoneDeletes, Harmless

\* A step that leaves the store, the task at its head and what has arrived.
LEMMA StoreKept ==
  ASSUME PickerAssumption, DownloadAssumption, Steady, SteadyInv, [Next]_vars,
         store' = store, disk' = disk, outcome' = outcome,
         disk = "done" => Head(tasks') = Head(tasks),
         KeepsArrived(picker, picker'), HavePieces(picker') = HavePieces(picker)
  PROVE  StoreInv'
<1>1. RegisteredMatch /\ BuffersRight(store) /\ ResultRight /\ CompleteRight
  BY DEF SteadyInv, StoreInv
<1>2. RegisteredMatch'
  BY <1>1 DEF RegisteredMatch, KeepsArrived, Arrived
<1>3. ResultRight'
  BY <1>1 DEF ResultRight, Right
<1>4. CompleteRight'
  <2>1. ~aborted' => ~aborted
    BY AbortedBefore
  <2>2. ASSUME NEW b \in Blocks, picker'.status[b[1]] = "Have"
        PROVE  picker.status[b[1]] = "Have"
    BY <2>2, BlocksInPieces DEF HavePieces
  <2>3. QED
    BY <1>1, <2>1, <2>2, DeletesNext DEF CompleteRight, Right
<1>5. QED
  BY <1>1, <1>2, <1>3, <1>4 DEF StoreInv

LEMMA WrittenRight ==
  ASSUME PickerAssumption, DownloadAssumption, Steady, SteadyInv, [Next]_vars, OnBlockWritten
  PROVE  StoreInv'
<1> DEFINE b == Head(tasks).block
<1>1. /\ disk' = "idle" /\ store' = store /\ disk = "done" /\ Head(tasks).kind = "write"
  BY DEF OnBlockWritten, Done, RemoveDone
<1>2. /\ b \in Blocks
      /\ \A x \in Blocks : picker'.block[x] =
           IF x = b THEN Finish(picker.block[x]) ELSE picker.block[x]
  BY WrittenStep
<1>3. Finish(picker.block[b]).state = "Finished"
  BY <1>2, SteadyTypes DEF Finish, Pickers, BlockRecords
<1>4. RegisteredMatch /\ BuffersRight(store) /\ CompleteRight
  BY DEF SteadyInv, StoreInv
<1>5. RegisteredMatch'
  <2>1. ASSUME NEW x \in Blocks, Registered(store, x)
        PROVE  picker'.block[x].state = "Finished"
    BY <1>2, <1>3, <1>4, <2>1 DEF RegisteredMatch
  <2>2. QED
    BY <1>1, <2>1 DEF RegisteredMatch
<1>6. ResultRight'
  BY <1>1 DEF ResultRight
<1>7. CompleteRight'
  <2>1. HavePieces(picker') = HavePieces(picker)
    <3>1. ~Restart /\ ~OnPieceHashed
      BY <1>1, NothingFails DEF OnPieceHashed, Done
    <3>2. QED
      BY <3>1, CoreNext DEF SteadyInv
  <2>2. ~aborted' => ~aborted
    BY AbortedBefore
  <2>3. ASSUME NEW x \in Blocks, picker'.status[x[1]] = "Have"
        PROVE  picker.status[x[1]] = "Have"
    BY <2>1, <2>3, BlocksInPieces DEF HavePieces
  <2>4. QED
    BY <1>1, <1>4, <2>2, <2>3, DeletesNext DEF CompleteRight, Right
<1>8. QED
  BY <1>1, <1>4, <1>5, <1>6, <1>7 DEF StoreInv

\* A piece is complete when its digest was right, and so is the file.
LEMMA HashedRight ==
  ASSUME PickerAssumption, DownloadAssumption, Steady, SteadyInv, [Next]_vars, OnPieceHashed
  PROVE  /\ StoreInv'
         /\ outcome => \A b \in BlocksOf(Head(tasks).piece) : Right(b)
<1> DEFINE p == Head(tasks).piece
<1>1. /\ disk' = "idle" /\ store' = store /\ disk = "done" /\ Head(tasks).kind = "hash"
  BY DEF OnPieceHashed, Done, RemoveDone
<1>2. /\ p \in pendingHashes /\ p \in Pieces
      /\ \A x \in Blocks : picker'.block[x] = IF x[1] = p THEN FreshBlock ELSE picker.block[x]
      /\ picker' = ClosePiece(picker, p, IF outcome THEN "Have" ELSE "None")
  BY HashedStep, SteadyTypes
<1>3. RegisteredMatch /\ BuffersRight(store) /\ ResultRight /\ CompleteRight
  BY DEF SteadyInv, StoreInv
<1>4. \A x \in BlocksOf(p) : ~Registered(store, x) /\ (outcome => Right(x))
  BY <1>1, <1>3 DEF ResultRight
<1>5. \A q \in Pieces : picker'.status[q] =
        IF q = p THEN (IF outcome THEN "Have" ELSE "None") ELSE picker.status[q]
  BY <1>2, SteadyTypes, ClosePieceEffect DEF CoreInv
<1> HIDE DEF p
<1>6. RegisteredMatch'
  <2>1. ASSUME NEW x \in Blocks, Registered(store, x)
        PROVE  picker'.block[x].state = "Finished"
    <3>1. x[1] # p
      BY <1>4, <2>1 DEF BlocksOf
    <3>2. picker.block[x].state = "Finished"
      BY <1>1, <1>3, <2>1 DEF RegisteredMatch
    <3>3. QED
      BY <1>2, <3>1, <3>2
  <2>2. QED
    BY <1>1, <2>1 DEF RegisteredMatch
<1>7. ResultRight'
  BY <1>1 DEF ResultRight
<1>8. CompleteRight'
  <2>1. ~aborted' => ~aborted
    BY AbortedBefore
  <2>2. ASSUME ~aborted, NEW x \in Blocks, picker'.status[x[1]] = "Have"
        PROVE  Right(x)
    <3>1. CASE x[1] = p
      <4>1. outcome
        BY <1>2, <1>5, <2>2, <3>1
      <4>2. QED
        BY <1>4, <3>1, <4>1 DEF BlocksOf
    <3>2. CASE x[1] # p
      BY <1>3, <1>5, <2>2, <3>2, BlocksInPieces DEF CompleteRight
    <3>3. QED
      BY <3>1, <3>2
  <2>3. QED
    BY <1>1, <2>1, <2>2, DeletesNext DEF CompleteRight, Right
<1>9. QED
  BY <1>1, <1>3, <1>4, <1>6, <1>7, <1>8 DEF StoreInv, p

LEMMA ReleasedRight ==
  ASSUME PickerAssumption, DownloadAssumption, Steady, SteadyInv, [Next]_vars, OnReleaseFile
  PROVE  StoreInv'
<1>1. /\ disk' = "idle" /\ store' = store /\ Head(tasks).kind = "release"
      /\ picker' = picker /\ aborted' = aborted
  BY DEF OnReleaseFile, Done, RemoveDone, transferVars
<1>2. RegisteredMatch /\ BuffersRight(store) /\ CompleteRight
  BY DEF SteadyInv, StoreInv
<1>3. RegisteredMatch'
  BY <1>1, <1>2 DEF RegisteredMatch
<1>4. ResultRight'
  BY <1>1 DEF ResultRight
<1>5. CompleteRight'
  BY <1>1, <1>2, DeletesNext DEF CompleteRight, Right
<1>6. QED
  BY <1>1, <1>2, <1>3, <1>4, <1>5 DEF StoreInv

LEMMA StoreInvNext ==
  ASSUME PickerAssumption, DownloadAssumption, Steady, SteadyInv, [Next]_vars
  PROVE  StoreInv'
<1>1. CASE DiskGoroutine
  BY <1>1, NothingFails, RunWriteRight, RunHashRight, RunReleaseRight DEF DiskGoroutine
<1>2. CASE DiskCallback
  BY <1>2, NothingFails, WrittenRight, HashedRight, ReleasedRight DEF DiskCallback
<1>3. CASE ~DiskGoroutine /\ ~DiskCallback
  <2>1. disk = "done" => tasks # <<>>
    BY DEF SteadyInv, QueueInv, HeldInv, TypeInv
  <2>2. HavePieces(picker') = HavePieces(picker)
    BY <1>3, NothingFails, CoreNext DEF SteadyInv, DiskCallback
  <2>3. ASSUME NEW new \in Seq(Tasks), tasks' = tasks \o new, disk = "done"
        PROVE  Head(tasks') = Head(tasks)
    BY <2>1, <2>3, SteadyTypes
  <2>4. KeepsArrived(picker, picker)
    BY DEF KeepsArrived
  <2>5. ASSUME NEW p \in Peers, NEW b \in Blocks, NEW c \in Bytes, ReceiveBlock(p, b, c)
        PROVE  StoreInv'
    <3> DEFINE written == MarkAsWriting(picker, b)
               w       == <<AsyncWrite(b, c)>>
               f       == IF CanWrite(picker, b) /\ ~IsPieceFinished(picker, b[1])
                          THEN HashFollowup(written, b[1]) ELSE <<>>
    <3>1. CanWrite(picker, b) /\ KeepsArrived(picker, written) /\ KeepsArrived(written, picker')
      BY <2>5, SteadyTypes, ReceiveMatch
    <3>2. tasks' = tasks \o (w \o f) /\ disk' = disk /\ outcome' = outcome /\ store' = store
      BY <2>5, <3>1 DEF ReceiveBlock, Submit
    <3>3. w \in Seq(Tasks) /\ f \in Seq(Tasks)
      BY TaskTypes, BlocksInPieces, FollowupType
    <3> HIDE DEF w, f, written
    <3>4. w \o f \in Seq(Tasks)
      BY <3>3
    <3>5. disk = "done" => Head(tasks') = Head(tasks)
      BY <2>3, <3>2, <3>4
    <3>6. KeepsArrived(picker, picker')
      BY <3>1 DEF KeepsArrived, Arrived
    <3>7. QED
      BY <2>2, <3>2, <3>5, <3>6, StoreKept
  <2>6. ASSUME NEW d \in BOOLEAN, RemoveTransfer(d)
        PROVE  StoreInv'
    <3> DEFINE f == <<AsyncRelease(d)>>
    <3>1. picker' = picker /\ store' = store /\ disk' = disk /\ outcome' = outcome
          /\ tasks' = tasks \o f
      BY <2>6 DEF RemoveTransfer, Submit
    <3>2. f \in Seq(Tasks)
      BY ReleaseEffect
    <3> HIDE DEF f
    <3>3. disk = "done" => Head(tasks') = Head(tasks)
      BY <2>3, <3>1, <3>2
    <3>4. QED
      BY <2>2, <2>4, <3>1, <3>3, StoreKept
  <2>7. CASE /\ ~\E p \in Peers, b \in Blocks, c \in Bytes : ReceiveBlock(p, b, c)
             /\ ~\E d \in BOOLEAN : RemoveTransfer(d)
    <3>1. disk' = disk /\ outcome' = outcome /\ store' = store /\ tasks' = tasks
      BY <1>3, <2>7, NothingFails DEF Next, Tick, API, ConnectToPeer, ReceiveHashSet,
         ReceiveAcceptUpload, PeerCloses, OnDisconnect, EndPump, PauseTransfer,
         ResumeTransfer, SaveState, vars, diskVars
    <3>2. KeepsArrived(picker, picker')
      <4>1. ASSUME NEW p \in Peers, ReceiveAcceptUpload(p)
            PROVE  KeepsArrived(picker, picker')
        <5>1. TypeInv /\ conn[p].queue \in SUBSET Blocks
          BY SteadyTypes, QueueTypes
        <5>2. \A q \in Peers : conn[q].queue = Wanted(picker, q)
          BY SteadyTypes DEF QueuesMatchPicker, Wanted
        <5>3. PICK phase \in Phases, offered \in RemotePieces(p) :
                RequestBlocks(picker, p, phase, conn[p].queue, offered)
          BY <4>1, <5>1, AcceptsBlocks
        <5>4. QED
          BY <5>1, <5>2, <5>3, SteadyTypes, RequestMatch
      <4>2. ASSUME NEW p \in Peers, OnDisconnect(p)
            PROVE  KeepsArrived(picker, picker')
        BY <4>2, SteadyTypes, DisconnectMatch
      <4>3. CASE ~\E p \in Peers : ReceiveAcceptUpload(p) \/ OnDisconnect(p)
        <5>1. picker' = picker
          BY <1>3, <2>7, <4>3, NothingFails DEF Next, Tick, API, ConnectToPeer,
             ReceiveHashSet, PeerCloses, EndPump, PauseTransfer, ResumeTransfer,
             SaveState, vars
        <5>2. QED
          BY <2>4, <5>1
      <4>4. QED
        BY <4>1, <4>2, <4>3
    <3>3. QED
      BY <2>2, <3>1, <3>2, StoreKept
  <2>8. QED
    BY <2>5, <2>6, <2>7
<1>4. QED
  BY <1>1, <1>2, <1>3
-----------------------------------------------------------------------------
(* The theorems of such a process.                                         *)

LEMMA SteadyInit == PickerAssumption /\ DownloadAssumption /\ Init => SteadyInv
<1> SUFFICES ASSUME PickerAssumption, DownloadAssumption, Init PROVE SteadyInv
  OBVIOUS
<1>1. QueueInv
  BY QueueInit
<1>2. /\ picker = EmptyPicker /\ tasks = <<>> /\ disk = "idle" /\ store = EmptyStore
      /\ pendingResumeIO = 0 /\ pendingHashes = {}
      /\ \A p \in Peers : conn[p].queue = {}
  BY DEF Init, DiskInit, NoConnection
<1>3. \A b \in Blocks : /\ picker.block[b].state = "None"
                        /\ picker.status[b[1]] # "Have"
                        /\ ~Registered(store, b)
  BY <1>2, BlocksInPieces DEF EmptyPicker, FreshBlock, EmptyStore, Nothing, Registered
<1>4. QueuesMatchPicker
  BY <1>2, <1>3 DEF QueuesMatchPicker
<1>5. Orderly(tasks) /\ BlocksMatch(picker, tasks, pendingHashes)
  BY <1>2, OrderlyOne DEF BlocksMatch
<1>6. RegisteredMatch /\ ResultRight
  BY <1>2, <1>3 DEF RegisteredMatch, ResultRight
<1>7. BuffersRight(store)
  BY <1>2 DEF BuffersRight, EmptyStore, Nothing
<1>8. CompleteRight
  BY <1>2, <1>3 DEF CompleteRight, NoneDeletes
<1>9. QED
  BY <1>1, <1>2, <1>4, <1>5, <1>6, <1>7, <1>8 DEF Init, Faults, SteadyInv, StepInv, StoreInv

LEMMA SteadyNext ==
  ASSUME PickerAssumption, DownloadAssumption, Steady, SteadyInv, [Next]_vars
  PROVE  SteadyInv'
<1>1. QueueInv'
  BY QueueNext DEF SteadyInv
<1>2. StepInv' /\ StoreInv'
  BY StepNext, StoreInvNext
<1>3. spent'["early"] = 0
  <2>1. spent \in [Faults -> Nat] /\ spent["early"] = 0 /\ Limits["early"] = 0
    BY SteadyTypes DEF SteadyInv, HeldInv, TypeInv, TypeOK, Steady
  <2>2. ASSUME NEW f \in Faults, Spend(f)
        PROVE  spent'["early"] = 0
    BY <2>1, <2>2 DEF Spend
  <2>3. QED
    BY <2>1, <2>2, SpentNext
<1>4. QED
  BY <1>1, <1>2, <1>3 DEF SteadyInv

LEMMA SteadyInvariant ==
  ASSUME Steady
  PROVE  Spec => []SteadyInv
<1>1. Init => SteadyInv
  BY SteadyInit, PickerAssumption, DownloadAssumption
<1>2. SteadyInv /\ [Next]_vars => SteadyInv'
  BY SteadyNext, PickerAssumption, DownloadAssumption
<1>3. QED
  BY <1>1, <1>2, PTL DEF Spec

\* Under the conditions of Steady, a block is in
\* the queue of one connection at most, the one the picker has it requested
\* from: no two peers send the same block, and none is written twice.
THEOREM QueuesMatch ==
  ASSUME Steady
  PROVE  Spec => []QueuesMatchPicker
<1>1. SteadyInv => QueuesMatchPicker
  BY DEF SteadyInv, StepInv
<1>2. QED
  BY <1>1, SteadyInvariant, PTL

\* Under the same conditions a piece is hashed after all its writes, so that
\* the digest over the buffers is that of the file.
THEOREM HashesLast ==
  ASSUME Steady
  PROVE  Spec => []HashAfterWrites
<1>1. SteadyInv => HashAfterWrites
  <2> SUFFICES ASSUME SteadyInv PROVE HashAfterWrites
    OBVIOUS
  <2>1. DOMAIN tasks = 1..Len(tasks)
    BY SteadyTypes
  <2>2. QED
    BY <2>1, SteadyTypes DEF Orderly, HashAfterWrites
<1>2. QED
  BY <1>1, SteadyInvariant, PTL
-----------------------------------------------------------------------------
(* The refinement.                                                         *)

\* A hash result completes its piece or changes nothing the user sees; a
\* removal removes; anything else only changes what is in the file, and not
\* that of a complete piece before the removal.
LEMMA ContractNext ==
  ASSUME PickerAssumption, DownloadAssumption, Steady, SteadyInv, [Next]_vars
  PROVE  [Promise!Next]_(Promise!vars)
<1>1. SteadyInv'
  BY SteadyNext
<1>2. IntactPieces' \in SUBSET Pieces
  BY DEF IntactPieces
<1>3. ASSUME ~aborted'
      PROVE  HavePieces(picker') \subseteq IntactPieces'
  <2>1. \A b \in Blocks : picker'.status[b[1]] = "Have" => store'.file[b] = "good"
    BY <1>1, <1>3 DEF SteadyInv, StoreInv, CompleteRight, Right
  <2>2. QED
    BY <2>1 DEF HavePieces, IntactPieces, BlocksOf
<1>4. CASE OnPieceHashed
  <2> DEFINE p == Head(tasks).piece
  <2>1. /\ p \in Pieces /\ picker.status[p] = "Downloading"
        /\ picker' = ClosePiece(picker, p, IF outcome THEN "Have" ELSE "None")
    BY <1>4, HashedStep, SteadyTypes DEF CoreInv, PiecesMatch
  <2>2. aborted' = aborted /\ store' = store
    BY <1>4 DEF OnPieceHashed
  <2>3. \A q \in Pieces : picker'.status[q] =
          IF q = p THEN (IF outcome THEN "Have" ELSE "None") ELSE picker.status[q]
    BY <2>1, SteadyTypes, ClosePieceEffect DEF CoreInv
  <2>4. outcome => p \in IntactPieces
    BY <1>4, <2>1, HashedRight DEF IntactPieces, Right
  <2>5. IntactPieces' = IntactPieces
    BY <2>2 DEF IntactPieces
  <2> HIDE DEF p
  <2>6. CASE outcome
    <3>1. HavePieces(picker') = HavePieces(picker) \union {p} /\ p \notin HavePieces(picker)
      BY <2>1, <2>3, <2>6 DEF HavePieces
    <3>2. Promise!Complete(p)
      BY <2>2, <2>4, <2>5, <2>6, <3>1 DEF Promise!Complete
    <3>3. QED
      BY <2>1, <3>2 DEF Promise!Next
  <2>7. CASE ~outcome
    <3>1. HavePieces(picker') = HavePieces(picker)
      BY <2>1, <2>3, <2>7 DEF HavePieces
    <3>2. QED
      BY <2>2, <2>5, <3>1 DEF Promise!vars
  <2>8. QED
    BY <2>6, <2>7
<1>5. CASE ~OnPieceHashed
  <2>1. HavePieces(picker') = HavePieces(picker)
    BY <1>5, NothingFails, CoreNext DEF SteadyInv
  <2>2. CASE \E d \in BOOLEAN : RemoveTransfer(d)
    <3>1. ~aborted /\ aborted' = TRUE /\ store' = store
      BY <2>2 DEF RemoveTransfer
    <3>2. IntactPieces' = IntactPieces
      BY <3>1 DEF IntactPieces
    <3>3. Promise!Remove
      BY <2>1, <3>1, <3>2 DEF Promise!Remove
    <3>4. QED
      BY <3>3 DEF Promise!Next
  <2>3. CASE ~\E d \in BOOLEAN : RemoveTransfer(d)
    <3>1. aborted' = aborted
      BY <2>3, AbortedBefore
    <3>2. CASE aborted
      <4>1. Promise!Dispose
        BY <1>2, <2>1, <3>1, <3>2 DEF Promise!Dispose
      <4>2. QED
        BY <4>1 DEF Promise!Next
    <3>3. CASE ~aborted
      <4>1. Promise!Fetch
        BY <1>2, <1>3, <2>1, <3>1, <3>3 DEF Promise!Fetch
      <4>2. QED
        BY <4>1 DEF Promise!Next
    <3>4. QED
      BY <3>2, <3>3
  <2>4. QED
    BY <2>2, <2>3
<1>6. QED
  BY <1>4, <1>5

LEMMA ContractInit == PickerAssumption /\ Init => Promise!Init
<1> SUFFICES ASSUME PickerAssumption, Init PROVE Promise!Init
  OBVIOUS
<1>1. picker = EmptyPicker /\ store = EmptyStore /\ aborted = FALSE
  BY DEF Init
<1>2. HavePieces(picker) = {}
  BY <1>1 DEF HavePieces, EmptyPicker
<1>3. ASSUME NEW p \in Pieces
      PROVE  \E b \in BlocksOf(p) : store.file[b] # "good"
  <2>1. <<p, 0>> \in Blocks
    BY DEF PickerAssumption, Blocks, BlocksInPiece, Pieces
  <2>2. <<p, 0>> \in BlocksOf(p) /\ store.file[<<p, 0>>] = "none"
    BY <1>1, <2>1 DEF BlocksOf, EmptyStore, Nothing
  <2>3. QED
    BY <2>2
<1>4. IntactPieces = {}
  BY <1>3 DEF IntactPieces
<1>5. QED
  BY <1>1, <1>2, <1>4 DEF Promise!Init

\* A transfer of a process that is not interrupted, whose disk works and whose
\* peers accept an upload after the hash set keeps what FileTransfer promises its
\* user: complete pieces are right on disk, and stay so and stay complete until
\* the transfer is removed.
THEOREM ContractKept ==
  ASSUME Steady
  PROVE  Spec => Contract
<1>1. Init => Promise!Init
  BY ContractInit, PickerAssumption
<1>2. SteadyInv /\ [Next]_vars => [Promise!Next]_(Promise!vars)
  BY ContractNext, PickerAssumption, DownloadAssumption
<1>3. QED
  BY <1>1, <1>2, SteadyInvariant, PTL DEF Spec, Contract, Promise!Spec

=============================================================================
