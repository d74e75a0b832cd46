---------------------------- MODULE PiecePicker ----------------------------
(***************************************************************************)
(* The piece picker of a transfer: piece_picker.go, downloading_piece.go,  *)
(* blocks_enumerator.go.                                                   *)
(*                                                                         *)
(* The picker is a value with no goroutine of its own: every operation is  *)
(* an operator from a picker to a picker, and the handlers that call it    *)
(* (module Download) chain those operators inside one action.              *)
(*                                                                         *)
(* A picker is a record of                                                 *)
(*   status   pieceStatus                                                  *)
(*   queue    the pieces that have a DownloadingPiece                      *)
(*   before   the order of the slice downloadingPieces, as a relation      *)
(*   block    the DownloadingBlock of every block; a block whose piece has *)
(*            no DownloadingPiece holds FreshBlock                         *)
(***************************************************************************)
EXTENDS Integers, FiniteSets

CONSTANTS
  NumPieces,          \* pieces of the file
  BlocksPerPiece,     \* blocks of every piece but the last (50 in the code)
  BlocksInLastPiece,  \* blocks of the last piece
  Peers,              \* the remote peers
  NoPeer              \* the nil *Peer

ASSUME PickerAssumption ==
  /\ NumPieces \in Nat \ {0}
  /\ BlocksPerPiece \in Nat \ {0}
  /\ BlocksInLastPiece \in 1..BlocksPerPiece
  /\ NoPeer \notin Peers

Pieces == 0..(NumPieces - 1)

BlocksInPiece(p) ==
  IF p = NumPieces - 1 THEN BlocksInLastPiece ELSE BlocksPerPiece

\* data.PieceBlock: <<PieceIndex, PieceBlock>>.
Blocks ==
  {b \in Pieces \X (0..(BlocksPerPiece - 1)) : b[2] < BlocksInPiece(b[1])}

BlocksOf(p) == {b \in Blocks : b[1] = p}

\* PeerSpeed: Slow < Medium < Fast.
Slow   == 0
Speeds == 0..2

-----------------------------------------------------------------------------
(* One block: DownloadingBlock.                                            *)

PieceStates == {"None", "Downloading", "Have"}
BlockStates == {"None", "Requested", "Writing", "Finished"}

BlockRecords ==
  [state : BlockStates, downloaders : Nat,
   last : Peers \union {NoPeer}, speed : Speeds]

FreshBlock == [state |-> "None", downloaders |-> 0, last |-> NoPeer, speed |-> Slow]

Request(blk, peer, speed) ==
  [state |-> "Requested", downloaders |-> blk.downloaders + 1,
   last |-> peer, speed |-> speed]

Write(blk) ==
  [blk EXCEPT !.state = "Writing", !.downloaders = 0, !.last = NoPeer]

Finish(blk) == [blk EXCEPT !.state = "Finished"]

\* Mutant of Abort: the count of downloaders is not checked for zero.
AbortUnchecked(blk, peer) ==
  [blk EXCEPT !.downloaders = @ - 1,
              !.last  = IF @ = peer THEN NoPeer ELSE @,
              !.state = IF blk.downloaders = 1 THEN "None" ELSE @]

\* The state goes back to None whenever nobody is left, whatever it was.
Abort(blk, peer) ==
  LET left == IF blk.downloaders > 0 THEN blk.downloaders - 1 ELSE 0
  IN  [blk EXCEPT !.downloaders = left,
                  !.last  = IF @ = peer THEN NoPeer ELSE @,
                  !.state = IF left = 0 THEN "None" ELSE @]
-----------------------------------------------------------------------------
(* The picker.                                                             *)

Pickers ==
  [status : [Pieces -> PieceStates],
   queue  : SUBSET Pieces,
   before : SUBSET (Pieces \X Pieces),
   block  : [Blocks -> BlockRecords]]

EmptyPicker ==
  [status |-> [p \in Pieces |-> "None"],
   queue  |-> {},
   before |-> {},
   block  |-> [b \in Blocks |-> FreshBlock]]

\* Append a new DownloadingPiece for each piece of S, in index order.
OpenPieces(pk, S) ==
  [pk EXCEPT
     !.status = [p \in Pieces |-> IF p \in S THEN "Downloading" ELSE @[p]],
     !.queue  = @ \union S,
     !.before = @ \union (pk.queue \X S)
                  \union {pq \in S \X S : pq[1] < pq[2]}]

\* Drop the DownloadingPiece of p, if there is one, and set its status.
ClosePiece(pk, p, status) ==
  [pk EXCEPT
     !.status[p] = status,
     !.queue  = @ \ {p},
     !.before = {pq \in @ : p \notin {pq[1], pq[2]}},
     !.block  = [b \in Blocks |-> IF b[1] = p THEN FreshBlock ELSE @[b]]]

RestorePiece(pk, p) == ClosePiece(pk, p, "None")
WeHave(pk, p)       == ClosePiece(pk, p, "Have")
RestoreHave(pk, S)  ==
  [pk EXCEPT !.status = [p \in Pieces |-> IF p \in S THEN "Have" ELSE @[p]]]

HavePieces(pk) == {p \in Pieces : pk.status[p] = "Have"}

CanWrite(pk, b) ==
  b[1] \in pk.queue /\ pk.block[b].state \in {"None", "Requested"}

MarkAsWriting(pk, b) ==
  IF CanWrite(pk, b) THEN [pk EXCEPT !.block[b] = Write(@)] ELSE pk

MarkAsFinished(pk, b) ==
  IF b[1] \in pk.queue THEN [pk EXCEPT !.block[b] = Finish(@)] ELSE pk

\* AbortDownload for every block of S: the queue of a closing connection.
AbortDownloads(pk, S, peer) ==
  [pk EXCEPT !.block =
     [b \in Blocks |-> IF b \in S /\ b[1] \in pk.queue
                         THEN Abort(@[b], peer) ELSE @[b]]]

WeHaveBlock(pk, b) ==
  LET opened == IF b[1] \in pk.queue THEN pk ELSE OpenPieces(pk, {b[1]})
  IN  [opened EXCEPT !.block[b] = Finish(@)]

\* Mutant of IsPieceFinished: a requested block counts as written.
IsPieceTaken(pk, p) ==
  \/ pk.status[p] = "Have"
  \/ pk.status[p] = "Downloading" /\ \A b \in BlocksOf(p) : pk.block[b].state # "None"

IsPieceFinished(pk, p) ==
  \/ pk.status[p] = "Have"
  \/ /\ pk.status[p] = "Downloading"
     /\ p \in pk.queue
     /\ \A b \in BlocksOf(p) : pk.block[b].state \in {"Writing", "Finished"}
-----------------------------------------------------------------------------
(* Picking the next blocks for a connection.                               *)
(* PickPiecesWithAvailability takes the free blocks of the open pieces in  *)
(* slice order, then opens the missing pieces in index order, one at a     *)
(* time and only while it is short of blocks.                              *)

Allowed(pk, avail) ==
  {p \in avail : p \in pk.queue \/ pk.status[p] = "None"}

\* Mutant of FreeBlocks: a requested block is offered again.
FreeOrRequestedBlocks(pk, avail) ==
  {b \in Blocks : b[1] \in Allowed(pk, avail)
                   /\ pk.block[b].state \in {"None", "Requested"}}

FreeBlocks(pk, avail) ==
  {b \in Blocks : b[1] \in Allowed(pk, avail) /\ pk.block[b].state = "None"}

PieceBefore(pk, p, q) ==
  \/ p \in pk.queue /\ q \notin pk.queue
  \/ p \in pk.queue /\ q \in pk.queue /\ <<p, q>> \in pk.before
  \/ p \notin pk.queue /\ q \notin pk.queue /\ p < q

BlockBefore(pk, b, c) ==
  \/ PieceBefore(pk, b[1], c[1])
  \/ b[1] = c[1] /\ b[2] < c[2]

\* The first n free blocks.
PickedBlocks(pk, n, avail) ==
  LET free == FreeBlocks(pk, avail)
  IN  {b \in free : Cardinality({c \in free : BlockBefore(pk, c, b)}) < n}

\* The picker after those blocks have been requested by peer.
PickPieces(pk, picked, peer, speed) ==
  LET opened == OpenPieces(pk, {b[1] : b \in picked} \ pk.queue)
  IN  [opened EXCEPT !.block =
         [b \in Blocks |-> IF b \in picked THEN Request(@[b], peer, speed)
                                           ELSE @[b]]]

=============================================================================
