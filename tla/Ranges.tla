------------------------------- MODULE Ranges -------------------------------
(***************************************************************************)
(* Bytes, blocks and pieces: data/piece_block.go, data/peer_request.go,    *)
(* blocks_enumerator.go, and the places that compute with them. The sizes  *)
(* are those of the code. Offsets are int64, far from their limit; only    *)
(* RequestParts32 and SendingPart32 cut them to 32 bits.                   *)
(***************************************************************************)
EXTENDS Integers, Sequences

PieceSize == 9728000
BlockSize == 194560
BlocksPerPiece == 50
PacketSize == 10240

MinOf(a, b) == IF a < b THEN a ELSE b
MaxOf(a, b) == IF a < b THEN b ELSE a
DivCeil(a, b) == (a + b - 1) \div b

\* A PieceBlock and a Range, the bytes left .. right - 1
Block == [piece : Nat, block : 0..BlocksPerPiece - 1]
BlocksOffset(b) == b.piece * BlocksPerPiece + b.block
MakePieceBlock(offset) ==
  [piece |-> offset \div PieceSize, block |-> (offset % PieceSize) \div BlockSize]
BlockRange(b, size) ==
  LET begin == b.piece * PieceSize + b.block * BlockSize
  IN [left |-> begin,
      right |-> MinOf(begin + BlockSize,
                      MinOf(b.piece * PieceSize + (b.block + 1) * BlockSize, size))]
Size(b, size) == BlockRange(b, size).right - BlockRange(b, size).left

\* WriteBlock, RestoreBlock: where a block is in the file
FilePosition(b) == BlocksOffset(b) * BlockSize

\* NewTransfer, BlocksEnumerator: the blocks that are ever requested or saved
NumPieces(size) == DivCeil(size, PieceSize)
BlocksInLastPiece(size) ==
  LET n == DivCeil(size % PieceSize, BlockSize) IN IF n = 0 THEN 1 ELSE n
BlocksInPiece(i, size) ==
  IF i = NumPieces(size) - 1 THEN BlocksInLastPiece(size) ELSE BlocksPerPiece

\* Transfer.pieceSize
SizeOfPiece(i, size) ==
  IF i < 0 \/ i >= NumPieces(size) \/ i * PieceSize >= size THEN 0
  ELSE MinOf((i + 1) * PieceSize, size) - i * PieceSize

\* A PeerRequest; it is refused when it is empty or longer than a piece.
ValidRequest(begin, end) == 0 <= begin /\ begin < end /\ end - begin <= PieceSize
MakePeerRequest(begin, end) ==
  [piece |-> begin \div PieceSize, start |-> begin % PieceSize, length |-> end - begin]
InBlockOffset(r) == r.start % BlockSize
RequestRange(r) ==
  LET begin == r.piece * PieceSize + r.start IN [left |-> begin, right |-> begin + r.length]

\* MakePeerRequests: one request for each piece that the range touches, in order
MakePeerRequests(begin, end, fsize) ==
  LET from == MinOf(begin, fsize)
      to   == MinOf(end, fsize)
      first == from \div PieceSize
  IN IF from >= to THEN << >>
     ELSE [k \in 1..(to - 1) \div PieceSize - first + 1 |->
             LET p == first + k - 1
             IN MakePeerRequest(MaxOf(from, p * PieceSize), MinOf(to, (p + 1) * PieceSize))]

\* CanUploadRange of a transfer that may upload and has the pieces `have`
CanUploadRange(begin, end, size, have) ==
  /\ 0 <= begin /\ begin < end /\ end <= size
  /\ \A k \in DOMAIN MakePeerRequests(begin, end, size) :
       MakePeerRequests(begin, end, size)[k].piece \in have

\* ReceivePendingData: the block that the bytes of a request belong to
BlockOf(r) == [piece |-> r.piece, block |-> r.start \div BlockSize]

\* RequestParts32.AppendRange, SendPart: an offset in a packet for a file of
\* this size, cut to 32 bits where that is at most MaxUint32
InPacket(offset, size) ==
  IF size < 65536 * 65536 THEN offset % (65536 * 65536) ELSE offset

\* SendBlockData: the packets that a range of n bytes is sent in
SizeOfPackets(n) == IF n > PacketSize THEN n \div (n \div PacketSize) ELSE n
Packets(n, size) ==
  LET count == n \div size
  IN [k \in 1..count |-> IF k < count THEN size ELSE n - (count - 1) * size]

\* FlushOutgoing writes a packet of a connection in a tick.  The downloading end
\* is silent until it has all blocks of its request, and the other closes a
\* connection on which nothing was received for PeerConnectionTimeout.
\* Milliseconds, with the default settings.
RequestQueueSize == 3
TickInterval == 100
PeerConnectionTimeout == 5000
TimeToSend(blocks) ==
  blocks * Len(Packets(BlockSize, SizeOfPackets(BlockSize))) * TickInterval
=============================================================================
