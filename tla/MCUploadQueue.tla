--------------------------- MODULE MCUploadQueue ----------------------------
(***************************************************************************)
(* Instances of UploadQueue for TLC: two clients, of which one has a low   *)
(* identifier, and a friend slot in one instance. The ranges that clients  *)
(* ask for, and the packets they are sent in, are checked near the ends of *)
(* blocks and pieces.                                                      *)
(***************************************************************************)
EXTENDS UploadQueue, Ranges

CONSTANTS c1, c2, f1, f2

TwoClients == {c1, c2}
TheFriend  == {c2}
TheLowID   == {c2}
OneFile    == {f1}
TwoFiles   == {f1, f2}
TheShare   == {f2}
None       == {}

\* Offsets near the ends of blocks and pieces
Near(n) == {n - 1, n, n + 1} \cap Nat
Offsets == UNION {Near(n) : n \in {0, BlockSize, PieceSize, PieceSize + BlockSize, 3 * PieceSize}}
Sizes   == Offsets \ {0}

\* Bytes are in the blocks and requests that a search by definition finds.
ASSUME BytesAreInTheirBlocks ==
  \A size \in Sizes, offset \in Offsets :
    offset < size =>
      {b \in [piece : 0..3, block : 0..BlocksPerPiece - 1] :
         BlockRange(b, size).left <= offset /\ offset < BlockRange(b, size).right}
        = {MakePieceBlock(offset)}
ASSUME PiecesMakeTheFile ==
  \A size \in Sizes :
    FoldLeft(LAMBDA sum, i : sum + SizeOfPiece(i - 1, size), 0, [i \in 1..4 |-> i]) = size
ASSUME RequestsMakeTheRange ==
  \A size \in Sizes, begin \in Offsets, end \in Offsets :
    LET all == MakePeerRequests(begin, end, size)
    IN /\ FoldLeft(LAMBDA at, r : IF RequestRange(r).left = at THEN at + r.length ELSE -1,
                   begin, all)
            = MaxOf(begin, MinOf(end, size))
       /\ (begin < end /\ end <= size) =>
            (CanUploadRange(begin, end, size, {0, 2}) <=>
               \A b \in {begin, end - 1} \cup {o \in Offsets : begin <= o /\ o < end} :
                 b \div PieceSize \in {0, 2})
ASSUME PacketsMakeTheRange ==
  \A n \in {1} \cup UNION {{k * PacketSize - 1, k * PacketSize, k * PacketSize + 1} : k \in 1..20} :
    LET packets == Packets(n, SizeOfPackets(n))
    IN /\ FoldLeft(LAMBDA sum, p : sum + p, 0, packets) = n
       /\ \A k \in DOMAIN packets : packets[k] < 4 * PacketSize

=============================================================================
