-------------------------- MODULE AlgorithmProofs ---------------------------
(***************************************************************************)
(* What the code computes without keeping state, for every argument: the   *)
(* ranges of blocks and requests, what a search shows, and when a transfer *)
(* asks for sources.                                                       *)
(***************************************************************************)
EXTENDS Ranges, SearchResults, SourceTimers, TLAPS

(***************************************************************************)
(* For files of every size: the blocks and the requests partition the file *)
(* as the handlers take for granted, with one exception.                   *)
(***************************************************************************)
\* A byte of the file is in the block that MakePieceBlock names
\* (piece_block.go:30, peer_connection.go:1057).
THEOREM BlockContains ==
  ASSUME NEW size \in Nat, NEW offset \in Nat, offset < size
  PROVE  LET b == MakePieceBlock(offset) IN
         /\ b \in Block
         /\ BlockRange(b, size).left <= offset /\ offset < BlockRange(b, size).right
<1> DEFINE b == MakePieceBlock(offset)
           p == offset \div PieceSize
           s == offset % PieceSize
           k == s \div BlockSize
<1>1. /\ p \in Nat /\ s \in Nat /\ s < 9728000 /\ offset = p * 9728000 + s
  BY DEF PieceSize
<1>2. /\ k \in Nat /\ k <= 49 /\ k * 194560 <= s /\ s < (k + 1) * 194560
  BY <1>1 DEF BlockSize
<1>3. b.piece = p /\ b.block = k /\ b \in Block
  BY <1>1, <1>2 DEF MakePieceBlock, Block, BlocksPerPiece
<1> HIDE DEF b, p, s, k
<1>4. BlockRange(b, size).left = p * 9728000 + k * 194560
  BY <1>3 DEF BlockRange, PieceSize, BlockSize
<1>5. BlockRange(b, size).right = MinOf(p * 9728000 + k * 194560 + 194560,
                                        MinOf(p * 9728000 + (k + 1) * 194560, size))
  BY <1>3 DEF BlockRange, PieceSize, BlockSize
<1> QED
  BY <1>1, <1>2, <1>3, <1>4, <1>5 DEF MinOf, b

\* No byte is in two blocks.
THEOREM BlocksAreDisjoint ==
  ASSUME NEW size \in Nat, NEW b \in Block, NEW c \in Block, b # c
  PROVE  \/ BlockRange(b, size).right <= BlockRange(c, size).left
         \/ BlockRange(c, size).right <= BlockRange(b, size).left
<1> DEFINE bp == b.piece bk == b.block cp == c.piece ck == c.block
<1>1. /\ bp \in Nat /\ bk \in 0..49 /\ cp \in Nat /\ ck \in 0..49 /\ (bp # cp \/ bk # ck)
  BY DEF Block, BlocksPerPiece
<1>2. /\ BlockRange(b, size).left = bp * 9728000 + bk * 194560
      /\ BlockRange(c, size).left = cp * 9728000 + ck * 194560
  BY DEF BlockRange, PieceSize, BlockSize
<1>3. /\ BlockRange(b, size).right = MinOf(bp * 9728000 + bk * 194560 + 194560,
                                           MinOf(bp * 9728000 + (bk + 1) * 194560, size))
      /\ BlockRange(c, size).right = MinOf(cp * 9728000 + ck * 194560 + 194560,
                                           MinOf(cp * 9728000 + (ck + 1) * 194560, size))
  BY DEF BlockRange, PieceSize, BlockSize
<1> HIDE DEF bp, bk, cp, ck
<1> QED
  BY <1>1, <1>2, <1>3 DEF MinOf

\* WriteBlock and RestoreBlock seek to where the range of the block begins
\* (piece_manager.go:43, 60), though they compute it from its number.
THEOREM WrittenWhereItBelongs ==
  ASSUME NEW size \in Nat, NEW b \in Block
  PROVE  FilePosition(b) = BlockRange(b, size).left
  BY DEF FilePosition, BlocksOffset, BlockRange, Block, PieceSize, BlockSize, BlocksPerPiece

\* Data for a part of a block of the file is assigned to that block and fits
\* its buffer (peer_connection.go:1086, 1092, 1105).
THEOREM ReceivedDataFits ==
  ASSUME NEW size \in Nat, NEW b \in Block, NEW begin \in Nat, NEW end \in Nat,
         BlockRange(b, size).left <= begin, begin < end, end <= BlockRange(b, size).right
  PROVE  /\ ValidRequest(begin, end)
         /\ LET r == MakePeerRequest(begin, end) IN
            /\ BlockOf(r) = b
            /\ RequestRange(r).left = begin /\ RequestRange(r).right = end
            /\ InBlockOffset(r) = begin - BlockRange(b, size).left
            /\ InBlockOffset(r) + r.length <= Size(b, size)
<1> DEFINE p == b.piece
           k == b.block
           left == BlockRange(b, size).left
           right == BlockRange(b, size).right
           r == MakePeerRequest(begin, end)
<1>1. p \in Nat /\ k \in 0..49
  BY DEF Block, BlocksPerPiece
<1>2. /\ left = p * 9728000 + k * 194560
      /\ right = MinOf(p * 9728000 + k * 194560 + 194560,
                       MinOf(p * 9728000 + (k + 1) * 194560, size))
  BY DEF BlockRange, PieceSize, BlockSize
<1>3. right <= left + 194560 /\ right \in Int /\ left \in Nat
  <2> HIDE DEF p, k, left, right
  <2> QED
    BY <1>1, <1>2 DEF MinOf
<1>4. left <= begin /\ end <= right
  OBVIOUS
<1> DEFINE d == begin - left
<1>5. d \in Nat /\ d < 194560 /\ begin = p * 9728000 + k * 194560 + d /\ end - begin <= 194560 - d
  <2> HIDE DEF p, k, left, right
  <2> QED
    BY <1>1, <1>2, <1>3, <1>4
<1>6. begin \div 9728000 = p /\ begin % 9728000 = k * 194560 + d
  <2> HIDE DEF p, k, left, right, d
  <2> QED
    BY <1>1, <1>5
<1>7. (k * 194560 + d) \div 194560 = k /\ (k * 194560 + d) % 194560 = d
  <2> HIDE DEF p, k, left, right, d
  <2> QED
    BY <1>1, <1>5
<1>8. r.piece = p /\ r.start = k * 194560 + d /\ r.length = end - begin
  BY <1>6 DEF MakePeerRequest, PieceSize
<1>9. BlockOf(r) = b
  <2>1. BlockOf(r) = [piece |-> p, block |-> k]
    BY <1>7, <1>8 DEF BlockOf, BlockSize
  <2> QED
    BY <2>1 DEF Block
<1>10. InBlockOffset(r) = d
  BY <1>7, <1>8 DEF InBlockOffset, BlockSize
<1>11. RequestRange(r).left = p * 9728000 + (k * 194560 + d)
       /\ RequestRange(r).right = p * 9728000 + (k * 194560 + d) + (end - begin)
  BY <1>8 DEF RequestRange, PieceSize
<1>12. Size(b, size) = right - left
  BY DEF Size
<1>13. ValidRequest(begin, end)
  <2> HIDE DEF p, k, left, right, d
  <2> QED
    BY <1>3, <1>5 DEF ValidRequest, PieceSize
<1> HIDE DEF p, k, left, right, d, r
<1>14. RequestRange(r).left = begin /\ RequestRange(r).right = end
  BY <1>1, <1>5, <1>11
<1>15. InBlockOffset(r) + r.length <= Size(b, size)
  BY <1>3, <1>4, <1>5, <1>8, <1>10, <1>12 DEF d
<1> QED
  BY <1>9, <1>10, <1>13, <1>14, <1>15 DEF d, left, r

\* What the last piece has: the bytes behind the last full one, if any.
LEMMA LastPiece ==
  ASSUME NEW size \in Nat, size # 0
  PROVE  LET full == size \div PieceSize
             rest == size % PieceSize
         IN /\ full \in Nat /\ rest \in Nat /\ rest < 9728000 /\ size = full * 9728000 + rest
            /\ rest # 0 => NumPieces(size) = full + 1
            /\ rest = 0 => NumPieces(size) = full /\ BlocksInLastPiece(size) = 1
            /\ rest # 0 => BlocksInLastPiece(size) = (rest + 194559) \div 194560
<1> DEFINE full == size \div PieceSize
           rest == size % PieceSize
<1>1. /\ full \in Nat /\ rest \in Nat /\ rest < 9728000 /\ size = full * 9728000 + rest
  BY DEF PieceSize
<1>2. NumPieces(size) = (size + 9728000 - 1) \div 9728000
  BY DEF NumPieces, DivCeil, PieceSize
<1>3. BlocksInLastPiece(size) =
        IF (rest + 194560 - 1) \div 194560 = 0 THEN 1 ELSE (rest + 194560 - 1) \div 194560
  BY DEF BlocksInLastPiece, DivCeil, BlockSize
<1> HIDE DEF full, rest
<1>4. rest # 0 => NumPieces(size) = full + 1
  BY <1>1, <1>2
<1>5. rest = 0 => NumPieces(size) = full /\ BlocksInLastPiece(size) = 1
  BY <1>1, <1>2, <1>3
<1>6. rest # 0 => BlocksInLastPiece(size) = (rest + 194559) \div 194560
  BY <1>1, <1>3
<1> QED
  BY <1>1, <1>4, <1>5, <1>6 DEF full, rest

\* Every byte of the file is in a block that is requested (transfer.go:61,
\* blocks_enumerator.go:15), unless the size is a multiple of PieceSize.
THEOREM EveryBlockIsRequested ==
  ASSUME NEW size \in Nat, size % PieceSize # 0, NEW offset \in Nat, offset < size
  PROVE  LET b == MakePieceBlock(offset)
         IN b.piece < NumPieces(size) /\ b.block < BlocksInPiece(b.piece, size)
<1> DEFINE p == offset \div PieceSize
           s == offset % PieceSize
           k == s \div BlockSize
           full == size \div PieceSize
           rest == size % PieceSize
<1>1. /\ p \in Nat /\ s \in Nat /\ s < 9728000 /\ offset = p * 9728000 + s
      /\ k \in Nat /\ k < 50 /\ k * 194560 <= s
  BY DEF PieceSize, BlockSize
<1>2. /\ full \in Nat /\ rest \in Nat /\ rest < 9728000 /\ size = full * 9728000 + rest
      /\ NumPieces(size) = full + 1
      /\ BlocksInLastPiece(size) = (rest + 194559) \div 194560
      /\ rest # 0
  BY LastPiece
<1>3. MakePieceBlock(offset).piece = p /\ MakePieceBlock(offset).block = k
  BY DEF MakePieceBlock
<1>4. BlocksInPiece(p, size) = IF p = full THEN (rest + 194559) \div 194560 ELSE 50
  BY <1>1, <1>2 DEF BlocksInPiece, BlocksPerPiece
<1> HIDE DEF p, s, k, full, rest
<1>5. p <= full
  BY <1>1, <1>2
<1>6. p = full => k < (rest + 194559) \div 194560
  BY <1>1, <1>2
<1> QED
  BY <1>1, <1>2, <1>3, <1>4, <1>5, <1>6

\* In that case 49 of the 50 blocks of the last piece are never requested, and
\* the transfer is complete without them.
THEOREM ExactMultipleIsCut ==
  ASSUME NEW size \in Nat, size # 0, size % PieceSize = 0,
         NEW offset \in Nat, size - PieceSize + BlockSize <= offset, offset < size
  PROVE  LET b == MakePieceBlock(offset)
         IN b.piece = NumPieces(size) - 1 /\ b.block >= BlocksInPiece(b.piece, size)
<1> DEFINE p == offset \div PieceSize
           s == offset % PieceSize
           k == s \div BlockSize
           full == size \div PieceSize
<1>1. /\ p \in Nat /\ s \in Nat /\ s < 9728000 /\ offset = p * 9728000 + s
      /\ k \in Nat /\ k < 50 /\ s < (k + 1) * 194560
  BY DEF PieceSize, BlockSize
<1>2. /\ full \in Nat /\ size = full * 9728000
      /\ NumPieces(size) = full /\ BlocksInLastPiece(size) = 1
  BY LastPiece
<1>3. MakePieceBlock(offset).piece = p /\ MakePieceBlock(offset).block = k
  BY DEF MakePieceBlock
<1>4. size - 9728000 + 194560 <= offset
  BY DEF PieceSize, BlockSize
<1> HIDE DEF p, s, k, full
<1>5. p = full - 1
  BY <1>1, <1>2, <1>4
<1>6. k >= 1
  BY <1>1, <1>2, <1>4, <1>5
<1> QED
  BY <1>1, <1>2, <1>3, <1>5, <1>6 DEF BlocksInPiece

\* MakePeerRequests cuts what a client asks for at the ends of the pieces
\* (peer_request.go:39): the requests follow each other, cover the range up to
\* the end of the file, and each is valid and within one piece.
THEOREM RequestsTile ==
  ASSUME NEW size \in Nat, NEW begin \in Nat, NEW end \in Nat,
         begin < MinOf(end, size)
  PROVE  LET q == MakePeerRequests(begin, end, size)
             n == Len(q)
         IN /\ n \in Nat \ {0}
            /\ RequestRange(q[1]).left = begin
            /\ RequestRange(q[n]).right = MinOf(end, size)
            /\ \A k \in 1..n - 1 : RequestRange(q[k]).right = RequestRange(q[k + 1]).left
            /\ \A k \in 1..n : /\ ValidRequest(RequestRange(q[k]).left, RequestRange(q[k]).right)
                               /\ q[k].start + q[k].length <= PieceSize
<1> DEFINE to == MinOf(end, size)
           first == begin \div PieceSize
           n == (to - 1) \div PieceSize - first + 1
           q == MakePeerRequests(begin, end, size)
           L(k) == MaxOf(begin, (first + k - 1) * 9728000)
           R(k) == MinOf(to, (first + k) * 9728000)
<1>1. /\ to \in Nat /\ begin < to /\ MinOf(begin, size) = begin
  BY DEF MinOf
<1>2. /\ first \in Nat /\ first * 9728000 <= begin /\ begin < (first + 1) * 9728000
      /\ n \in Nat \ {0} /\ (first + n - 1) * 9728000 <= to - 1 /\ to - 1 < (first + n) * 9728000
  <2>1. /\ first \in Nat /\ first * 9728000 <= begin /\ begin < (first + 1) * 9728000
    BY DEF PieceSize
  <2> DEFINE last == (to - 1) \div PieceSize
  <2> HIDE DEF to
  <2>2. last \in Nat /\ last * 9728000 <= to - 1 /\ to - 1 < (last + 1) * 9728000
    BY <1>1 DEF PieceSize
  <2>3. n = last - first + 1
    OBVIOUS
  <2> HIDE DEF first, last, n
  <2> QED
    BY <1>1, <2>1, <2>2, <2>3
<1>3. q = [k \in 1..n |-> MakePeerRequest(L(k), R(k))]
  <2>1. \A k \in 1..n : /\ (first + k - 1 + 1) * PieceSize = (first + k) * 9728000
                        /\ (first + k - 1) * PieceSize = (first + k - 1) * 9728000
    <3> HIDE DEF first, n
    <3> QED
      BY <1>2 DEF PieceSize
  <2>2. ~(begin >= to)
    <3> HIDE DEF to
    <3> QED
      BY <1>1
  <2>3. q = [k \in 1..n |->
              MakePeerRequest(MaxOf(begin, (first + k - 1) * PieceSize),
                              MinOf(to, (first + k - 1 + 1) * PieceSize))]
    BY <1>1, <2>2 DEF MakePeerRequests
  <2> HIDE DEF first, n, to, q
  <2> QED
    BY <2>1, <2>3
<1>4. n \in Nat /\ Len(q) = n
  <2> HIDE DEF n, L, R
  <2> QED
    BY <1>2, <1>3
<1> HIDE DEF to, first, n, q
<1>5. ASSUME NEW k \in 1..n
      PROVE  /\ L(k) \in Nat /\ R(k) \in Nat /\ L(k) < R(k)
             /\ (first + k - 1) * 9728000 <= L(k) /\ R(k) <= (first + k) * 9728000
  <2>1. first + k <= first + n /\ first <= first + k - 1 /\ k \in Nat
    BY <1>2
  <2>2. (first + k - 1) * 9728000 <= (first + n - 1) * 9728000
    BY <1>2, <2>1
  <2>3. (first + 1) * 9728000 <= (first + k) * 9728000
    BY <1>2, <2>1
  <2> QED
    BY <1>1, <1>2, <2>1, <2>2, <2>3 DEF MinOf, MaxOf
<1>6. ASSUME NEW k \in 1..n
      PROVE  /\ q[k].piece = first + k - 1 /\ q[k].start = L(k) - (first + k - 1) * 9728000
             /\ q[k].length = R(k) - L(k)
             /\ RequestRange(q[k]).left = L(k) /\ RequestRange(q[k]).right = R(k)
  <2>1. q[k] = MakePeerRequest(L(k), R(k))
    BY <1>3
  <2>2. /\ q[k].piece = L(k) \div 9728000 /\ q[k].start = L(k) % 9728000
        /\ q[k].length = R(k) - L(k)
    BY <2>1 DEF MakePeerRequest, PieceSize
  <2>3. L(k) \in Nat /\ R(k) \in Nat /\ (first + k - 1) * 9728000 <= L(k)
        /\ L(k) < R(k) /\ R(k) <= (first + k) * 9728000 /\ k \in Nat
    BY <1>2, <1>5
  <2> HIDE DEF L, R
  <2>4. L(k) \div 9728000 = first + k - 1
        /\ L(k) % 9728000 = L(k) - (first + k - 1) * 9728000
    BY <1>2, <2>3
  <2>5. RequestRange(q[k]).left = (first + k - 1) * 9728000 + (L(k) - (first + k - 1) * 9728000)
    BY <2>2, <2>4 DEF RequestRange, PieceSize
  <2>6. RequestRange(q[k]).right = RequestRange(q[k]).left + (R(k) - L(k))
    BY <2>2 DEF RequestRange
  <2> QED
    BY <1>2, <2>2, <2>3, <2>4, <2>5, <2>6
<1>7. RequestRange(q[1]).left = begin
  <2>1. L(1) = begin
    BY <1>1, <1>2 DEF MaxOf
  <2> QED
    BY <1>2, <1>6, <2>1
<1>8. RequestRange(q[n]).right = to
  <2>1. R(n) = to
    BY <1>1, <1>2 DEF MinOf
  <2>2. n \in 1..n
    BY <1>2
  <2> QED
    BY <1>6, <2>1, <2>2
<1>9. \A k \in 1..n - 1 : RequestRange(q[k]).right = RequestRange(q[k + 1]).left
  <2> TAKE k \in 1..n - 1
  <2>1. k \in 1..n /\ k + 1 \in 1..n /\ k \in Nat
    BY <1>2
  <2>2. R(k) = (first + k) * 9728000
    <3>1. (first + k) * 9728000 <= (first + n - 1) * 9728000
      BY <1>2, <2>1
    <3> QED
      BY <1>1, <1>2, <2>1, <3>1 DEF MinOf
  <2>3. L(k + 1) = (first + k) * 9728000
    <3>1. (first + 1) * 9728000 <= (first + k) * 9728000
      BY <1>2, <2>1
    <3> QED
      BY <1>1, <1>2, <2>1, <3>1 DEF MaxOf
  <2> QED
    BY <1>6, <2>1, <2>2, <2>3
<1>10. ASSUME NEW k \in 1..n
       PROVE  /\ ValidRequest(RequestRange(q[k]).left, RequestRange(q[k]).right)
              /\ q[k].start + q[k].length <= PieceSize
  <2>1. k \in Nat
    BY <1>2
  <2> HIDE DEF L, R
  <2> QED
    BY <1>2, <1>5, <1>6, <2>1 DEF ValidRequest, PieceSize
<1> QED
  BY <1>2, <1>4, <1>7, <1>8, <1>9, <1>10 DEF q, to

\* An offset of the file survives the packet it is sent in (peer_connection.go:
\* 523, 1002).
THEOREM OffsetsFitPackets ==
  ASSUME NEW size \in Nat, NEW offset \in 0..size
  PROVE  InPacket(offset, size) = offset
  BY DEF InPacket

\* SendBlockData cuts a range into packets without rest (peer_connection.go:
\* 602): none is empty, all but the last have the same size, and the last ends
\* where the range does.
THEOREM PacketsTile ==
  ASSUME NEW n \in Nat, n # 0
  PROVE  LET s == SizeOfPackets(n)
             packets == Packets(n, s)
             count == Len(packets)
         IN /\ s \in Nat /\ s > 0 /\ count \in Nat /\ count > 0
            /\ \A k \in 1..count - 1 : packets[k] = s
            /\ packets[count] = n - (count - 1) * s
            /\ s <= packets[count] /\ packets[count] < 2 * s
<1> DEFINE s == SizeOfPackets(n)
           m == n \div 10240
           count == n \div s
           packets == Packets(n, s)
<1>1. s \in Nat /\ s > 0 /\ s <= n
  <2>1. CASE n > 10240
    <3>1. m \in Nat /\ m >= 1 /\ m <= n
      BY <2>1
    <3>2. s = n \div m
      BY <2>1 DEF SizeOfPackets, PacketSize
    <3> HIDE DEF m, s
    <3>3. n \div m \in Nat /\ n = m * (n \div m) + (n % m) /\ n % m >= 0 /\ n % m < m
      BY <3>1
    <3> DEFINE x == n \div m
               y == n % m
    <3>4. x \in Nat /\ n = m * x + y /\ y \in Int /\ 0 <= y /\ y < m
      BY <3>1, <3>3
    <3>5. s = x
      BY <3>2
    <3> HIDE DEF x, y
    <3>6. x # 0
      BY <3>1, <3>4
    <3>7. x <= m * x
      BY <3>1, <3>4
    <3>8. m * x \in Nat
      BY <3>1, <3>4
    <3> QED
      BY <3>4, <3>5, <3>6, <3>7, <3>8
  <2>2. CASE ~(n > 10240)
    BY <2>2 DEF SizeOfPackets, PacketSize
  <2> QED
    BY <2>1, <2>2
<1> HIDE DEF s
<1>2. count \in Nat /\ count > 0 /\ count * s <= n /\ n < count * s + s
  <2> DEFINE y == n % s
  <2>1. count \in Nat /\ n = s * count + y /\ y \in Int /\ 0 <= y /\ y < s
    BY <1>1
  <2> HIDE DEF count, y
  <2>2. count # 0
    BY <1>1, <2>1
  <2>3. s * count = count * s /\ s * count \in Nat
    BY <1>1, <2>1
  <2> QED
    BY <1>1, <2>1, <2>2, <2>3
<1>3. packets = [k \in 1..count |-> IF k < count THEN s ELSE n - (count - 1) * s]
  BY DEF Packets
<1> HIDE DEF count, packets
<1>4. Len(packets) = count
  BY <1>2, <1>3
<1>5. (count - 1) * s = count * s - s /\ count * s \in Nat
  BY <1>1, <1>2
<1>6. \A k \in 1..count - 1 : packets[k] = s
  BY <1>2, <1>3
<1>7. packets[count] = n - (count - 1) * s
  BY <1>2, <1>3
<1>8. s <= n - (count - 1) * s /\ n - (count - 1) * s < 2 * s
  BY <1>1, <1>2, <1>5
<1> QED
  BY <1>1, <1>2, <1>4, <1>6, <1>7, <1>8 DEF s, packets

(* While the blocks of a full request are sent, the uploading end receives   *)
(* nothing for longer than its time-out (SecondTick of PeerConnection), so    *)
(* it closes the connection in the middle; with fewer blocks it does not.     *)
THEOREM FullRequestOutlastsTimeout ==
  \A blocks \in Nat :
    TimeToSend(blocks) > PeerConnectionTimeout <=> blocks >= RequestQueueSize
<1>1. SizeOfPackets(BlockSize) = PacketSize
  BY DEF SizeOfPackets, BlockSize, PacketSize
<1>2. Packets(BlockSize, PacketSize) =
        [k \in 1..19 |-> IF k < 19 THEN PacketSize ELSE BlockSize - 18 * PacketSize]
  BY DEF Packets, BlockSize, PacketSize
<1>3. Len(Packets(BlockSize, PacketSize)) = 19
  <2> DEFINE p == [k \in 1..19 |-> IF k < 19 THEN PacketSize ELSE BlockSize - 18 * PacketSize]
  <2>1. p \in Seq(Int)
    BY DEF BlockSize, PacketSize
  <2>2. DOMAIN p = 1..19
    OBVIOUS
  <2> HIDE DEF p
  <2>3. Len(p) = 19
    BY <2>1, <2>2
  <2> QED
    BY <1>2, <2>3 DEF p
<1> QED
  BY <1>1, <1>3 DEF TimeToSend, TickInterval, PeerConnectionTimeout, RequestQueueSize

(***************************************************************************)
(* Answers come in any order, twice, and from many nodes: what a search    *)
(* shows keeps to its filters, loses nothing it has shown, and is the same *)
(* in number of sources whatever the order.                                *)
(***************************************************************************)
\* Two results of one file, each of which passes the filters, make one that
\* does: the filters are not applied again after a merge (session.go:736,
\* search.go:235), though it takes a size from one answer and counts from
\* another.
THEOREM MergePassesFilters ==
  ASSUME NEW Hashes, NEW a \in ResultOf(Hashes), NEW b \in ResultOf(Hashes),
         NEW params \in Filters,
         matchesSearchFilters(a, params), matchesSearchFilters(b, params)
  PROVE  matchesSearchFilters(Merged(a, b), params)
<1>1. /\ a.count["Sources"] \in Nat /\ b.count["Sources"] \in Nat
      /\ a.count["CompleteSources"] \in Nat /\ b.count["CompleteSources"] \in Nat
      /\ a.detail["FileSize"] \in Nat /\ b.detail["FileSize"] \in Nat
  BY DEF ResultOf, Counts, Details
<1>2. /\ params.MinSize \in Nat /\ params.MaxSize \in Nat
      /\ params.MinSources \in Nat /\ params.MinCompleteSources \in Nat
  BY DEF Filters
<1>3. /\ Merged(a, b).detail["FileSize"]
           = IF a.detail["FileSize"] = 0 THEN b.detail["FileSize"] ELSE a.detail["FileSize"]
      /\ Merged(a, b).count["Sources"]
           = IF b.count["Sources"] > a.count["Sources"]
             THEN b.count["Sources"] ELSE a.count["Sources"]
      /\ Merged(a, b).count["CompleteSources"]
           = IF b.count["CompleteSources"] > a.count["CompleteSources"]
             THEN b.count["CompleteSources"] ELSE a.count["CompleteSources"]
  BY DEF Merged, Counts, Details
<1> QED
  BY <1>1, <1>2, <1>3 DEF matchesSearchFilters

LEMMA MergedType ==
  ASSUME NEW Hashes, NEW a \in ResultOf(Hashes), NEW b \in ResultOf(Hashes)
  PROVE  Merged(a, b) \in ResultOf(Hashes)
<1>1. \A c \in Counts : a.count[c] \in Nat /\ b.count[c] \in Nat
  BY DEF ResultOf
<1>2. \A d \in Details : a.detail[d] \in Nat /\ b.detail[d] \in Nat
  BY DEF ResultOf
<1>3. [c \in Counts |-> IF b.count[c] > a.count[c] THEN b.count[c] ELSE a.count[c]]
        \in [Counts -> Nat]
  BY <1>1
<1>4. [d \in Details |-> IF a.detail[d] = 0 THEN b.detail[d] ELSE a.detail[d]]
        \in [Details -> Nat]
  BY <1>2
<1>5. a.Hash \in Hashes /\ a.Source \cup b.Source \in SUBSET Senders
  BY DEF ResultOf
<1> QED
  BY <1>3, <1>4, <1>5 DEF Merged, ResultOf

\* The map of a task: each result under its own hash, and past the filters
Shown(results, Hashes, params) ==
  /\ results \in [DOMAIN results -> ResultOf(Hashes)]
  /\ \A h \in DOMAIN results :
       results[h].Hash = h /\ matchesSearchFilters(results[h], params)

\* Whatever answers come, in whatever order, what is shown passes the filters of
\* the search (session.go:691, 736).
THEOREM ShownPassesFilters ==
  ASSUME NEW Hashes, NEW results, NEW params \in Filters, Shown(results, Hashes, params),
         NEW r \in ResultOf(Hashes)
  PROVE  Shown(Deliver(results, r, params), Hashes, params)
<1>1. CASE ~matchesSearchFilters(r, params)
  BY <1>1 DEF Deliver
<1>2. CASE matchesSearchFilters(r, params)
  <2> DEFINE after == mergeResult(results, r)
  <2>1. DOMAIN after = DOMAIN results \cup {r.Hash}
    BY DEF mergeResult
  <2>2. ASSUME NEW h \in DOMAIN after
        PROVE  /\ after[h] \in ResultOf(Hashes) /\ after[h].Hash = h
               /\ matchesSearchFilters(after[h], params)
    <3>1. CASE h # r.Hash
      BY <3>1, <2>1 DEF mergeResult, Shown
    <3>2. CASE h = r.Hash /\ h \notin DOMAIN results
      BY <3>2, <1>2 DEF mergeResult
    <3>3. CASE h = r.Hash /\ h \in DOMAIN results
      <4>1. after[h] = Merged(results[h], r)
        BY <3>3 DEF mergeResult
      <4>2. /\ results[h] \in ResultOf(Hashes) /\ results[h].Hash = h
            /\ matchesSearchFilters(results[h], params)
        BY <3>3 DEF Shown
      <4>3. Merged(results[h], r) \in ResultOf(Hashes)
        BY <4>2, MergedType
      <4>4. matchesSearchFilters(Merged(results[h], r), params)
        BY <4>2, <1>2, MergePassesFilters
      <4>5. Merged(results[h], r).Hash = h
        BY <4>2 DEF Merged
      <4> QED
        BY <4>1, <4>3, <4>4, <4>5
    <3> QED
      BY <3>1, <3>2, <3>3
  <2>3. after = [h \in DOMAIN after |-> after[h]]
    BY DEF mergeResult
  <2> HIDE DEF after
  <2>4. after \in [DOMAIN after -> ResultOf(Hashes)]
    BY <2>2, <2>3
  <2>5. Shown(after, Hashes, params)
    BY <2>2, <2>4 DEF Shown
  <2> QED
    BY <2>5, <1>2 DEF Deliver, after
<1> QED
  BY <1>1, <1>2

\* A result that has been shown keeps its place, its senders and what is known of
\* it, and its counts never fall, while answers of other nodes come in
\* (search.go:239).
THEOREM ShownStays ==
  ASSUME NEW Hashes, NEW results, NEW params, Shown(results, Hashes, params),
         NEW r \in ResultOf(Hashes), NEW h \in DOMAIN results
  PROVE  LET after == Deliver(results, r, params) IN
         /\ h \in DOMAIN after
         /\ results[h].Source \subseteq after[h].Source
         /\ \A c \in Counts : results[h].count[c] <= after[h].count[c]
         /\ \A d \in Details :
              results[h].detail[d] # 0 => after[h].detail[d] = results[h].detail[d]
<1> DEFINE after == Deliver(results, r, params)
<1>1. /\ results[h] \in ResultOf(Hashes)
      /\ \A c \in Counts : results[h].count[c] \in Nat /\ r.count[c] \in Nat
  BY DEF Shown, ResultOf
<1>2. h \in DOMAIN after /\ (after[h] = results[h] \/ after[h] = Merged(results[h], r))
  BY DEF Deliver, mergeResult
<1> HIDE DEF after
<1>3. CASE after[h] = results[h]
  BY <1>1, <1>2, <1>3 DEF after
<1>4. CASE after[h] = Merged(results[h], r)
  <2>1. results[h].Source \subseteq after[h].Source
    BY <1>4 DEF Merged
  <2>2. \A c \in Counts : results[h].count[c] <= after[h].count[c]
    BY <1>1, <1>4 DEF Merged
  <2>3. \A d \in Details :
          results[h].detail[d] # 0 => after[h].detail[d] = results[h].detail[d]
    BY <1>4 DEF Merged
  <2> QED
    BY <1>2, <2>1, <2>2, <2>3 DEF after
<1> QED
  BY <1>2, <1>3, <1>4

\* An answer that comes twice, as the same entry from two nodes of Kad or from a
\* server that is asked for more, changes nothing the second time.
THEOREM TwiceIsOnce ==
  ASSUME NEW Hashes, NEW a \in ResultOf(Hashes), NEW b \in ResultOf(Hashes)
  PROVE  Merged(Merged(a, b), b) = Merged(a, b) /\ Merged(b, b) = b
<1>1. \A c \in Counts : a.count[c] \in Nat /\ b.count[c] \in Nat
  BY DEF ResultOf
<1>2. Merged(Merged(a, b), b).count = Merged(a, b).count
  BY <1>1 DEF Merged
<1>3. Merged(Merged(a, b), b).detail = Merged(a, b).detail
  BY DEF Merged
<1>4. Merged(Merged(a, b), b).Source = Merged(a, b).Source
  BY DEF Merged
<1>5. b = [Hash |-> b.Hash, Source |-> b.Source, count |-> b.count, detail |-> b.detail]
  BY DEF ResultOf
<1>6. b.count = [c \in Counts |-> b.count[c]] /\ b.detail = [d \in Details |-> b.detail[d]]
  BY DEF ResultOf
<1>7. Merged(b, b) = b
  <2>1. Merged(b, b).count = b.count
    BY <1>6 DEF Merged
  <2>2. Merged(b, b).detail = b.detail
    BY <1>6 DEF Merged
  <2> QED
    BY <1>5, <2>1, <2>2 DEF Merged
<1>8. Merged(Merged(a, b), b) = Merged(a, b)
  BY <1>2, <1>3, <1>4 DEF Merged
<1> QED
  BY <1>7, <1>8

\* The number of sources and the senders of a file do not depend on which of a
\* server and the DHT answers first; its name may.
THEOREM CountsCommute ==
  ASSUME NEW Hashes, NEW a \in ResultOf(Hashes), NEW b \in ResultOf(Hashes)
  PROVE  /\ Merged(a, b).count = Merged(b, a).count
         /\ Merged(a, b).Source = Merged(b, a).Source
         /\ \A d \in Details :
              (a.detail[d] = 0 \/ b.detail[d] = 0 \/ a.detail[d] = b.detail[d])
                => Merged(a, b).detail[d] = Merged(b, a).detail[d]
<1>1. \A c \in Counts : a.count[c] \in Nat /\ b.count[c] \in Nat
  BY DEF ResultOf
<1>2. Merged(a, b).count = Merged(b, a).count
  BY <1>1 DEF Merged
<1>3. Merged(a, b).Source = Merged(b, a).Source
  BY DEF Merged
<1>4. \A d \in Details :
        (a.detail[d] = 0 \/ b.detail[d] = 0 \/ a.detail[d] = b.detail[d])
          => Merged(a, b).detail[d] = Merged(b, a).detail[d]
  BY DEF Merged
<1> QED
  BY <1>2, <1>3, <1>4

\* Batches can be merged before or after they meet the map: merging is associative
\* in every field.
THEOREM MergeIsAssociative ==
  ASSUME NEW Hashes, NEW a \in ResultOf(Hashes), NEW b \in ResultOf(Hashes),
         NEW c \in ResultOf(Hashes)
  PROVE  Merged(Merged(a, b), c) = Merged(a, Merged(b, c))
<1>1. \A k \in Counts : a.count[k] \in Nat /\ b.count[k] \in Nat /\ c.count[k] \in Nat
  BY DEF ResultOf
<1>2. Merged(Merged(a, b), c).count = Merged(a, Merged(b, c)).count
  BY <1>1 DEF Merged
<1>3. Merged(Merged(a, b), c).detail = Merged(a, Merged(b, c)).detail
  BY DEF Merged
<1>4. Merged(Merged(a, b), c).Source = Merged(a, Merged(b, c)).Source
  BY DEF Merged
<1> QED
  BY <1>2, <1>3, <1>4 DEF Merged

\* The order given to sort.Slice is a strict weak order, as it must be
\* (search.go:143): irreflexive and transitive, and so is what it leaves open.
THEOREM OrderIsWeak ==
  ASSUME NEW Hashes, NEW a \in ResultOf(Hashes), NEW b \in ResultOf(Hashes),
         NEW c \in ResultOf(Hashes)
  PROVE  /\ ~ComesBefore(a, a)
         /\ ComesBefore(a, b) /\ ComesBefore(b, c) => ComesBefore(a, c)
         /\ (/\ ~ComesBefore(a, b) /\ ~ComesBefore(b, a)
             /\ ~ComesBefore(b, c) /\ ~ComesBefore(c, b))
              => ~ComesBefore(a, c) /\ ~ComesBefore(c, a)
<1>1. \A r \in {a, b, c} :
        /\ r.count["Sources"] \in Nat /\ r.count["CompleteSources"] \in Nat
        /\ r.detail["FileSize"] \in Nat /\ r.detail["FileName"] \in Nat
  BY DEF ResultOf, Counts, Details
<1> QED
  BY <1>1 DEF ComesBefore

(***************************************************************************)
(* How often a transfer asks for sources. The timers stay within a minute  *)
(* of the last tick or request for the servers, and two for the DHT, so    *)
(* that no transfer stops asking; and the intervals of a transfer with few *)
(* peers are not the ones the code names.                                  *)
(***************************************************************************)
Near(t, last) == t.servers <= last + Minutes(1) /\ t.dht <= last + Minutes(2)

USE DEF Seconds, Minutes

\* No operation puts a timer further ahead than its longest interval: a tick
\* (transfer.go:648), a request of the API or of a server's handshake
\* (session.go:299), and a resumption (transfer.go:519).
THEOREM TimersStayNear ==
  ASSUME NEW t \in Timers, NEW last \in Nat, NEW now \in Nat, last <= now, Near(t, last),
         NEW active \in Nat, NEW candidates \in Nat,
         NEW toServers \in BOOLEAN, NEW toDHT \in BOOLEAN, NEW transfer
  PROVE  /\ SecondTick(t, now, active, candidates, toServers, toDHT) \in Timers
         /\ Near(SecondTick(t, now, active, candidates, toServers, toDHT), now)
         /\ RequestSourcesNow(t, transfer, now, active, candidates, toServers, toDHT) \in Timers
         /\ Near(RequestSourcesNow(t, transfer, now, active, candidates, toServers, toDHT), now)
         /\ ForceSourceDiscoveryNow(t) \in Timers /\ Near(ForceSourceDiscoveryNow(t), now)
<1> DEFINE s == nextServerSourcesInterval(active, candidates, toServers)
           d == nextDHTSourcesInterval(active, candidates, toDHT)
<1>1. /\ s \in Nat /\ s <= 60000
      /\ d \in Nat /\ d <= 120000
  BY DEF nextServerSourcesInterval, nextDHTSourcesInterval
<1>2. t.servers \in Nat /\ t.dht \in Nat
  BY DEF Timers
<1> HIDE DEF s, d
<1>3. /\ SecondTick(t, now, active, candidates, toServers, toDHT) \in Timers
      /\ Near(SecondTick(t, now, active, candidates, toServers, toDHT), now)
  BY <1>1, <1>2 DEF SecondTick, AsksServers, AsksDHT, DrawnNear, Near, Timers, s, d
<1>4. NewTimers \in Timers /\ Near(NewTimers, now)
  BY DEF NewTimers, Timers, Near
<1>5. t \in Timers /\ Near(t, now)
  BY <1>2 DEF Near
<1>6. /\ [servers |-> now + s, dht |-> now + d] \in Timers
      /\ Near([servers |-> now + s, dht |-> now + d], now)
  BY <1>1 DEF Timers, Near
<1> QED
  BY <1>3, <1>4, <1>5, <1>6 DEF RequestSourcesNow, ForceSourceDiscoveryNow, s, d

\* A transfer that needs sources asks the servers by the first tick a minute
\* after the last tick or request, and the DHT after two: its timers cannot be
\* left behind by operations in some order (transfer.go:659, 663).
THEOREM AsksInTime ==
  ASSUME NEW t \in Timers, NEW last \in Nat, Near(t, last),
         NEW now \in Nat, NEW active \in Nat, NEW candidates \in Nat
  PROVE  /\ last + Minutes(1) <= now => AsksServers(t, now, active, candidates)
         /\ last + Minutes(2) < now => AsksDHT(t, now, active, candidates)
  BY DEF Timers, Near, AsksServers, AsksDHT, DrawnNear

\* What transfer_test.go:130 and 133 ask of one tick holds of every tick at which
\* a transfer has at most one connection and one candidate: the next request to
\* the servers is at most ten seconds ahead, and the one to the DHT at most ten
\* unless it is asked in this tick.
THEOREM StarvingAsksSoon ==
  ASSUME NEW t \in Timers, NEW now \in Nat, NEW active \in Nat, NEW candidates \in Nat,
         NEW toServers \in BOOLEAN, NEW toDHT \in BOOLEAN, Starving(active, candidates)
  PROVE  /\ SecondTick(t, now, active, candidates, toServers, toDHT).servers <= now + Seconds(10)
         /\ \/ AsksDHT(t, now, active, candidates)
            \/ SecondTick(t, now, active, candidates, toServers, toDHT).dht <= now + Seconds(10)
  BY DEF Timers, SecondTick, AsksServers, AsksDHT, DrawnNear, Starving,
         nextServerSourcesInterval, nextDHTSourcesInterval

\* With one connection or one candidate a transfer asks the servers in a tick and
\* again in every tick of the next five seconds, and not after the ten seconds of
\* nextServerSourcesInterval: the interval is longer than what the tick draws
\* near (transfer.go:544, 653).
THEOREM ServersAreAskedEveryTick ==
  ASSUME NEW t \in Timers, NEW now \in Nat, NEW next \in Nat,
         NEW active \in Nat, NEW candidates \in Nat, Starving(active, candidates),
         active > 0 \/ candidates > 0,
         NEW toServers \in BOOLEAN, NEW toDHT \in BOOLEAN,
         AsksServers(t, now, active, candidates), now < next, next < now + Seconds(5)
  PROVE  AsksServers(SecondTick(t, now, active, candidates, toServers, toDHT),
                     next, active, candidates)
  BY DEF Timers, SecondTick, AsksServers, DrawnNear, Starving, nextServerSourcesInterval

\* The DHT is asked again two ticks later: the next tick draws its timer to the
\* present, and the one after that finds it in the past. No interval of half a
\* minute or more (transfer.go:560, "never every tick" at 566) is kept.
THEOREM DHTIsAskedEveryOtherTick ==
  ASSUME NEW t \in Timers, NEW now \in Nat, NEW next \in Nat, NEW third \in Nat,
         NEW active \in Nat, NEW candidates \in Nat, Starving(active, candidates),
         NEW toServers \in BOOLEAN, NEW toDHT \in BOOLEAN,
         NEW toServers2 \in BOOLEAN, NEW toDHT2 \in BOOLEAN,
         AsksDHT(t, now, active, candidates),
         now < next, next < third, next < now + Seconds(20)
  PROVE  LET after == SecondTick(t, now, active, candidates, toServers, toDHT) IN
         /\ ~AsksDHT(after, next, active, candidates)
         /\ AsksDHT(SecondTick(after, next, active, candidates, toServers2, toDHT2),
                    third, active, candidates)
<1> DEFINE after == SecondTick(t, now, active, candidates, toServers, toDHT)
           later == SecondTick(after, next, active, candidates, toServers2, toDHT2)
<1>1. after.dht \in Nat /\ after.dht > next + Seconds(10)
  BY DEF Timers, SecondTick, AsksDHT, Starving, nextDHTSourcesInterval
<1> HIDE DEF after
<1>2. DrawnNear(after, next, active, candidates).dht = next
  BY <1>1 DEF DrawnNear
<1>3. ~AsksDHT(after, next, active, candidates)
  BY <1>2 DEF AsksDHT
<1>4. later.dht = next
  BY <1>2, <1>3 DEF SecondTick
<1> HIDE DEF later
<1>5. AsksDHT(later, third, active, candidates)
  BY <1>4 DEF AsksDHT, DrawnNear
<1> QED
  BY <1>3, <1>5 DEF after, later

\* With two connections and two candidates the intervals are kept: after a request
\* the servers are not asked for ten seconds, nor the DHT for a minute
\* (transfer.go:540, 558).
THEOREM IntervalsAreKept ==
  ASSUME NEW t \in Timers, NEW now \in Nat, NEW next \in Nat,
         NEW active \in Nat, NEW candidates \in Nat, ~Starving(active, candidates),
         NEW toServers \in BOOLEAN, NEW toDHT \in BOOLEAN
  PROVE  LET after == SecondTick(t, now, active, candidates, toServers, toDHT) IN
         /\ (AsksServers(t, now, active, candidates) /\ next < now + Seconds(10))
              => ~AsksServers(after, next, active, candidates)
         /\ (AsksDHT(t, now, active, candidates) /\ next < now + Minutes(1))
              => ~AsksDHT(after, next, active, candidates)
  BY DEF Timers, SecondTick, AsksServers, AsksDHT, DrawnNear, Starving,
         nextServerSourcesInterval, nextDHTSourcesInterval
=============================================================================
