------------------------------- MODULE Frames -------------------------------
(***************************************************************************)
(* How a connection cuts what it reads into packets: connection.go and the *)
(* receiving half of peer_connection.go, as functions of the record f. The *)
(* peer sends frames 1..Count in order, each a header of fixed size, a body*)
(* that is decoded with it, and for SendingPart and CompressedPart the     *)
(* bytes of a file behind it, which go to the buffer of a block. A read    *)
(* may end anywhere. Bytes have positions in the stream; f.at..f.have are  *)
(* the chunks in Connection.incoming.                                      *)
(*                                                                         *)
(* Left out: frames that do not unpack and handlers that fail (the frames  *)
(* behind them in the same batch are dropped), a connection that receives  *)
(* file data without a transfer, and what the packets say.                 *)
(***************************************************************************)
EXTENDS Integers, Sequences

CONSTANTS
  HeaderSize,  \* PacketHeaderSize, 6
  Count,       \* how many frames the peer sends
  Begin,       \* where frame k begins; Begin[Count + 1] is the end of the last
  Service      \* ServiceSize of frame k: its body without the bytes of a file

ASSUME FramesAssumption ==
  /\ HeaderSize \in Nat \ {0} /\ Count \in Nat
  /\ Begin \in [1..Count + 1 -> Nat] /\ Begin[1] = 0
  /\ Service \in [1..Count -> Nat]
  /\ \A j \in 1..Count, k \in 1..Count + 1 :
       j < k => Begin[j] + HeaderSize + Service[j] <= Begin[k]

BodyEnd(k) == Begin[k] + HeaderSize + Service[k]
HasPayload(k) == BodyEnd(k) < Begin[k + 1]

\* step: what PumpIO does with the connection, "idle" between two turns; todo:
\* frames that are decoded and not handled; last: the frame handled last;
\* receiving: transferringData; to: where recvReq is complete; lost: bytes of a
\* header were dropped, and nothing can be said of what is decoded afterwards.
Steps == {"idle", "frames", "handle", "payload"}
NewStream == [at |-> 0, have |-> 0, step |-> "idle", todo |-> << >>, last |-> 0,
              receiving |-> FALSE, to |-> 0, lost |-> FALSE]

\* n more bytes, then ReceivePendingData or ProcessIncoming
DoRead(f, n) ==
  [f EXCEPT !.have = @ + n, !.step = IF f.receiving THEN "payload" ELSE "frames"]

\* Mutant: a frame whose body is incomplete is not put back.
KeepNothing(f) == [f EXCEPT !.at = f.have, !.step = "handle"]

\* ReadFramesWithCombiner, one step for a frame. With data behind the body the
\* rest is put back and the batch ends; a frame without all of its body is put
\* back; what is too short for a header is not.
TakeFrame(f, k) ==
  [f EXCEPT !.at = BodyEnd(k), !.todo = Append(@, k),
            !.step = IF HasPayload(k) THEN "handle" ELSE "frames"]
KeepFrame(f) == [f EXCEPT !.step = "handle"]
DropRest(f) == [f EXCEPT !.at = f.have, !.step = "handle", !.lost = @ \/ f.at # f.have]

ReadFrames(f) ==
  IF f.have - f.at < HeaderSize THEN {DropRest(f)}
  ELSE {IF BodyEnd(k) <= f.have THEN TakeFrame(f, k) ELSE KeepFrame(f) :
          k \in {j \in 1..Count : Begin[j] = f.at}}

\* ProcessIncoming: the decoded frames are handled in turn. The last of a batch
\* may begin the reception of file data, for as many bytes as its range says.
HandleFrame(f) ==
  LET k == Head(f.todo) IN
  IF HasPayload(k)
  THEN [f EXCEPT !.todo = Tail(@), !.last = k, !.receiving = TRUE,
                 !.to = f.at + (Begin[k + 1] - BodyEnd(k)), !.step = "payload"]
  ELSE [f EXCEPT !.todo = Tail(@), !.last = k]
EndProcessing(f) == [f EXCEPT !.step = "idle"]

\* ReceivePendingData, or skipPendingData for a block that is not asked for any
\* more; ConsumeIncoming puts the rest back, and continueBufferedIncoming
\* decodes it when the data is complete.
ReceivePendingData(f) ==
  IF f.have < f.to THEN [f EXCEPT !.at = f.have, !.step = "idle"]
  ELSE [f EXCEPT !.at = f.to, !.receiving = FALSE, !.step = "frames"]

Serve(f) ==
  CASE f.step = "frames" -> ReadFrames(f)
    [] f.step = "handle" -> {IF f.todo # << >> THEN HandleFrame(f) ELSE EndProcessing(f)}
    [] f.step = "payload" -> {ReceivePendingData(f)}
    [] OTHER -> {}

\* The next frame that is neither handled nor decoded
Upcoming(f) == f.last + Len(f.todo) + 1

\* Where the decoder is: in front of the upcoming frame, or behind the body of
\* the one before it, whose file data comes next.
Expected(f) ==
  IF f.todo # << >> /\ HasPayload(Upcoming(f) - 1) THEN BodyEnd(Upcoming(f) - 1)
  ELSE Begin[Upcoming(f)]

\* Up to a split header the frames are decoded and handled in the order in which
\* they were sent, none is lost, and each has the file data that follows it.
InStep(f) ==
  ~f.lost =>
    /\ Upcoming(f) \in 1..Count + 1
    /\ \A i \in 1..Len(f.todo) : f.todo[i] = f.last + i
    /\ IF f.receiving THEN f.todo = << >> /\ f.at <= f.to /\ f.to = Begin[Upcoming(f)]
       ELSE f.at = Expected(f)
=============================================================================
