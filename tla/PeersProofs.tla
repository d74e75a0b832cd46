---------------------------- MODULE PeersProofs -----------------------------
(***************************************************************************)
(* The connections and the list of peers of a transfer, for every number of*)
(* peers, connections and frames.                                          *)
(*                                                                         *)
(* FramesAreInOrder: connections decode and handle frames in order, however*)
(* their bytes are cut into reads, up to a read that ends within a header; *)
(* its invariant adds what each step of PumpIO leaves: between two turns no*)
(* decoded frame is left, and only the last frame of a batch has file data *)
(* behind it. ConnectionListsAgree: the lists of the session and of the    *)
(* transfer are those of the connections that have not ended.              *)
(*                                                                         *)
(* The list of peers is an array that AddPeer replaces when it is full, in *)
(* which entries shift and into which connections keep pointers. PolicyInv:*)
(* the list is sorted; a pointer is nil or leads into an array; and only a *)
(* connection that has its transfer has one, and the tick from the choice  *)
(* of a candidate to the end of its dial. It goes with ListsInv: what ends *)
(* a connection must find it in its lists.                                 *)
(***************************************************************************)
EXTENDS Peers, FiniteSetTheorems, SequenceTheorems, WellFoundedInduction, TLAPS

Stream ==
  [at : Nat, have : Nat, step : Steps, todo : Seq(1..Count), last : Int,
   receiving : BOOLEAN, to : Nat, lost : BOOLEAN]

\* What holds of a connection's stream between any two steps.
StreamInv(f) ==
  /\ f \in Stream
  /\ f.at <= f.have
  /\ f.step = "idle" => f.todo = << >>
  /\ f.step \in {"frames", "handle"} => ~f.receiving
  /\ f.step = "payload" => f.receiving /\ f.todo = << >>
  /\ \A i \in 1..Len(f.todo) :
       HasPayload(f.todo[i]) => i = Len(f.todo) /\ f.step = "handle"
  /\ InStep(f)

\* Frames begin one behind the other.
LEMMA BeginGrows ==
  /\ Count \in Nat
  /\ \A k \in 1..Count + 1 : Begin[k] \in Nat
  /\ \A j, k \in 1..Count + 1 : Begin[j] = Begin[k] => j = k
  /\ \A k \in 1..Count : k + 1 \in 1..Count + 1 /\ BodyEnd(k) \in Nat
                       /\ Begin[k] < BodyEnd(k) /\ BodyEnd(k) <= Begin[k + 1]
<1>0. /\ Count \in Nat /\ HeaderSize \in Nat /\ HeaderSize > 0
      /\ \A k \in 1..Count + 1 : Begin[k] \in Nat
      /\ \A k \in 1..Count : Service[k] \in Nat
  BY FramesAssumption
<1>1. ASSUME NEW j \in 1..Count, NEW k \in 1..Count + 1, j < k
      PROVE  Begin[j] < Begin[k]
  <2>1. Begin[j] + HeaderSize + Service[j] <= Begin[k]
    BY <1>1, FramesAssumption
  <2>2. j \in 1..Count + 1
    BY <1>0
  <2>3. Begin[j] \in Nat /\ Begin[k] \in Nat /\ Service[j] \in Nat
    BY <1>0, <2>2
  <2> QED
    BY <1>0, <2>1, <2>3
<1>2. ASSUME NEW j \in 1..Count + 1, NEW k \in 1..Count + 1, Begin[j] = Begin[k]
      PROVE  j = k
  <2>1. CASE j < k
    BY <1>0, <1>1, <1>2, <2>1
  <2>2. CASE k < j
    BY <1>0, <1>1, <1>2, <2>2
  <2> QED
    BY <1>0, <2>1, <2>2
<1>3. ASSUME NEW k \in 1..Count
      PROVE  /\ k + 1 \in 1..Count + 1 /\ BodyEnd(k) \in Nat
             /\ Begin[k] < BodyEnd(k) /\ BodyEnd(k) <= Begin[k + 1]
  <2>1. k + 1 \in 1..Count + 1 /\ k < k + 1
    BY <1>0
  <2>2. Begin[k] + HeaderSize + Service[k] <= Begin[k + 1]
    BY <2>1, FramesAssumption
  <2> QED
    BY <1>0, <2>1, <2>2 DEF BodyEnd
<1> QED
  BY <1>0, <1>2, <1>3

\* What InStep is about: a step of PumpIO that moves nothing keeps it.
LEMMA SameInStep ==
  ASSUME NEW f, NEW g, InStep(f),
         g.at = f.at, g.todo = f.todo, g.last = f.last, g.receiving = f.receiving,
         g.to = f.to, g.lost = f.lost
  PROVE  InStep(g)
  BY DEF InStep, Upcoming, Expected

LEMMA NewStreamInv == StreamInv(NewStream)
<1>1. NewStream \in Stream
  BY DEF NewStream, Stream, Steps
<1>2. InStep(NewStream)
  BY FramesAssumption DEF NewStream, InStep, Upcoming, Expected
<1> QED
  BY <1>1, <1>2 DEF StreamInv, NewStream

LEMMA DoReadInv ==
  ASSUME NEW f, StreamInv(f), f.step = "idle", NEW n \in Nat
  PROVE  StreamInv(DoRead(f, n))
<1> DEFINE g == DoRead(f, n)
<1>1. f \in Stream /\ f.todo = << >> /\ InStep(f) /\ f.at <= f.have
  BY DEF StreamInv
<1>5. g \in Stream
  <2>1. f.have + n \in Nat
    BY <1>1 DEF Stream
  <2> QED
    BY <1>1, <2>1 DEF DoRead, Stream, Steps
<1>2. /\ g.have = f.have + n
      /\ g.at = f.at /\ g.todo = f.todo /\ g.last = f.last /\ g.receiving = f.receiving
      /\ g.to = f.to /\ g.lost = f.lost
      /\ g.step = IF f.receiving THEN "payload" ELSE "frames"
  BY <1>1 DEF DoRead, Stream
<1>3. InStep(g)
  BY <1>1, <1>2, SameInStep
<1>4. g.at <= g.have
  BY <1>1, <1>2 DEF Stream
<1> QED
  BY <1>1, <1>2, <1>3, <1>4, <1>5 DEF StreamInv

LEMMA TakeFrameInv ==
  ASSUME NEW f, StreamInv(f), f.step = "frames", NEW k \in 1..Count, Begin[k] = f.at,
         BodyEnd(k) <= f.have
  PROVE  StreamInv(TakeFrame(f, k))
<1> DEFINE g == TakeFrame(f, k)
<1>1. /\ f \in Stream /\ ~f.receiving /\ f.todo \in Seq(1..Count)
      /\ \A i \in 1..Len(f.todo) : ~HasPayload(f.todo[i])
      /\ Len(f.todo) \in Nat /\ f.last \in Int
  BY DEF StreamInv, Stream
<1>2. BodyEnd(k) \in Nat
  BY BeginGrows
<1>4. /\ g.todo \in Seq(1..Count) /\ Len(g.todo) = Len(f.todo) + 1
      /\ \A i \in 1..Len(f.todo) : g.todo[i] = f.todo[i]
      /\ g.todo[Len(f.todo) + 1] = k
      /\ g.todo # << >>
  <2>1. g.todo = Append(f.todo, k)
    BY <1>1 DEF TakeFrame, Stream
  <2> QED
    <3>1. /\ Append(f.todo, k) \in Seq(1..Count) /\ Append(f.todo, k) # << >>
          /\ Len(Append(f.todo, k)) = Len(f.todo) + 1
          /\ \A i \in 1..Len(f.todo) : Append(f.todo, k)[i] = f.todo[i]
          /\ Append(f.todo, k)[Len(f.todo) + 1] = k
      BY <1>1, AppendProperties
    <3> QED
      BY <2>1, <3>1
<1>5. /\ g.at = BodyEnd(k) /\ g.have = f.have /\ g.last = f.last /\ g.lost = f.lost
      /\ g.receiving = f.receiving /\ g.to = f.to
      /\ g.step = IF HasPayload(k) THEN "handle" ELSE "frames"
  BY <1>1 DEF TakeFrame, Stream
<1>3. g \in Stream
  BY <1>1, <1>2, <1>4 DEF TakeFrame, Stream, Steps
<1>6. \A i \in 1..Len(g.todo) : HasPayload(g.todo[i]) => i = Len(g.todo) /\ g.step = "handle"
  BY <1>1, <1>4, <1>5
<1>7. InStep(g)
  <2> SUFFICES ASSUME ~f.lost PROVE InStep(g)
    BY <1>5 DEF InStep
  <2>1. /\ Upcoming(f) \in 1..Count + 1 /\ f.at = Expected(f)
        /\ \A i \in 1..Len(f.todo) : f.todo[i] = f.last + i
    BY <1>1 DEF StreamInv, InStep
  <2>2. f.todo # << >> => ~HasPayload(Upcoming(f) - 1)
    <3>1. f.todo # << >> => Len(f.todo) \in 1..Len(f.todo)
      BY <1>1
    <3>2. f.last + Len(f.todo) = Upcoming(f) - 1
      BY <1>1 DEF Upcoming
    <3> QED
      BY <1>1, <2>1, <3>1, <3>2
  <2>3. f.at = Begin[Upcoming(f)]
    BY <2>1, <2>2 DEF Expected
  <2>4. k = Upcoming(f)
    <3>1. k \in 1..Count + 1
      BY BeginGrows
    <3> QED
      BY <2>1, <2>3, <3>1, BeginGrows
  <2>5. Upcoming(g) = k + 1 /\ Upcoming(g) - 1 = k /\ k = f.last + Len(f.todo) + 1
    BY <1>1, <1>4, <1>5, <2>4 DEF Upcoming
  <2>6. \A i \in 1..Len(g.todo) : g.todo[i] = g.last + i
    <3> TAKE i \in 1..Len(g.todo)
    <3>1. CASE i \in 1..Len(f.todo)
      BY <1>4, <1>5, <2>1, <3>1
    <3>2. CASE i = Len(f.todo) + 1
      BY <1>1, <1>4, <1>5, <2>5, <3>2
    <3> QED
      BY <1>1, <1>4, <3>1, <3>2
  <2>7. g.at = Expected(g)
    <3>1. ~HasPayload(k) => BodyEnd(k) = Begin[k + 1]
      <4>1. k + 1 \in 1..Count + 1 /\ BodyEnd(k) \in Nat /\ BodyEnd(k) <= Begin[k + 1]
        BY BeginGrows
      <4>2. Begin[k + 1] \in Nat
        BY <4>1, BeginGrows
      <4> QED
        BY <4>1, <4>2 DEF HasPayload
    <3> QED
      BY <1>4, <1>5, <2>5, <3>1 DEF Expected
  <2>8. Upcoming(g) \in 1..Count + 1
    BY <2>5, BeginGrows
  <2> QED
    BY <1>1, <1>5, <2>6, <2>7, <2>8 DEF InStep
<1>8. g.at <= g.have
  BY <1>5
<1> QED
  BY <1>1, <1>3, <1>4, <1>5, <1>6, <1>7, <1>8 DEF StreamInv

LEMMA DropRestInv ==
  ASSUME NEW f, StreamInv(f), f.step = "frames"
  PROVE  StreamInv(DropRest(f))
<1> DEFINE g == DropRest(f)
<1>1. f \in Stream /\ InStep(f) /\ ~f.receiving /\ f.at \in Nat /\ f.have \in Nat
  BY DEF StreamInv, Stream
<1>2. /\ g \in Stream /\ g.at = f.have /\ g.have = f.have /\ g.todo = f.todo
      /\ g.last = f.last /\ g.receiving = f.receiving /\ g.to = f.to /\ g.step = "handle"
      /\ g.lost = (f.lost \/ f.at # f.have)
  BY <1>1 DEF DropRest, Stream, Steps
<1>3. InStep(g)
  <2>1. CASE g.lost
    BY <2>1 DEF InStep
  <2>2. CASE ~g.lost
    <3>1. g.at = f.at /\ g.lost = f.lost
      BY <1>1, <1>2, <2>2 DEF Stream
    <3> QED
      BY <1>1, <1>2, <3>1, SameInStep
  <2> QED
    BY <2>1, <2>2
<1>4. \A i \in 1..Len(g.todo) : HasPayload(g.todo[i]) => i = Len(g.todo) /\ g.step = "handle"
  BY <1>2 DEF StreamInv
<1>5. g.at <= g.have
  BY <1>1, <1>2
<1> QED
  BY <1>1, <1>2, <1>3, <1>4, <1>5 DEF StreamInv

\* A read that ends within a header of the peer (1 to HeaderSize - 1 bytes of it
\* were read) is the one case that InStep excludes: its bytes are dropped.
LEMMA SplitHeaderIsLost ==
  ASSUME NEW f, StreamInv(f), f.step = "frames", f.at < f.have, f.have - f.at < HeaderSize
  PROVE  \A g \in ReadFrames(f) : g.lost /\ g.at = g.have
<1>1. f \in Stream /\ f.at \in Nat /\ f.have \in Nat
  BY DEF StreamInv, Stream
<1>2. ReadFrames(f) = {DropRest(f)}
  BY DEF ReadFrames
<1>3. DropRest(f).at = f.have /\ DropRest(f).have = f.have
  BY <1>1 DEF DropRest, Stream
<1>4. f.at # f.have /\ f.lost \in BOOLEAN
  BY <1>1 DEF Stream
<1>5. DropRest(f).lost
  BY <1>1, <1>4 DEF DropRest, Stream
<1> QED
  BY <1>2, <1>3, <1>5

LEMMA KeepFrameInv ==
  ASSUME NEW f, StreamInv(f), f.step = "frames"
  PROVE  StreamInv(KeepFrame(f))
<1> DEFINE g == KeepFrame(f)
<1>1. f \in Stream /\ InStep(f) /\ ~f.receiving /\ f.at <= f.have
  BY DEF StreamInv
<1>2. /\ g \in Stream /\ g.at = f.at /\ g.have = f.have /\ g.todo = f.todo
      /\ g.last = f.last /\ g.receiving = f.receiving /\ g.to = f.to /\ g.step = "handle"
      /\ g.lost = f.lost
  BY <1>1 DEF KeepFrame, Stream, Steps
<1>3. InStep(g)
  BY <1>1, <1>2, SameInStep
<1>4. \A i \in 1..Len(g.todo) : HasPayload(g.todo[i]) => i = Len(g.todo) /\ g.step = "handle"
  BY <1>2 DEF StreamInv
<1> QED
  BY <1>1, <1>2, <1>3, <1>4 DEF StreamInv

LEMMA ReadFramesInv ==
  ASSUME NEW f, StreamInv(f), f.step = "frames", NEW g \in ReadFrames(f)
  PROVE  StreamInv(g)
<1>1. CASE f.have - f.at < HeaderSize
  <2>1. g = DropRest(f)
    BY <1>1 DEF ReadFrames
  <2> QED
    BY <2>1, DropRestInv
<1>2. CASE ~(f.have - f.at < HeaderSize)
  <2>1. PICK k \in 1..Count : /\ Begin[k] = f.at
                              /\ g = IF BodyEnd(k) <= f.have THEN TakeFrame(f, k) ELSE KeepFrame(f)
    BY <1>2 DEF ReadFrames
  <2>2. CASE BodyEnd(k) <= f.have
    BY <2>1, <2>2, TakeFrameInv
  <2>3. CASE ~(BodyEnd(k) <= f.have)
    BY <2>1, <2>3, KeepFrameInv
  <2> QED
    BY <2>2, <2>3
<1> QED
  BY <1>1, <1>2

LEMMA HandleFrameInv ==
  ASSUME NEW f, StreamInv(f), f.step = "handle", f.todo # << >>
  PROVE  StreamInv(HandleFrame(f))
<1> DEFINE g == HandleFrame(f)
           k == Head(f.todo)
<1>1. /\ f \in Stream /\ f.receiving = FALSE /\ f.todo \in Seq(1..Count)
      /\ f.last \in Int /\ f.at \in Nat /\ f.have \in Nat /\ f.at <= f.have
  BY DEF StreamInv, Stream
<1>2. /\ Len(f.todo) \in Nat /\ Len(f.todo) > 0 /\ k = f.todo[1] /\ k \in 1..Count
      /\ Tail(f.todo) \in Seq(1..Count) /\ Len(Tail(f.todo)) = Len(f.todo) - 1
      /\ \A i \in 1..Len(Tail(f.todo)) : Tail(f.todo)[i] = f.todo[i + 1]
  <2>1. /\ Tail(f.todo) \in Seq(1..Count) /\ Len(Tail(f.todo)) = Len(f.todo) - 1
        /\ \A i \in 1..Len(Tail(f.todo)) : Tail(f.todo)[i] = f.todo[i + 1]
        /\ k \in 1..Count
    BY <1>1, HeadTailProperties
  <2>2. Len(f.todo) \in Nat /\ Len(f.todo) > 0 /\ k = f.todo[1]
    BY <1>1
  <2> QED
    BY <2>1, <2>2
<1>3. \A i \in 1..Len(f.todo) : HasPayload(f.todo[i]) => i = Len(f.todo)
  BY DEF StreamInv
<1>4. HasPayload(k) => Len(f.todo) = 1 /\ Tail(f.todo) = << >>
  <2>1. 1 \in 1..Len(f.todo)
    BY <1>2
  <2>2. HasPayload(k) => Len(f.todo) = 1
    BY <1>2, <1>3, <2>1
  <2>3. HasPayload(k) => Len(Tail(f.todo)) = 0
    BY <1>2, <2>2
  <2> QED
    BY <1>2, <2>2, <2>3, EmptySeq
<1>5. \A i \in 1..Len(Tail(f.todo)) : HasPayload(Tail(f.todo)[i]) => i = Len(Tail(f.todo))
  <2> TAKE i \in 1..Len(Tail(f.todo))
  <2>1. i + 1 \in 1..Len(f.todo) /\ Tail(f.todo)[i] = f.todo[i + 1]
    BY <1>2
  <2> QED
    BY <1>2, <1>3, <2>1
<1>6. f.lost \/ /\ Upcoming(f) \in 1..Count + 1 /\ f.at = Expected(f)
                /\ k = f.last + 1 /\ Upcoming(f) = k + Len(Tail(f.todo)) + 1
                /\ \A i \in 1..Len(Tail(f.todo)) : Tail(f.todo)[i] = k + i
  <2> SUFFICES ASSUME ~f.lost
               PROVE  /\ Upcoming(f) \in 1..Count + 1 /\ f.at = Expected(f)
                      /\ k = f.last + 1 /\ Upcoming(f) = k + Len(Tail(f.todo)) + 1
                      /\ \A i \in 1..Len(Tail(f.todo)) : Tail(f.todo)[i] = k + i
    OBVIOUS
  <2>1. /\ Upcoming(f) \in 1..Count + 1 /\ f.at = Expected(f)
        /\ \A i \in 1..Len(f.todo) : f.todo[i] = f.last + i
    BY <1>1 DEF StreamInv, InStep
  <2>2. k = f.last + 1
    <3>1. 1 \in 1..Len(f.todo)
      BY <1>2
    <3> QED
      BY <1>2, <2>1, <3>1
  <2>3. \A i \in 1..Len(Tail(f.todo)) : Tail(f.todo)[i] = k + i
    <3> TAKE i \in 1..Len(Tail(f.todo))
    <3>1. i + 1 \in 1..Len(f.todo) /\ Tail(f.todo)[i] = f.todo[i + 1]
      BY <1>2
    <3>2. f.todo[i + 1] = f.last + (i + 1)
      BY <2>1, <3>1
    <3>3. f.last \in Int /\ i \in Nat
      BY <1>1
    <3> HIDE DEF k
    <3> QED
      BY <2>2, <3>1, <3>2, <3>3
  <2>4. Upcoming(f) = k + Len(Tail(f.todo)) + 1
    <3>1. f.last \in Int /\ Len(f.todo) \in Nat /\ Len(Tail(f.todo)) = Len(f.todo) - 1
      BY <1>1, <1>2
    <3> HIDE DEF k
    <3> QED
      BY <2>2, <3>1 DEF Upcoming
  <2> QED
    BY <2>1, <2>2, <2>3, <2>4
<1>7. CASE HasPayload(k)
  <2>1. /\ g.todo = << >> /\ g.last = k /\ g.at = f.at /\ g.have = f.have /\ g.lost = f.lost
        /\ g.receiving = TRUE /\ g.step = "payload"
        /\ g.to = f.at + (Begin[k + 1] - BodyEnd(k))
    BY <1>1, <1>4, <1>7 DEF HandleFrame, Stream
  <2>2. /\ Begin[k + 1] \in Nat /\ BodyEnd(k) \in Nat /\ BodyEnd(k) < Begin[k + 1]
    BY <1>2, <1>7, BeginGrows DEF HasPayload
  <2>3. g \in Stream
    <3>1. f.at + (Begin[k + 1] - BodyEnd(k)) \in Nat
      BY <1>1, <2>2
    <3>2. k \in Int
      BY <1>2
    <3>3. g = [f EXCEPT !.todo = Tail(f.todo), !.last = k, !.receiving = TRUE,
                        !.to = f.at + (Begin[k + 1] - BodyEnd(k)), !.step = "payload"]
      BY <1>1, <1>7 DEF HandleFrame, Stream
    <3> HIDE DEF g, k
    <3> QED
      BY <1>1, <1>2, <3>1, <3>2, <3>3 DEF Stream, Steps
  <2>4. InStep(g)
    <3> SUFFICES ASSUME ~f.lost PROVE InStep(g)
      BY <2>1 DEF InStep
    <3>1. Len(Tail(f.todo)) = 0
      BY <1>2, <1>4, <1>7
    <3>2. Upcoming(f) = k + 1 /\ Upcoming(f) - 1 = k
      BY <1>2, <1>6, <3>1
    <3>3. f.at = BodyEnd(k)
      BY <1>6, <1>7, <3>2 DEF Expected
    <3>4. Upcoming(g) = k + 1
      BY <1>2, <2>1 DEF Upcoming
    <3>5. g.to = Begin[k + 1] /\ g.at <= g.to
      BY <2>1, <2>2, <3>3
    <3> QED
      BY <1>6, <2>1, <3>2, <3>4, <3>5 DEF InStep
  <2> QED
    BY <1>1, <2>1, <2>3, <2>4 DEF StreamInv
<1>8. CASE ~HasPayload(k)
  <2>1. /\ g.todo = Tail(f.todo) /\ g.last = k /\ g.at = f.at /\ g.have = f.have
        /\ g.lost = f.lost /\ g.receiving = FALSE /\ g.step = "handle" /\ g.to = f.to
    BY <1>1, <1>8 DEF HandleFrame, Stream
  <2>2. g \in Stream
    <3>1. k \in Int
      BY <1>2
    <3>2. g = [f EXCEPT !.todo = Tail(f.todo), !.last = k]
      BY <1>1, <1>8 DEF HandleFrame, Stream
    <3> HIDE DEF g, k
    <3> QED
      BY <1>1, <1>2, <3>1, <3>2 DEF Stream, Steps
  <2>3. InStep(g)
    <3> SUFFICES ASSUME ~f.lost PROVE InStep(g)
      BY <2>1 DEF InStep
    <3>1. Upcoming(g) = Upcoming(f)
      BY <1>2, <1>6, <2>1 DEF Upcoming
    <3>2. Tail(f.todo) = << >> => Upcoming(f) - 1 = k
      <4>1. Tail(f.todo) = << >> => Len(Tail(f.todo)) = 0
        BY <1>2, EmptySeq
      <4> QED
        BY <1>2, <1>6, <4>1
    <3>3. Expected(g) = Expected(f)
      <4>1. CASE Tail(f.todo) = << >>
        BY <1>8, <2>1, <3>1, <3>2, <4>1 DEF Expected
      <4>2. CASE Tail(f.todo) # << >>
        BY <2>1, <3>1, <4>2 DEF Expected
      <4> QED
        BY <4>1, <4>2
    <3> QED
      BY <1>6, <2>1, <3>1, <3>3 DEF InStep
  <2> QED
    BY <1>1, <1>5, <2>1, <2>2, <2>3 DEF StreamInv
<1> QED
  BY <1>7, <1>8

LEMMA EndProcessingInv ==
  ASSUME NEW f, StreamInv(f), f.step = "handle", f.todo = << >>
  PROVE  StreamInv(EndProcessing(f))
<1> DEFINE g == EndProcessing(f)
<1>1. f \in Stream /\ InStep(f) /\ f.at <= f.have
  BY DEF StreamInv
<1>2. /\ g \in Stream /\ g.at = f.at /\ g.have = f.have /\ g.todo = << >>
      /\ g.last = f.last /\ g.receiving = f.receiving /\ g.to = f.to /\ g.step = "idle"
      /\ g.lost = f.lost
  BY <1>1 DEF EndProcessing, Stream, Steps
<1>3. InStep(g)
  BY <1>1, <1>2, SameInStep
<1> QED
  BY <1>1, <1>2, <1>3 DEF StreamInv

LEMMA ReceivePendingDataInv ==
  ASSUME NEW f, StreamInv(f), f.step = "payload"
  PROVE  StreamInv(ReceivePendingData(f))
<1> DEFINE g == ReceivePendingData(f)
<1>1. /\ f \in Stream /\ InStep(f) /\ f.receiving = TRUE /\ f.at \in Nat /\ f.have \in Nat
      /\ f.to \in Nat /\ f.at <= f.have /\ f.todo \in Seq(1..Count)
      /\ \A i \in 1..Len(f.todo) : ~HasPayload(f.todo[i])
  BY DEF StreamInv, Stream
<1>2. ~f.lost => /\ f.todo = << >> /\ f.at <= f.to /\ f.to = Begin[Upcoming(f)]
                 /\ Upcoming(f) \in 1..Count + 1
  BY <1>1 DEF InStep
<1>3. /\ g.todo = f.todo /\ g.last = f.last /\ g.have = f.have /\ g.to = f.to /\ g.lost = f.lost
      /\ g \in Stream
  BY <1>1 DEF ReceivePendingData, Stream, Steps
<1>4. CASE f.have < f.to
  <2>1. g.at = f.have /\ g.step = "idle" /\ g.receiving = TRUE
    BY <1>1, <1>4 DEF ReceivePendingData, Stream
  <2> QED
    BY <1>1, <1>2, <1>3, <1>4, <2>1 DEF StreamInv, InStep, Upcoming
<1>5. CASE ~(f.have < f.to)
  <2>1. g.at = f.to /\ g.step = "frames" /\ g.receiving = FALSE
    BY <1>1, <1>5 DEF ReceivePendingData, Stream
  <2>2. InStep(g)
    BY <1>2, <1>3, <2>1 DEF InStep, Upcoming, Expected
  <2> QED
    BY <1>1, <1>3, <1>5, <2>1, <2>2 DEF StreamInv
<1> QED
  BY <1>4, <1>5

\* One step of PumpIO for the bytes that were read.
LEMMA ServeInv ==
  ASSUME NEW f, StreamInv(f), NEW g \in Serve(f)
  PROVE  StreamInv(g)
<1>0. f.step \in Steps
  BY DEF StreamInv, Stream
<1>1. CASE f.step = "frames"
  BY <1>1, ReadFramesInv DEF Serve
<1>2. CASE f.step = "handle" /\ f.todo # << >>
  BY <1>2, HandleFrameInv DEF Serve
<1>3. CASE f.step = "handle" /\ f.todo = << >>
  BY <1>3, EndProcessingInv DEF Serve
<1>4. CASE f.step = "payload"
  BY <1>4, ReceivePendingDataInv DEF Serve
<1>5. CASE f.step = "idle"
  BY <1>5 DEF Serve
<1> QED
  BY <1>0, <1>1, <1>2, <1>3, <1>4, <1>5 DEF Steps
-----------------------------------------------------------------------------
(* The connections of Peers *)

\* Every connection has a stream, from the beginning.
StreamsInv ==
  /\ DOMAIN conns = Conns
  /\ \A c \in Conns : "in" \in DOMAIN conns[c] /\ StreamInv(conns[c].in)

\* A connection that is not made, or that was removed, has read nothing.
LEMMA NoConnectionInv ==
  ASSUME NEW e, NEW out, NEW s
  PROVE  /\ NewConnection(e, out).in = NewStream /\ "in" \in DOMAIN NewConnection(e, out)
         /\ NoConnection(s).in = NewStream /\ "in" \in DOMAIN NoConnection(s)
  BY DEF NewConnection, NoConnection

\* Close keeps the stream: what was decoded is still handled.
LEMMA ClosedInv ==
  ASSUME StreamsInv, NEW c \in Conns, NEW byPause
  PROVE  Closed(c, byPause).in = conns[c].in /\ "in" \in DOMAIN Closed(c, byPause)
  BY DEF StreamsInv, Closed

\* What the steps do that replace one connection and leave the others
LEMMA ReplacedInv ==
  ASSUME StreamsInv, NEW c, NEW k, conns' = [conns EXCEPT ![c] = k],
         "in" \in DOMAIN k, StreamInv(k.in)
  PROVE  StreamsInv'
  BY DEF StreamsInv

\* ... or the stream of one
LEMMA MovedInv ==
  ASSUME StreamsInv, NEW c \in Conns, NEW f, conns' = [conns EXCEPT ![c].in = f], StreamInv(f)
  PROVE  StreamsInv'
<1>1. conns' = [conns EXCEPT ![c] = [conns[c] EXCEPT !.in = f]]
  BY DEF StreamsInv
<1>2. "in" \in DOMAIN [conns[c] EXCEPT !.in = f] /\ [conns[c] EXCEPT !.in = f].in = f
  BY DEF StreamsInv
<1> QED
  BY <1>1, <1>2, ReplacedInv

\* The only steps that read or handle frames are Read and ProcessIncoming.
LEMMA NextStreams ==
  ASSUME StreamsInv, [Next]_vars
  PROVE  StreamsInv'
<1>1. ASSUME UNCHANGED conns PROVE StreamsInv'
  BY <1>1 DEF StreamsInv
<1>2. ASSUME NEW late \in SUBSET Conns, NEW byPause,
             conns' = [c \in Conns |-> IF c \in late THEN Closed(c, byPause) ELSE conns[c]]
      PROVE  StreamsInv'
  BY <1>2, ClosedInv DEF StreamsInv
<1>3. CASE UNCHANGED vars
  BY <1>1, <1>3 DEF vars
<1>4. CASE \E e \in Endpoints : Add(e) \/ Accept(e)
  <2>1. CASE \E e \in Endpoints : Add(e)
    BY <1>1, <2>1 DEF Add
  <2>2. CASE \E e \in Endpoints : Accept(e)
    <3>1. PICK e \in Endpoints : conns' = [conns EXCEPT ![Min(Unused)] = NewConnection(e, FALSE)]
      BY <2>2 DEF Accept
    <3>2. "in" \in DOMAIN NewConnection(e, FALSE) /\ NewConnection(e, FALSE).in = NewStream
      BY NoConnectionInv
    <3> QED
      BY <3>1, <3>2, ReplacedInv, NewStreamInv
  <2> QED
    BY <1>4, <2>1, <2>2
<1>5. CASE PauseWithDisconnect
  <2>1. conns' = [c \in Conns |-> IF c \in transfer \cap Conns THEN Closed(c, TRUE) ELSE conns[c]]
    BY <1>5 DEF PauseWithDisconnect
  <2> QED
    BY <1>2, <2>1
<1>6. CASE ResumeWithState
  BY <1>1, <1>6 DEF ResumeWithState
<1>7. ASSUME NEW c \in Conns, Turn(c), NEW byPause, HandleDisconnect(c, byPause)
      PROVE  StreamsInv'
  BY <1>7, ReplacedInv, NoConnectionInv, NewStreamInv DEF HandleDisconnect
<1>8. ASSUME NEW c \in Conns, NEW n \in 1..MaxRead, Read(c, n)
      PROVE  StreamsInv'
  <2>1. StreamInv(conns[c].in) /\ conns[c].in.step = "idle" /\ n \in Nat
    BY <1>8 DEF StreamsInv, Read, Turn
  <2>2. StreamInv(DoRead(conns[c].in, n))
    BY <2>1, DoReadInv
  <2>3. conns' = [conns EXCEPT ![c].in = DoRead(conns[c].in, n)]
    BY <1>8 DEF Read, StreamsInv
  <2> QED
    BY <2>2, <2>3, MovedInv
<1>9. ASSUME NEW c \in Conns, ProcessIncoming(c)
      PROVE  StreamsInv'
  <2>1. PICK f \in Serve(conns[c].in) : conns' = [conns EXCEPT ![c].in = f]
    BY <1>9 DEF ProcessIncoming
  <2>2. StreamInv(f)
    BY <2>1, ServeInv DEF StreamsInv
  <2> QED
    BY <2>1, <2>2, MovedInv
<1>10. ASSUME NEW c \in Conns, Attach(c)
       PROVE  StreamsInv'
  <2>1. \/ UNCHANGED conns
        \/ conns' = [conns EXCEPT ![c] = NoConnection("gone")]
        \/ \E ptr : conns' = [conns EXCEPT ![c].of = TRUE, ![c].peer = ptr]
    BY <1>10 DEF Attach
  <2>2. CASE conns' = [conns EXCEPT ![c] = NoConnection("gone")]
    BY <2>2, ReplacedInv, NoConnectionInv, NewStreamInv
  <2>3. ASSUME NEW ptr, conns' = [conns EXCEPT ![c].of = TRUE, ![c].peer = ptr]
        PROVE  StreamsInv'
    <3> DEFINE k == [conns[c] EXCEPT !.of = TRUE, !.peer = ptr]
    <3>1. conns' = [conns EXCEPT ![c] = k]
      BY <2>3 DEF StreamsInv
    <3>2. "in" \in DOMAIN k /\ k.in = conns[c].in
      BY DEF StreamsInv
    <3>3. StreamInv(k.in)
      BY <3>2 DEF StreamsInv
    <3> QED
      BY <3>1, <3>2, <3>3, ReplacedInv
  <2> QED
    BY <1>1, <2>1, <2>2, <2>3
<1>11. CASE StartTick \/ FindConnectCandidate \/ Dialed \/ \E c \in Conns : Stay(c)
  BY <1>1, <1>11 DEF StartTick, FindConnectCandidate, Dialed, Stay
<1>12. CASE TickTransfer
  <2>1. PICK late \in SUBSET {c \in transfer : conns[c].state = "open"} :
          conns' = [c \in Conns |-> IF c \in late THEN Closed(c, FALSE) ELSE conns[c]]
    BY <1>12 DEF TickTransfer
  <2>2. conns' = [c \in Conns |-> IF c \in late \cap Conns THEN Closed(c, FALSE) ELSE conns[c]]
    BY <2>1
  <2> QED
    BY <1>2, <2>2
<1>13. CASE ConnectToPeer
  <2> DEFINE k == [NewConnection(At(policy, tick.peer).ep, TRUE) EXCEPT !.peer = tick.peer]
  <2>1. conns' = [conns EXCEPT ![Min(Unused)] = k]
    BY <1>13 DEF ConnectToPeer
  <2>2. "in" \in DOMAIN k /\ k.in = NewStream
    BY DEF NewConnection
  <2> QED
    BY <2>1, <2>2, ReplacedInv, NewStreamInv
<1>14. CASE DialFailed
  <2>1. conns' = [conns EXCEPT ![tick.conn] = Closed(tick.conn, FALSE)]
    BY <1>14 DEF DialFailed
  <2>2. CASE tick.conn \in Conns
    BY <2>1, <2>2, ReplacedInv, ClosedInv DEF StreamsInv
  <2>3. CASE tick.conn \notin Conns
    BY <2>1, <2>3 DEF StreamsInv
  <2> QED
    BY <2>2, <2>3
<1>15. CASE \E c \in Conns : Disconnect(c) \/ Fail(c)
  BY <1>7, <1>15 DEF Disconnect, Fail
<1> QED
  BY <1>3, <1>4, <1>5, <1>6, <1>8, <1>9, <1>10, <1>11, <1>12, <1>13, <1>14, <1>15 DEF Next, Tick

\* For every number of peers and connections, every stream of frames and every
\* way to read it: frames are decoded and handled in the order in which they
\* were sent, each with the file data behind it, up to a split header.
THEOREM FramesAreInOrder == Spec => []FramesInOrder
<1>1. Init => StreamsInv
  <2> SUFFICES ASSUME Init PROVE StreamsInv
    OBVIOUS
  <2>1. conns = [c \in Conns |-> NoConnection("new")]
    BY DEF Init
  <2> QED
    BY <2>1, NoConnectionInv, NewStreamInv DEF StreamsInv
<1>2. StreamsInv /\ [Next]_vars => StreamsInv'
  BY NextStreams
<1>3. StreamsInv => FramesInOrder
  BY DEF StreamsInv, StreamInv, FramesInOrder
<1> QED
  BY <1>1, <1>2, <1>3, PTL DEF Spec

-----------------------------------------------------------------------------
(* The lists of connections                                                *)

Alive == {"open", "closing"}

\* What the lists need to know of a connection
Listed(k) == {"state", "of"} \subseteq DOMAIN k
AliveSet == {c \in Conns : conns[c].state \in Alive}

\* Not inductive: ListsAgree does not say that a connection of the transfer's
\* list has it as its transfer, so that its end takes it out of that list; nor
\* that a free connection is left for a candidate that was found.
ListsInv ==
  /\ DOMAIN conns = Conns /\ \A c \in Conns : Listed(conns[c])
  /\ transfer \subseteq session /\ session = AliveSet
  /\ \A c \in transfer : conns[c].of
  /\ "at" \in DOMAIN tick
  /\ tick.at = "found" => Unused # {}

\* A set of numbers has a least one, if any.
LEMMA LeastOf ==
  ASSUME NEW F, F \subseteq Nat, F # {}
  PROVE  Min(F) \in F
<1>1. \E c \in F : \A d \in F : c <= d
  <2>1. PICK c \in F : \A d \in F : <<d, c>> \notin OpToRel(<, Nat)
    BY NatLessThanWellFounded, WFMin
  <2>2. \A d \in F : ~(d < c)
    BY <2>1 DEF OpToRel
  <2> QED BY <2>2
<1> QED BY <1>1 DEF Min

\* Connections are made in the order of their numbers: the least that is unused.
LEMMA LeastUnused ==
  ASSUME Unused # {}
  PROVE  Min(Unused) \in Unused
<1>1. Unused \subseteq Nat
  BY PeerPolicyAssumption DEF Unused
<1> QED BY <1>1, LeastOf

\* Close: a connection stays in its lists until its end is handled.
LEMMA ClosedLists ==
  ASSUME NEW c \in Conns, Listed(conns[c]), NEW byPause
  PROVE  /\ Listed(Closed(c, byPause)) /\ Closed(c, byPause).of = conns[c].of
         /\ Closed(c, byPause).state \in Alive <=> conns[c].state \in Alive
         /\ Closed(c, byPause).state = "new" <=> conns[c].state = "new"
  BY DEF Listed, Closed, Alive

\* A new connection, and one that ended
LEMMA MadeLists ==
  ASSUME NEW e, NEW out, NEW s
  PROVE  /\ Listed(NewConnection(e, out)) /\ NewConnection(e, out).state = "open"
         /\ NewConnection(e, out).of = out
         /\ Listed(NoConnection(s)) /\ NoConnection(s).state = s
  BY DEF Listed, NewConnection, NoConnection

\* A step that leaves of each connection what its lists need
Unchanging ==
  /\ DOMAIN conns' = Conns
  /\ \A c \in Conns : /\ Listed(conns'[c]) /\ conns'[c].of = conns[c].of
                      /\ conns'[c].state \in Alive <=> conns[c].state \in Alive
                      /\ conns'[c].state = "new" <=> conns[c].state = "new"
LEMMA UnchangingLists ==
  ASSUME ListsInv, Unchanging, session' = session, transfer' \subseteq transfer,
         "at" \in DOMAIN tick', tick'.at = "found" => Unused # {}
  PROVE  ListsInv'
<1>1. Unused' = Unused /\ AliveSet' = AliveSet
  BY DEF Unchanging, Unused, AliveSet
<1>2. \A c \in transfer' : c \in Conns /\ conns'[c].of
  BY DEF ListsInv, Unchanging, AliveSet
<1> QED BY <1>1, <1>2 DEF ListsInv, Unchanging

LEMMA SameConns ==
  ASSUME ListsInv, UNCHANGED conns PROVE Unchanging
  BY DEF ListsInv, Unchanging

\* The step that makes a connection: it is put into the lists at once.
LEMMA MakesLists ==
  ASSUME ListsInv, NEW c \in Unused, NEW k, Listed(k), k.state = "open",
         conns' = [conns EXCEPT ![c] = k], session' = session \cup {c},
         transfer' = transfer \/ (transfer' = transfer \cup {c} /\ k.of),
         "at" \in DOMAIN tick', tick'.at # "found"
  PROVE  ListsInv'
<1>1. DOMAIN conns' = Conns /\ conns'[c] = k /\ c \in Conns
      /\ \A d \in Conns \ {c} : conns'[d] = conns[d]
  BY DEF ListsInv, Unused
<1>2. AliveSet' = AliveSet \cup {c}
  BY <1>1 DEF AliveSet, Alive
<1>3. \A d \in transfer : d \in Conns /\ d # c /\ conns[d].of
  BY DEF ListsInv, AliveSet, Alive, Unused
<1>4. \A d \in transfer' : conns'[d].of
  <2>1. CASE transfer' = transfer
    BY <1>1, <1>3, <2>1
  <2>2. CASE transfer' = transfer \cup {c} /\ k.of
    BY <1>1, <1>3, <2>2
  <2> QED BY <2>1, <2>2
<1>5. \A d \in Conns : Listed(conns'[d])
  BY <1>1 DEF ListsInv
<1> QED BY <1>1, <1>2, <1>4, <1>5 DEF ListsInv

\* The step that ends a connection: it is in no list then.
LEMMA EndsLists ==
  ASSUME ListsInv, NEW c \in Conns, conns' = [conns EXCEPT ![c] = NoConnection("gone")],
         session' = session \ {c}, transfer' = transfer \ {c} \/ (transfer' = transfer /\ ~conns[c].of),
         "at" \in DOMAIN tick', tick'.at # "found"
  PROVE  ListsInv'
<1> DEFINE k == NoConnection("gone")
<1>0. Listed(k) /\ k.state = "gone"
  BY MadeLists
<1> HIDE DEF k
<1>1. DOMAIN conns' = Conns /\ conns'[c] = k /\ \A d \in Conns \ {c} : conns'[d] = conns[d]
  BY DEF ListsInv, k
<1>2. AliveSet' = AliveSet \ {c}
  BY <1>0, <1>1 DEF AliveSet, Alive
<1>3. \A d \in transfer' : d \in transfer /\ d # c /\ d \in Conns
  BY DEF ListsInv, AliveSet
<1>4. \A d \in transfer' : conns'[d].of
  BY <1>1, <1>3 DEF ListsInv
<1>5. \A d \in Conns : Listed(conns'[d])
  BY <1>0, <1>1 DEF ListsInv
<1>6. transfer' \subseteq session'
  BY <1>3 DEF ListsInv
<1> QED BY <1>1, <1>2, <1>4, <1>5, <1>6 DEF ListsInv

\* One step per action.
LEMMA NextLists ==
  ASSUME ListsInv, [Next]_vars
  PROVE  ListsInv'
<1>1. CASE UNCHANGED vars
  BY <1>1, SameConns, UnchangingLists DEF vars, ListsInv, Unused
<1>2. ASSUME NEW e \in Endpoints, Add(e) PROVE ListsInv'
  <2>1. UNCHANGED <<conns, session, transfer, pause, tick>>
    BY <1>2 DEF Add
  <2> QED BY <2>1, SameConns, UnchangingLists DEF ListsInv
<1>3. ASSUME NEW e \in Endpoints, Accept(e) PROVE ListsInv'
  <2> DEFINE c == Min(Unused)
             k == NewConnection(e, FALSE)
  <2>1. /\ c \in Unused /\ UNCHANGED <<transfer, tick>> /\ tick.at = "idle"
        /\ conns' = [conns EXCEPT ![c] = k] /\ session' = session \cup {c}
    BY <1>3, LeastUnused DEF Accept
  <2>2. Listed(k) /\ k.state = "open"
    BY MadeLists
  <2>3. "at" \in DOMAIN tick' /\ tick'.at # "found" /\ transfer' = transfer
    BY <2>1 DEF ListsInv
  <2> HIDE DEF c, k
  <2> QED BY <2>1, <2>2, <2>3, MakesLists
<1>4. ASSUME NEW S \in SUBSET Conns, NEW byPause,
             conns' = [c \in Conns |-> IF c \in S THEN Closed(c, byPause) ELSE conns[c]]
      PROVE  Unchanging
  BY <1>4, ClosedLists DEF Unchanging, ListsInv
<1>5. CASE PauseWithDisconnect
  <2>1. transfer \in SUBSET Conns
    BY DEF ListsInv, AliveSet
  <2>2. Unchanging
    BY <1>4, <1>5, <2>1 DEF PauseWithDisconnect
  <2>3. UNCHANGED <<session, tick>> /\ transfer' \subseteq transfer
    BY <1>5 DEF PauseWithDisconnect
  <2> QED BY <2>2, <2>3, UnchangingLists DEF ListsInv
<1>6. CASE ResumeWithState
  <2>1. UNCHANGED <<conns, session, transfer, tick>>
    BY <1>6 DEF ResumeWithState
  <2> QED BY <2>1, SameConns, UnchangingLists DEF ListsInv
<1>7. CASE StartTick
  <2>1. UNCHANGED <<conns, session, transfer>> /\ "at" \in DOMAIN tick' /\ tick'.at = "pump"
    BY <1>7 DEF StartTick, Idle
  <2> QED BY <2>1, SameConns, UnchangingLists
<1>8. CASE TickTransfer
  <2>1. PICK late \in SUBSET {c \in transfer : conns[c].state = "open"} :
          conns' = [c \in Conns |-> IF c \in late THEN Closed(c, FALSE) ELSE conns[c]]
    BY <1>8 DEF TickTransfer
  <2>2. late \in SUBSET Conns
    BY DEF ListsInv, AliveSet
  <2>3. Unchanging
    BY <1>4, <2>1, <2>2
  <2>4. "at" \in DOMAIN tick' /\ tick'.at # "found" /\ UNCHANGED <<session, transfer>>
    BY <1>8 DEF TickTransfer, Idle
  <2> QED BY <2>3, <2>4, UnchangingLists
<1>9. ASSUME NEW b PROVE EndStep(b) => "at" \in DOMAIN tick' /\ tick'.at # "found"
  BY DEF EndStep, Idle
<1>10. CASE FindConnectCandidate
  <2>0. UNCHANGED <<policy, panicked, conns, session, transfer, pause, left>>
    BY <1>10, Zenon DEF FindConnectCandidate
  <2>1. UNCHANGED <<conns, session, transfer>>
    BY <2>0
  <2>2. "at" \in DOMAIN tick' /\ (tick'.at = "found" => Unused # {})
    <3>1. \/ Unused # {} /\ \E i \in Candidates(policy) :
                tick' = [tick EXCEPT !.at = "found", !.peer = <<policy.live, i>>]
          \/ EndStep(FALSE)
          \/ tick' = Idle
      BY <1>10, Zenon DEF FindConnectCandidate
    <3>2. "at" \in DOMAIN tick
      BY DEF ListsInv
    <3>3. CASE tick' = Idle
      BY <3>3 DEF Idle
    <3>4. CASE Unused # {} /\ \E i \in Candidates(policy) :
                 tick' = [tick EXCEPT !.at = "found", !.peer = <<policy.live, i>>]
      BY <3>2, <3>4
    <3>5. CASE EndStep(FALSE)
      BY <1>9, <3>5
    <3> QED BY <3>1, <3>3, <3>4, <3>5
  <2> QED BY <2>1, <2>2, SameConns, UnchangingLists
<1>11. CASE ConnectToPeer
  <2> DEFINE ptr == tick.peer
             k == [NewConnection(At(policy, ptr).ep, TRUE) EXCEPT !.peer = ptr]
  <2>1. Unused # {}
    BY <1>11 DEF ConnectToPeer, ListsInv
  <2>2. Min(Unused) \in Unused
    BY <2>1, LeastUnused
  <2>3. /\ conns' = [conns EXCEPT ![Min(Unused)] = k]
        /\ session' = session \cup {Min(Unused)} /\ transfer' = transfer \cup {Min(Unused)}
        /\ tick' = [tick EXCEPT !.at = "dialing", !.conn = Min(Unused)]
    BY <1>11 DEF ConnectToPeer
  <2>4. Listed(k) /\ k.state = "open" /\ k.of
    BY DEF Listed, NewConnection
  <2>5. "at" \in DOMAIN tick' /\ tick'.at # "found"
    BY <2>3 DEF ListsInv
  <2> HIDE DEF k
  <2> QED BY <2>2, <2>3, <2>4, <2>5, MakesLists
<1>12. CASE Dialed
  <2>1. UNCHANGED <<conns, session, transfer>> /\ EndStep(TRUE)
    BY <1>12 DEF Dialed
  <2> QED BY <1>9, <2>1, SameConns, UnchangingLists
<1>13. CASE DialFailed
  <2>1. /\ UNCHANGED <<session, transfer>> /\ EndStep(FALSE)
        /\ conns' = [conns EXCEPT ![tick.conn] = Closed(tick.conn, FALSE)]
    BY <1>13 DEF DialFailed
  <2>2. Unchanging
    <3>1. CASE tick.conn \in Conns
      <4> DEFINE c == tick.conn
                 k == Closed(c, FALSE)
      <4>1. DOMAIN conns' = Conns /\ conns'[c] = k /\ \A d \in Conns \ {c} : conns'[d] = conns[d]
        BY <2>1, <3>1 DEF ListsInv
      <4>2. /\ Listed(k) /\ k.of = conns[c].of
            /\ k.state \in Alive <=> conns[c].state \in Alive
            /\ k.state = "new" <=> conns[c].state = "new"
        BY <3>1, ClosedLists DEF ListsInv
      <4> HIDE DEF c, k
      <4> QED BY <4>1, <4>2 DEF Unchanging, ListsInv
    <3>2. CASE tick.conn \notin Conns
      BY <2>1, <3>2 DEF Unchanging, ListsInv
    <3> QED BY <3>1, <3>2
  <2> QED BY <1>9, <2>1, <2>2, UnchangingLists
<1>14. ASSUME NEW c \in Conns, Turn(c), EndTurn
       PROVE  "at" \in DOMAIN tick' /\ tick'.at # "found"
  BY <1>14 DEF Turn, Serving, EndTurn, ListsInv
<1>15. ASSUME NEW c \in Conns, Turn(c), NEW byPause, HandleDisconnect(c, byPause)
       PROVE  ListsInv'
  <2>1. /\ conns' = [conns EXCEPT ![c] = NoConnection("gone")] /\ session' = session \ {c}
        /\ EndTurn
        /\ transfer' = transfer \ {c} \/ (transfer' = transfer /\ ~conns[c].of)
    BY <1>15 DEF HandleDisconnect, OnDisconnect, RemovePeerConnection
  <2>2. "at" \in DOMAIN tick' /\ tick'.at # "found"
    BY <1>14, <1>15, <2>1
  <2> QED BY <2>1, <2>2, EndsLists
<1>16. ASSUME NEW c \in Conns, Stay(c) PROVE ListsInv'
  <2>1. UNCHANGED <<conns, session, transfer>> /\ Turn(c) /\ EndTurn
    BY <1>16 DEF Stay
  <2> QED BY <1>14, <2>1, SameConns, UnchangingLists
<1>17. ASSUME NEW c \in Conns, NEW f, conns' = [conns EXCEPT ![c].in = f] PROVE Unchanging
  <2>1. conns' = [conns EXCEPT ![c] = [conns[c] EXCEPT !.in = f]]
    BY <1>17 DEF ListsInv
  <2>2. /\ Listed([conns[c] EXCEPT !.in = f])
        /\ [conns[c] EXCEPT !.in = f].of = conns[c].of
        /\ [conns[c] EXCEPT !.in = f].state = conns[c].state
    BY DEF ListsInv, Listed
  <2> QED BY <2>1, <2>2 DEF Unchanging, ListsInv
<1>18. ASSUME NEW c \in Conns, ProcessIncoming(c) \/ \E n \in 1..MaxRead : Read(c, n)
       PROVE  ListsInv'
  <2>1. UNCHANGED <<session, transfer, tick>> /\ \E f : conns' = [conns EXCEPT ![c].in = f]
    BY <1>18 DEF ProcessIncoming, Read, ListsInv
  <2>2. Unchanging
    BY <1>17, <2>1
  <2> QED BY <2>1, <2>2, UnchangingLists DEF ListsInv
<1>19. ASSUME NEW c \in Conns, Attach(c) PROVE ListsInv'
  <2>1. Turn(c) /\ c \notin transfer /\ ~conns[c].of /\ conns[c].state = "open"
    BY <1>19 DEF Attach, ListsInv
  <2>2. \/ UNCHANGED <<conns, session, transfer, tick>>
        \/ /\ EndTurn /\ conns' = [conns EXCEPT ![c] = NoConnection("gone")]
           /\ session' = session \ {c} /\ UNCHANGED transfer
        \/ /\ EndTurn /\ \E ptr : conns' = [conns EXCEPT ![c].of = TRUE, ![c].peer = ptr]
           /\ transfer' = transfer \cup {c} /\ UNCHANGED session
    BY <1>19 DEF Attach
  <2>3. CASE UNCHANGED <<conns, session, transfer, tick>>
    BY <2>3, SameConns, UnchangingLists DEF ListsInv
  <2>4. CASE /\ EndTurn /\ conns' = [conns EXCEPT ![c] = NoConnection("gone")]
             /\ session' = session \ {c} /\ UNCHANGED transfer
    BY <1>14, <2>1, <2>4, EndsLists
  <2>5. CASE /\ EndTurn /\ \E ptr : conns' = [conns EXCEPT ![c].of = TRUE, ![c].peer = ptr]
             /\ transfer' = transfer \cup {c} /\ UNCHANGED session
    <3>1. PICK ptr : conns' = [conns EXCEPT ![c].of = TRUE, ![c].peer = ptr]
      BY <2>5
    <3> DEFINE k == [conns[c] EXCEPT !.of = TRUE, !.peer = ptr]
    <3>2. conns' = [conns EXCEPT ![c] = k]
      BY <3>1 DEF ListsInv
    <3>3. Listed(k) /\ k.of /\ k.state = "open"
      BY <2>1 DEF ListsInv, Listed
    <3> HIDE DEF k
    <3>4. DOMAIN conns' = Conns /\ conns'[c] = k /\ \A d \in Conns \ {c} : conns'[d] = conns[d]
      BY <3>2 DEF ListsInv
    <3>5. AliveSet' = AliveSet /\ c \in AliveSet
      BY <2>1, <3>3, <3>4 DEF AliveSet, Alive
    <3>6. \A d \in transfer' : d \in Conns /\ conns'[d].of
      BY <2>5, <3>3, <3>4 DEF ListsInv, AliveSet
    <3>7. \A d \in Conns : Listed(conns'[d])
      BY <3>3, <3>4 DEF ListsInv
    <3>8. "at" \in DOMAIN tick' /\ tick'.at # "found"
      BY <1>14, <2>1, <2>5
    <3> QED BY <2>5, <3>4, <3>5, <3>6, <3>7, <3>8 DEF ListsInv
  <2> QED BY <2>2, <2>3, <2>4, <2>5
<1>20. CASE \E c \in Conns : Disconnect(c) \/ Fail(c)
  BY <1>15, <1>20 DEF Disconnect, Fail
<1>21. CASE \E e \in Endpoints : Add(e) \/ Accept(e)
  BY <1>2, <1>3, <1>21
<1>22. CASE Tick
  BY <1>7, <1>8, <1>10, <1>11, <1>12, <1>13, <1>16, <1>18, <1>19, <1>20, <1>22 DEF Tick
<1> QED BY <1>1, <1>5, <1>6, <1>21, <1>22 DEF Next

LEMMA ListsInvInit == Init => ListsInv
<1>1. SUFFICES ASSUME Init PROVE ListsInv
  OBVIOUS
<1>2. conns = [c \in Conns |-> NoConnection("new")] /\ session = {} /\ transfer = {} /\ tick = Idle
  BY <1>1 DEF Init
<1>3. Listed(NoConnection("new")) /\ NoConnection("new").state = "new"
  BY MadeLists
<1>4. "at" \in DOMAIN Idle /\ Idle.at = "idle"
  BY DEF Idle
<1> QED BY <1>2, <1>3, <1>4 DEF ListsInv, AliveSet, Alive

\* The lists of connections (transfer.go:165, 181, 230, 508, session.go:458) for
\* every number of peers and connections: the session ticks the connections that
\* were made and have not ended, and the transfer's are among them.
THEOREM ConnectionListsAgree == Spec => []ListsAgree
<1>1. Init => ListsInv
  BY ListsInvInit
<1>2. ListsInv /\ [Next]_vars => ListsInv'
  BY NextLists
<1>3. ListsInv => ListsAgree
  BY DEF ListsInv, ListsAgree, AliveSet, Alive
<1> QED
  BY <1>1, <1>2, <1>3, PTL DEF Spec

-----------------------------------------------------------------------------
(* The list of peers                                                       *)

\* A part of a list
LEMMA PartIs ==
  ASSUME NEW S, NEW s \in Seq(S), NEW j \in 1..Len(s) + 1, NEW k \in 0..Len(s), j <= k + 1
  PROVE  /\ SubSeq(s, j, k) \in Seq(S) /\ Len(SubSeq(s, j, k)) = k - j + 1
         /\ \A i \in 1..(k - j + 1) : SubSeq(s, j, k)[i] = s[j + i - 1]
<1>1. Len(s) \in Nat /\ \A i \in 1..Len(s) : s[i] \in S
  BY LenProperties, ElementOfSeq
<1>2. j \in Int /\ k \in Int /\ \A i \in j..k : s[i] \in S
  BY <1>1
<1> DEFINE a == SubSeq(s, j, k)
<1>3. /\ a \in Seq(S) /\ Len(a) = IF j <= k THEN k - j + 1 ELSE 0
      /\ \A i \in 1..k - j + 1 : a[i] = s[j + i - 1]
  BY <1>2, SubSeqProperties
<1> HIDE DEF a
<1>4. Len(a) = k - j + 1
  BY <1>1, <1>3
<1> QED
  BY <1>3, <1>4 DEF a

\* An element of a list, alone
LEMMA OneIs ==
  ASSUME NEW S, NEW x \in S
  PROVE  <<x>> \in Seq(S) /\ Len(<<x>>) = 1 /\ <<x>>[1] = x
  OBVIOUS

\* What a peer is in the list: the entry at a position of the live array
Entry(m, i) == m.arrays[m.live][i]
Room(m) == Len(m.arrays[m.live])

\* The arrays, the list within the live one, and the list itself: sorted by
\* endpoint, each peer once.
Shaped(m) ==
  /\ m = [arrays |-> m.arrays, live |-> m.live, len |-> m.len]
  /\ m.arrays \in Seq(Seq(Peer)) /\ m.live \in 1..Len(m.arrays)
  /\ m.len \in 0..Room(m) /\ m.len <= MaxPeerListSize
Sorted(m) ==
  /\ \A i \in 1..m.len : Entry(m, i).ep # NoEndpoint
  /\ \A i, j \in 1..m.len : i < j => Entry(m, i).ep < Entry(m, j).ep
ListOK(m) == Shaped(m) /\ Sorted(m)

\* A pointer leads to an element of an array.
Holds(m, ptr) ==
  /\ ptr = <<ptr[1], ptr[2]>> /\ ptr[1] \in 1..Len(m.arrays)
  /\ ptr[2] \in 1..Len(m.arrays[ptr[1]])
\* Arrays stay as long as they are, and where pointers lead to them.
Keeps(m, n) ==
  /\ Len(n.arrays) >= Len(m.arrays)
  /\ \A a \in 1..Len(m.arrays) : Len(n.arrays[a]) = Len(m.arrays[a])

LEMMA HoldsKept ==
  ASSUME NEW m, NEW n, Shaped(m), Shaped(n), Keeps(m, n), NEW ptr, Holds(m, ptr)
  PROVE  Holds(n, ptr)
<1>1. Len(m.arrays) \in Nat /\ Len(n.arrays) \in Nat
  BY LenProperties DEF Shaped
<1> QED
  BY <1>1 DEF Holds, Keeps

LEMMA ShapedIs ==
  ASSUME NEW m, Shaped(m)
  PROVE  /\ m.arrays[m.live] \in Seq(Peer) /\ Room(m) \in Nat /\ m.len \in Nat
         /\ DOMAIN m.arrays = 1..Len(m.arrays) /\ Len(m.arrays) \in Nat
         /\ DOMAIN m.arrays[m.live] = 1..Room(m)
         /\ \A i \in 1..Room(m) : Entry(m, i) \in Peer
         /\ \A i \in 1..m.len : i \in 1..Room(m)
<1>1. m.arrays[m.live] \in Seq(Peer) /\ Len(m.arrays) \in Nat /\ DOMAIN m.arrays = 1..Len(m.arrays)
  BY LenProperties, ElementOfSeq DEF Shaped
<1>2. Room(m) \in Nat /\ DOMAIN m.arrays[m.live] = 1..Room(m)
  BY <1>1, LenProperties DEF Room
<1>3. \A i \in 1..Room(m) : Entry(m, i) \in Peer
  BY <1>1, ElementOfSeq DEF Room, Entry
<1> QED
  BY <1>1, <1>2, <1>3 DEF Shaped

\* The list as a sequence
LEMMA PeersAre ==
  ASSUME NEW m, Shaped(m)
  PROVE  /\ Peers(m) \in Seq(Peer) /\ Len(Peers(m)) = m.len
         /\ \A i \in 1..m.len : Peers(m)[i] = Entry(m, i)
<1> DEFINE s == m.arrays[m.live]
<1>1. s \in Seq(Peer) /\ Len(s) \in Nat /\ m.len \in 0..Len(s) /\ m.len \in Nat
  BY ShapedIs DEF Shaped, Room
<1>2. Peers(m) = SubSeq(s, 1, m.len)
  BY DEF Peers
<1> HIDE DEF s
<1>3. 1 \in 1..Len(s) + 1 /\ 1 <= m.len + 1
  BY <1>1
<1>4. /\ Peers(m) \in Seq(Peer) /\ Len(Peers(m)) = m.len - 1 + 1
      /\ \A i \in 1..m.len - 1 + 1 : Peers(m)[i] = s[1 + i - 1]
  BY <1>1, <1>2, <1>3, PartIs
<1>5. \A i \in 1..m.len : Peers(m)[i] = s[i]
  BY <1>1, <1>4
<1>6. m.len - 1 + 1 = m.len
  BY <1>1
<1> QED
  BY <1>4, <1>5, <1>6 DEF s, Entry

LEMMA FindIs ==
  ASSUME NEW m, Shaped(m), NEW e
  PROVE  Find(m, e) = {i \in 1..m.len : Entry(m, i).ep = e}
  BY PeersAre DEF Find

LEMMA ZeroIsPeer ==
  /\ ZeroPeer \in Peer
  /\ \A e \in Endpoints \cup {NoEndpoint} : \A b, r \in BOOLEAN :
       NewPeer(e, b, r) \in Peer /\ NewPeer(e, b, r).ep = e /\ NewPeer(e, b, r).conn = NoConn
<1>1. 0 \in 0..MaxFails + 1
  BY PeerPolicyAssumption
<1> QED
  BY <1>1 DEF ZeroPeer, NewPeer, Peer

\* A list in an array with other elements, as long as before
LEMMA LiveIs ==
  ASSUME NEW m, Shaped(m), NEW array \in Seq(Peer), Len(array) = Room(m),
         NEW n, n = [arrays |-> n.arrays, live |-> n.live, len |-> n.len],
         n.arrays = [m.arrays EXCEPT ![m.live] = array], n.live = m.live,
         n.len \in 0..Room(m), n.len <= MaxPeerListSize
  PROVE  /\ Shaped(n) /\ Keeps(m, n) /\ Room(n) = Room(m)
         /\ \A j \in 1..Room(m) : Entry(n, j) = array[j]
<1>1. /\ m.arrays \in Seq(Seq(Peer)) /\ m.live \in 1..Len(m.arrays)
      /\ Len(m.arrays) \in Nat /\ DOMAIN m.arrays = 1..Len(m.arrays)
  BY ShapedIs DEF Shaped
<1>2. PICK arrays : arrays = n.arrays
  OBVIOUS
<1>3. /\ arrays \in Seq(Seq(Peer)) /\ Len(arrays) = Len(m.arrays)
      /\ \A a \in 1..Len(m.arrays) : arrays[a] = IF a = m.live THEN array ELSE m.arrays[a]
  <2>1. arrays = [m.arrays EXCEPT ![m.live] = array]
    BY <1>2
  <2>2. PICK old, live : old = m.arrays /\ live = m.live
    OBVIOUS
  <2> QED
    BY ONLY <1>1, <2>1, <2>2, array \in Seq(Peer)
<1>4. arrays[m.live] = array
  BY <1>1, <1>3
<1>5. Room(n) = Room(m) /\ \A j \in 1..Room(m) : Entry(n, j) = array[j]
  BY <1>2, <1>4 DEF Room, Entry
<1>6. Keeps(m, n)
  BY <1>1, <1>2, <1>3 DEF Keeps, Room
<1> QED
  BY <1>1, <1>2, <1>3, <1>5, <1>6 DEF Shaped

\* slices.Delete: the later elements come one place forward.
LEMMA DeletedIs ==
  ASSUME NEW m, Shaped(m), NEW i \in 1..m.len
  PROVE  LET n == Deleted(m, i) IN
         /\ Shaped(n) /\ Keeps(m, n) /\ n.live = m.live /\ n.len = m.len - 1
         /\ \A j \in 1..n.len : Entry(n, j) = Entry(m, IF j < i THEN j ELSE j + 1)
<1> DEFINE old == m.arrays[m.live]
           L == Len(old)
           x1 == SubSeq(old, 1, i - 1)
           x2 == SubSeq(old, i + 1, m.len)
           x4 == SubSeq(old, m.len + 1, L)
           array == x1 \o x2 \o <<ZeroPeer>> \o x4
           n == Deleted(m, i)
<1>1. old \in Seq(Peer) /\ L \in Nat /\ m.len \in 0..L /\ m.len \in Nat /\ i \in 1..m.len /\ i \in Nat
  BY ShapedIs DEF Shaped, Room
<1>2. /\ n = [m EXCEPT !.len = @ - 1, !.arrays[m.live] = array]
      /\ m = [arrays |-> m.arrays, live |-> m.live, len |-> m.len]
  BY DEF Deleted, Shaped
<1>3. /\ n = [arrays |-> n.arrays, live |-> n.live, len |-> n.len]
      /\ n.arrays = [m.arrays EXCEPT ![m.live] = array] /\ n.live = m.live /\ n.len = m.len - 1
  <2> HIDE DEF n, array
  <2> QED
    BY <1>2
<1> HIDE DEF old, n
<1>4. /\ x1 \in Seq(Peer) /\ Len(x1) = i - 1
      /\ \A j \in 1..(i - 1) : x1[j] = old[j]
  <2>1. /\ x1 \in Seq(Peer) /\ Len(x1) = i - 1 - 1 + 1
        /\ \A j \in 1..(i - 1 - 1 + 1) : x1[j] = old[1 + j - 1]
    BY <1>1, PartIs
  <2> HIDE DEF x1
  <2> QED
    BY <1>1, <2>1
<1>5. /\ x2 \in Seq(Peer) /\ Len(x2) = m.len - i
      /\ \A j \in 1..(m.len - i) : x2[j] = old[i + j]
  <2>1. /\ x2 \in Seq(Peer) /\ Len(x2) = m.len - (i + 1) + 1
        /\ \A j \in 1..(m.len - (i + 1) + 1) : x2[j] = old[i + 1 + j - 1]
    BY <1>1, PartIs
  <2> HIDE DEF x2
  <2>2. m.len - (i + 1) + 1 = m.len - i
    BY <1>1
  <2>3. \A j \in 1..(m.len - i) : i + 1 + j - 1 = i + j
    BY <1>1
  <2> QED
    BY <2>1, <2>2, <2>3
<1>6. x4 \in Seq(Peer) /\ Len(x4) = L - m.len
  <2>1. x4 \in Seq(Peer) /\ Len(x4) = L - (m.len + 1) + 1
    BY <1>1, PartIs
  <2> HIDE DEF x4
  <2> QED
    BY <1>1, <2>1
<1> HIDE DEF x1, x2, x4, L
<1>7. PICK y : y = x1 \o x2
  OBVIOUS
<1>8. /\ y \in Seq(Peer) /\ Len(y) = m.len - 1
      /\ \A j \in 1..(m.len - 1) : y[j] = old[IF j < i THEN j ELSE j + 1]
  <2>1. /\ y \in Seq(Peer) /\ Len(y) = Len(x1) + Len(x2)
        /\ \A j \in 1..Len(x1) + Len(x2) : y[j] = IF j <= Len(x1) THEN x1[j] ELSE x2[j - Len(x1)]
    BY <1>4, <1>5, <1>7, ConcatProperties
  <2>2. Len(x1) + Len(x2) = m.len - 1
    BY <1>1, <1>4, <1>5
  <2>3. ASSUME NEW j \in 1..(m.len - 1) PROVE y[j] = old[IF j < i THEN j ELSE j + 1]
    <3>1. CASE j < i
      <4>1. j \in 1..(i - 1) /\ j <= Len(x1) /\ j \in 1..Len(x1) + Len(x2)
        BY <1>1, <1>4, <2>2, <3>1
      <4>2. y[j] = x1[j] /\ x1[j] = old[j]
        BY <1>4, <2>1, <4>1
      <4> QED
        BY <3>1, <4>2
    <3>2. CASE j >= i
      <4>1. j - (i - 1) \in 1..(m.len - i) /\ i + (j - (i - 1)) = j + 1
        BY <1>1, <3>2
      <4>2. y[j] = x2[j - (i - 1)]
        BY <1>1, <1>4, <2>1, <2>2, <3>2
      <4> QED
        BY <1>1, <1>5, <3>2, <4>1, <4>2
    <3> QED
      BY <1>1, <3>1, <3>2
  <2> QED
    BY <2>1, <2>2, <2>3
<1>9. PICK z : z = y \o <<ZeroPeer>>
  OBVIOUS
<1>10. z \in Seq(Peer) /\ Len(z) = m.len /\ \A j \in 1..(m.len - 1) : z[j] = y[j]
  <2>1. PICK one : one = <<ZeroPeer>>
    OBVIOUS
  <2>2. one \in Seq(Peer) /\ Len(one) = 1
    BY <2>1, ZeroIsPeer, OneIs
  <2>3. /\ z \in Seq(Peer) /\ Len(z) = Len(y) + Len(one)
        /\ \A j \in 1..Len(y) + Len(one) : z[j] = IF j <= Len(y) THEN y[j] ELSE one[j - Len(y)]
    BY <1>8, <1>9, <2>1, <2>2, ConcatProperties
  <2>4. Len(y) + Len(one) = m.len
    BY <1>1, <1>8, <2>2
  <2>5. ASSUME NEW j \in 1..(m.len - 1) PROVE j \in 1..m.len /\ j <= m.len - 1
    BY <1>1
  <2> QED
    BY <1>8, <2>3, <2>4, <2>5
<1>11. array = z \o x4
  BY <1>7, <1>9
<1> HIDE DEF array
<1>12. array \in Seq(Peer) /\ Len(array) = L /\ \A j \in 1..(m.len - 1) : array[j] = z[j]
  <2>1. /\ array \in Seq(Peer) /\ Len(array) = Len(z) + Len(x4)
        /\ \A j \in 1..Len(z) + Len(x4) : array[j] = IF j <= Len(z) THEN z[j] ELSE x4[j - Len(z)]
    BY <1>6, <1>10, <1>11, ConcatProperties
  <2>2. Len(z) + Len(x4) = L
    BY <1>1, <1>6, <1>10
  <2>3. ASSUME NEW j \in 1..(m.len - 1) PROVE j \in 1..L /\ j <= m.len
    BY <1>1
  <2> QED
    BY <1>10, <2>1, <2>2, <2>3
<1>13. Room(m) = L
  BY DEF Room, L, old
<1>14. n.len \in 0..Room(m) /\ n.len <= MaxPeerListSize
  BY <1>1, <1>3, <1>13, PeerPolicyAssumption DEF Shaped
<1>15. Shaped(n) /\ Keeps(m, n) /\ \A j \in 1..Room(m) : Entry(n, j) = array[j]
  BY <1>3, <1>12, <1>13, <1>14, LiveIs
<1>16. ASSUME NEW j \in 1..(m.len - 1) PROVE Entry(n, j) = Entry(m, IF j < i THEN j ELSE j + 1)
  <2>1. j \in 1..Room(m)
    BY <1>1, <1>13
  <2>2. Entry(n, j) = old[IF j < i THEN j ELSE j + 1]
    BY <1>8, <1>10, <1>12, <1>15, <2>1
  <2> QED
    BY <2>2 DEF Entry, old
<1> QED
  BY <1>3, <1>15, <1>16 DEF n

\* What the elements of an array are, before the rest of it
LEMMA SplicedIs ==
  ASSUME NEW old \in Seq(Peer), NEW k \in 0..Len(old), NEW i \in 1..k + 1, NEW p \in Peer,
         NEW rest \in Seq(Peer)
  PROVE  LET array == (SubSeq(old, 1, i - 1) \o <<p>> \o SubSeq(old, i, k)) \o rest IN
         /\ array \in Seq(Peer) /\ Len(array) = k + 1 + Len(rest)
         /\ \A j \in 1..k + 1 :
              array[j] = IF j < i THEN old[j] ELSE IF j = i THEN p ELSE old[j - 1]
<1> DEFINE x1 == SubSeq(old, 1, i - 1)
           x2 == SubSeq(old, i, k)
           array == (x1 \o <<p>> \o x2) \o rest
<1>1. Len(old) \in Nat /\ k \in Nat /\ i \in Nat /\ Len(rest) \in Nat
  BY LenProperties
<1>2. /\ x1 \in Seq(Peer) /\ Len(x1) = i - 1
      /\ \A j \in 1..(i - 1) : x1[j] = old[j]
  <2>1. /\ x1 \in Seq(Peer) /\ Len(x1) = i - 1 - 1 + 1
        /\ \A j \in 1..(i - 1 - 1 + 1) : x1[j] = old[1 + j - 1]
    BY <1>1, PartIs
  <2> HIDE DEF x1
  <2> QED
    BY <1>1, <2>1
<1>3. /\ x2 \in Seq(Peer) /\ Len(x2) = k - i + 1
      /\ \A j \in 1..(k - i + 1) : x2[j] = old[i + j - 1]
  BY <1>1, PartIs
<1> HIDE DEF x1, x2
<1>4. PICK y : y = x1 \o <<p>>
  OBVIOUS
<1>5. y \in Seq(Peer) /\ Len(y) = i /\ y[i] = p /\ \A j \in 1..(i - 1) : y[j] = old[j]
  <2>1. PICK one : one = <<p>>
    OBVIOUS
  <2>2. one \in Seq(Peer) /\ Len(one) = 1 /\ one[1] = p
    BY <2>1, OneIs
  <2>3. /\ y \in Seq(Peer) /\ Len(y) = Len(x1) + Len(one)
        /\ \A j \in 1..Len(x1) + Len(one) : y[j] = IF j <= Len(x1) THEN x1[j] ELSE one[j - Len(x1)]
    BY <1>2, <1>4, <2>1, <2>2, ConcatProperties
  <2>4. Len(x1) + Len(one) = i /\ i - Len(x1) = 1
    BY <1>1, <1>2, <2>2
  <2>5. ASSUME NEW j \in 1..(i - 1) PROVE j \in 1..i /\ j <= Len(x1)
    BY <1>1, <1>2
  <2>6. i \in 1..i /\ ~(i <= Len(x1))
    BY <1>1, <1>2
  <2> QED
    BY <1>2, <2>2, <2>3, <2>4, <2>5, <2>6
<1>6. PICK z : z = y \o x2
  OBVIOUS
<1>7. /\ z \in Seq(Peer) /\ Len(z) = k + 1
      /\ \A j \in 1..k + 1 : z[j] = IF j < i THEN old[j] ELSE IF j = i THEN p ELSE old[j - 1]
  <2>1. /\ z \in Seq(Peer) /\ Len(z) = Len(y) + Len(x2)
        /\ \A j \in 1..Len(y) + Len(x2) : z[j] = IF j <= Len(y) THEN y[j] ELSE x2[j - Len(y)]
    BY <1>3, <1>5, <1>6, ConcatProperties
  <2>2. Len(y) + Len(x2) = k + 1
    BY <1>1, <1>3, <1>5
  <2>3. ASSUME NEW j \in 1..k + 1
        PROVE  z[j] = IF j < i THEN old[j] ELSE IF j = i THEN p ELSE old[j - 1]
    <3>1. CASE j <= i
      <4>1. z[j] = y[j]
        BY <1>5, <2>1, <2>2, <3>1
      <4>2. j = i \/ j \in 1..(i - 1)
        BY <1>1, <3>1
      <4> QED
        BY <1>1, <1>5, <4>1, <4>2
    <3>2. CASE j > i
      <4>1. j - i \in 1..(k - i + 1) /\ i + (j - i) - 1 = j - 1 /\ ~(j <= i)
        BY <1>1, <3>2
      <4>2. z[j] = x2[j - i]
        BY <1>5, <2>1, <2>2, <4>1
      <4>3. x2[j - i] = old[j - 1]
        BY <1>3, <4>1
      <4> QED
        BY <1>1, <3>2, <4>2, <4>3
    <3> QED
      BY <1>1, <3>1, <3>2
  <2> QED
    BY <2>1, <2>2, <2>3
<1>8. array = z \o rest
  BY <1>4, <1>6
<1>9. PICK n : n = Len(rest)
  OBVIOUS
<1> HIDE DEF array
<1>10. /\ array \in Seq(Peer) /\ Len(array) = k + 1 + n
       /\ \A j \in 1..k + 1 + n : array[j] = IF j <= k + 1 THEN z[j] ELSE rest[j - (k + 1)]
  <2>1. /\ array \in Seq(Peer) /\ Len(array) = Len(z) + Len(rest)
        /\ \A j \in 1..Len(z) + Len(rest) : array[j] = IF j <= Len(z) THEN z[j] ELSE rest[j - Len(z)]
    BY <1>7, <1>8, ConcatProperties
  <2> QED
    BY <1>7, <1>9, <2>1
<1>11. ASSUME NEW j \in 1..k + 1 PROVE j \in 1..k + 1 + n /\ j <= k + 1
  BY <1>1, <1>9
<1> QED
  BY <1>7, <1>9, <1>10, <1>11 DEF array, x1, x2

\* slices.Insert: the later elements go one place back; a full array is copied.
LEMMA InsertedIs ==
  ASSUME NEW m, Shaped(m), NEW i \in 1..m.len + 1, NEW p \in Peer, m.len < MaxPeerListSize
  PROVE  LET n == Inserted(m, i, p) IN
         /\ Shaped(n) /\ Keeps(m, n) /\ n.len = m.len + 1
         /\ \A j \in 1..n.len :
              Entry(n, j) = IF j < i THEN Entry(m, j) ELSE IF j = i THEN p ELSE Entry(m, j - 1)
<1> DEFINE old == m.arrays[m.live]
           L == Len(old)
           cap == IF m.len < L THEN L ELSE IF old = << >> THEN 1 ELSE 2 * L
           rest == [j \in 1..cap - m.len - 1 |-> ZeroPeer]
           array == (SubSeq(old, 1, i - 1) \o <<p>> \o SubSeq(old, i, m.len)) \o rest
           n == Inserted(m, i, p)
<1>1. /\ old \in Seq(Peer) /\ L \in Nat /\ m.len \in 0..L /\ m.len \in Nat /\ i \in Nat
      /\ Room(m) = L /\ MaxPeerListSize \in Nat
  BY ShapedIs, PeerPolicyAssumption DEF Shaped, Room
<1>2. n = IF m.len < L THEN [m EXCEPT !.arrays[m.live] = array, !.len = @ + 1]
          ELSE [arrays |-> Append(m.arrays, array), live |-> Len(m.arrays) + 1, len |-> m.len + 1]
  BY DEF Inserted
<1>3. /\ m = [arrays |-> m.arrays, live |-> m.live, len |-> m.len]
      /\ m.arrays \in Seq(Seq(Peer)) /\ m.live \in 1..Len(m.arrays) /\ Len(m.arrays) \in Nat
  BY ShapedIs DEF Shaped
<1>4. cap \in Nat /\ cap >= m.len + 1 /\ (m.len < L => cap = L)
  <2>1. old = << >> => L = 0
    OBVIOUS
  <2>2. L = 0 => old = << >>
    BY <1>1, EmptySeq
  <2> HIDE DEF L, old
  <2> QED
    BY <1>1, <2>1, <2>2
<1> HIDE DEF cap
<1>5. rest \in Seq(Peer) /\ Len(rest) = cap - m.len - 1
  <2>1. cap - m.len - 1 \in Nat
    BY <1>1, <1>4
  <2>2. PICK c \in Nat : c = cap - m.len - 1
    BY <2>1
  <2>3. rest = [j \in 1..c |-> ZeroPeer]
    BY <2>2
  <2> HIDE DEF rest
  <2> QED
    BY ONLY <2>2, <2>3, ZeroIsPeer
<1> HIDE DEF rest, L, old
<1>6. /\ array \in Seq(Peer) /\ Len(array) = cap
      /\ \A j \in 1..m.len + 1 :
           array[j] = IF j < i THEN old[j] ELSE IF j = i THEN p ELSE old[j - 1]
  <2>1. /\ array \in Seq(Peer) /\ Len(array) = m.len + 1 + Len(rest)
        /\ \A j \in 1..m.len + 1 :
             array[j] = IF j < i THEN old[j] ELSE IF j = i THEN p ELSE old[j - 1]
    BY <1>1, <1>5, SplicedIs DEF L
  <2> HIDE DEF array
  <2>2. m.len + 1 + Len(rest) = cap
    BY <1>1, <1>4, <1>5
  <2> QED
    BY <2>1, <2>2
<1> HIDE DEF array, n
<1>7. CASE m.len < L
  <2>1. n = [m EXCEPT !.arrays[m.live] = array, !.len = @ + 1]
    BY <1>2, <1>7
  <2>2. /\ n = [arrays |-> n.arrays, live |-> n.live, len |-> n.len]
        /\ n.arrays = [m.arrays EXCEPT ![m.live] = array] /\ n.live = m.live /\ n.len = m.len + 1
    BY <1>3, <2>1
  <2>3. n.len \in 0..Room(m) /\ n.len <= MaxPeerListSize
    BY <1>1, <1>7, <2>2
  <2>4. Len(array) = Room(m)
    BY <1>1, <1>4, <1>6, <1>7
  <2>5. Shaped(n) /\ Keeps(m, n) /\ \A j \in 1..Room(m) : Entry(n, j) = array[j]
    BY <1>6, <2>2, <2>3, <2>4, LiveIs
  <2>6. \A j \in 1..n.len : j \in 1..Room(m) /\ j \in 1..m.len + 1
    BY <1>1, <1>7, <2>2
  <2>7. \A j \in 1..n.len :
          Entry(n, j) = IF j < i THEN old[j] ELSE IF j = i THEN p ELSE old[j - 1]
    BY <1>6, <2>5, <2>6
  <2> QED
    BY <2>2, <2>5, <2>7 DEF Entry, old, n
<1>8. CASE ~(m.len < L)
  <2>1. n = [arrays |-> Append(m.arrays, array), live |-> Len(m.arrays) + 1, len |-> m.len + 1]
    BY <1>2, <1>8
  <2>2. /\ Append(m.arrays, array) \in Seq(Seq(Peer))
        /\ Len(Append(m.arrays, array)) = Len(m.arrays) + 1
        /\ \A a \in 1..Len(m.arrays) : Append(m.arrays, array)[a] = m.arrays[a]
        /\ Append(m.arrays, array)[Len(m.arrays) + 1] = array
    BY <1>3, <1>6, AppendProperties
  <2>3. PICK more : more = Append(m.arrays, array)
    OBVIOUS
  <2>4. n.arrays = more /\ n.live = Len(m.arrays) + 1 /\ n.len = m.len + 1 /\ more[n.live] = array
    BY <2>1, <2>2, <2>3
  <2>5. Room(n) = cap /\ \A j \in 1..m.len + 1 : Entry(n, j) = array[j]
    BY <1>6, <2>4 DEF Room, Entry
  <2>6. n.len \in 0..cap /\ n.len <= MaxPeerListSize
    BY <1>1, <1>4, <2>4
  <2>7. Keeps(m, n)
    BY <1>3, <2>2, <2>3, <2>4 DEF Keeps
  <2>8. Shaped(n)
    <3>1. n = [arrays |-> n.arrays, live |-> n.live, len |-> n.len]
      BY <2>1, <2>3, <2>4
    <3>2. more \in Seq(Seq(Peer)) /\ Len(m.arrays) + 1 \in 1..Len(more)
      BY <1>3, <2>2, <2>3
    <3> QED
      BY <2>4, <2>5, <2>6, <3>1, <3>2 DEF Shaped
  <2>9. \A j \in 1..n.len :
          Entry(n, j) = IF j < i THEN old[j] ELSE IF j = i THEN p ELSE old[j - 1]
    BY <1>6, <2>4, <2>5
  <2> QED
    BY <2>4, <2>7, <2>8, <2>9 DEF Entry, old, n
<1> QED
  BY <1>7, <1>8

LEMMA DeletedOK ==
  ASSUME NEW m, ListOK(m), NEW i \in 1..m.len
  PROVE  ListOK(Deleted(m, i))
<1>1. PICK n : n = Deleted(m, i)
  OBVIOUS
<1>2. /\ Shaped(n) /\ n.len = m.len - 1 /\ m.len \in Nat /\ i \in Nat
      /\ \A j \in 1..n.len : Entry(n, j) = Entry(m, IF j < i THEN j ELSE j + 1)
  BY <1>1, DeletedIs, ShapedIs DEF ListOK
<1>3. PICK k \in Nat : k = m.len
  BY <1>2
<1> DEFINE at(j) == IF j < i THEN j ELSE j + 1
<1>4. \A j \in 1..(k - 1) : at(j) \in 1..k /\ Entry(n, j) = Entry(m, at(j))
  BY <1>2, <1>3
<1>5. \A j, l \in 1..(k - 1) : j < l => at(j) < at(l)
  BY <1>2, <1>3
<1> HIDE DEF at
<1>6. Sorted(n)
  BY <1>2, <1>3, <1>4, <1>5 DEF ListOK, Sorted
<1> QED
  BY <1>1, <1>2, <1>6 DEF ListOK

\* What ErasePeers may not erase
Useful(p) == p.conn # NoConn \/ IsConnectCandidate(p)

\* n is m but for peers that are of no use.
Erased(m, n) ==
  /\ Keeps(m, n) /\ n.len <= m.len
  /\ \A i \in 1..m.len : Useful(Entry(m, i)) =>
       \E j \in 1..n.len : Entry(n, j) = Entry(m, i)
  /\ \A j \in 1..n.len : \E i \in 1..m.len : Entry(n, j) = Entry(m, i)

LEMMA ErasedSelf ==
  ASSUME NEW m, Shaped(m)
  PROVE  Erased(m, m)
<1>1. Len(m.arrays) \in Nat /\ m.len \in Nat
  BY ShapedIs
<1> QED
  BY <1>1 DEF Erased, Keeps

LEMMA KeepsBoth ==
  ASSUME NEW k, NEW m, NEW n, Shaped(k), Shaped(m), Shaped(n), Keeps(k, m), Keeps(m, n)
  PROVE  Keeps(k, n)
<1>1. Len(k.arrays) \in Nat /\ Len(m.arrays) \in Nat /\ Len(n.arrays) \in Nat
  BY ShapedIs
<1> QED
  BY <1>1 DEF Keeps

\* One more is erased.
LEMMA ErasedMore ==
  ASSUME NEW k, NEW m, ListOK(k), ListOK(m), Erased(k, m), NEW i \in 1..m.len,
         ~Useful(Entry(m, i))
  PROVE  ListOK(Deleted(m, i)) /\ Erased(k, Deleted(m, i))
<1>1. PICK n : n = Deleted(m, i)
  OBVIOUS
<1>2. /\ ListOK(n) /\ Keeps(m, n) /\ n.len = m.len - 1 /\ m.len \in Nat /\ i \in Nat /\ k.len \in Nat
      /\ \A j \in 1..n.len : Entry(n, j) = Entry(m, IF j < i THEN j ELSE j + 1)
  <2>1. Shaped(m) /\ Shaped(k)
    BY DEF ListOK
  <2>2. m.len \in Nat /\ k.len \in Nat /\ i \in Nat
    BY <2>1, ShapedIs
  <2>3. ListOK(n)
    BY <1>1, DeletedOK
  <2> QED
    BY <1>1, <2>1, <2>2, <2>3, DeletedIs
<1>3. Keeps(k, n) /\ n.len <= k.len
  BY <1>2, KeepsBoth DEF Erased, ListOK
<1>4. ASSUME NEW j \in 1..n.len PROVE \E h \in 1..k.len : Entry(n, j) = Entry(k, h)
  <2>1. (IF j < i THEN j ELSE j + 1) \in 1..m.len
    BY <1>2
  <2> QED
    BY <1>2, <2>1 DEF Erased
<1>5. ASSUME NEW h \in 1..k.len, Useful(Entry(k, h))
      PROVE  \E j \in 1..n.len : Entry(n, j) = Entry(k, h)
  <2>1. PICK l \in 1..m.len : Entry(m, l) = Entry(k, h)
    BY <1>5 DEF Erased
  <2>2. l # i
    BY <1>5, <2>1
  <2>3. PICK j : j = IF l < i THEN l ELSE l - 1
    OBVIOUS
  <2>4. j \in 1..n.len /\ (IF j < i THEN j ELSE j + 1) = l
    BY <1>2, <2>2, <2>3
  <2>5. Entry(n, j) = Entry(m, l)
    BY <1>2, <2>4
  <2> QED
    BY <2>1, <2>4, <2>5
<1> QED
  BY <1>1, <1>2, <1>3, <1>4, <1>5 DEF Erased

\* ErasePeers after some iterations: the candidate is of no use, and not one that
\* would have been erased at once.
ErasingOK(m, w) ==
  /\ w = [m |-> w.m, at |-> w.at, best |-> w.best, panic |-> w.panic]
  /\ w.at \in Nat \ {0} /\ w.best \in 0..w.m.len /\ w.panic \in BOOLEAN
  /\ ListOK(w.m) /\ Erased(m, w.m)
  /\ w.best # 0 => ~Useful(Entry(w.m, w.best)) /\ ~Entry(w.m, w.best).resume

LEMMA EraseStepOK ==
  ASSUME NEW m, ListOK(m), NEW w, ErasingOK(m, w)
  PROVE  ErasingOK(m, EraseStep(w))
<1> DEFINE at == IF w.at = w.m.len + 1 THEN 1 ELSE w.at
           p == Peers(w.m)[at]
           better == IsEraseCandidate(p) /\ (w.best = 0 \/ ~GoesFirst(Peers(w.m)[w.best], p))
<1>v. PICK v : v = EraseStep(w)
  OBVIOUS
<1> SUFFICES ErasingOK(m, v)
  BY <1>v
<1>1. /\ w = [m |-> w.m, at |-> w.at, best |-> w.best, panic |-> w.panic]
      /\ w.at \in Nat \ {0} /\ w.best \in 0..w.m.len /\ w.panic \in BOOLEAN
      /\ ListOK(w.m) /\ Erased(m, w.m) /\ w.m.len \in Nat
  BY ShapedIs DEF ErasingOK, ListOK
<1>2. v = IF w.panic \/ w.m.len < LowWatermark THEN w
          ELSE IF at > w.m.len THEN [w EXCEPT !.panic = TRUE]
          ELSE IF better /\ p.resume
               THEN [w EXCEPT !.m = Deleted(@, at), !.at = at + 1,
                              !.best = IF @ > at THEN @ - 1 ELSE @]
          ELSE [w EXCEPT !.at = at + 1, !.best = IF better THEN at ELSE @]
  BY <1>v DEF EraseStep
<1>3. at \in Nat \ {0} /\ (~(at > w.m.len) => at \in 1..w.m.len)
  BY <1>1
<1>4. at \in 1..w.m.len => p = Entry(w.m, at)
  BY <1>1, PeersAre DEF ListOK
<1>5. better => ~Useful(p)
  BY DEF IsEraseCandidate, Useful
<1> HIDE DEF at, p, better
<1>0. ErasingOK(m, w)
  OBVIOUS
<1>6. CASE v = w
  BY ONLY <1>0, <1>6
<1>7. CASE v = [w EXCEPT !.panic = TRUE]
  <2>1. v = [m |-> w.m, at |-> w.at, best |-> w.best, panic |-> TRUE]
    BY ONLY <1>1, <1>7
  <2>2. v.m = w.m /\ v.at = w.at /\ v.best = w.best /\ v.panic = TRUE
    BY ONLY <2>1
  <2>3. v = [m |-> v.m, at |-> v.at, best |-> v.best, panic |-> v.panic]
    BY ONLY <2>1, <2>2
  <2> QED
    BY ONLY <1>0, <2>2, <2>3 DEF ErasingOK
<1>8. CASE at \in 1..w.m.len /\ v = [w EXCEPT !.at = at + 1, !.best = IF better THEN at ELSE @]
              /\ ~(better /\ p.resume)
  <2>1. PICK best : best = IF better THEN at ELSE w.best
    OBVIOUS
  <2>2. v = [m |-> w.m, at |-> at + 1, best |-> best, panic |-> w.panic]
    BY ONLY <1>1, <1>8, <2>1
  <2>3. best # 0 => ~Useful(Entry(w.m, best)) /\ ~Entry(w.m, best).resume
    <3>1. CASE better
      <4>1. best = at /\ p = Entry(w.m, at) /\ ~Useful(p) /\ ~p.resume
        BY ONLY <1>4, <1>5, <1>8, <2>1, <3>1
      <4> QED
        BY ONLY <4>1
    <3>2. CASE ~better
      <4>1. best = w.best
        BY ONLY <2>1, <3>2
      <4> QED
        BY ONLY <1>0, <4>1 DEF ErasingOK
    <3> QED
      BY ONLY <3>1, <3>2
  <2>4. best \in 0..w.m.len
    BY ONLY <1>1, <1>8, <2>1
  <2>5. v.m = w.m /\ v.at = at + 1 /\ v.panic = w.panic /\ v.best = best
    BY ONLY <2>2
  <2>6. v = [m |-> v.m, at |-> v.at, best |-> v.best, panic |-> v.panic] /\ at + 1 \in Nat \ {0}
    BY ONLY <1>3, <2>2, <2>5
  <2> QED
    BY ONLY <1>0, <2>3, <2>4, <2>5, <2>6 DEF ErasingOK
<1>9. CASE at \in 1..w.m.len /\ better /\ p.resume
           /\ v = [w EXCEPT !.m = Deleted(@, at), !.at = at + 1,
                            !.best = IF @ > at THEN @ - 1 ELSE @]
  <2>1. PICK n, best : n = Deleted(w.m, at) /\ best = IF w.best > at THEN w.best - 1 ELSE w.best
    OBVIOUS
  <2>2. v = [m |-> n, at |-> at + 1, best |-> best, panic |-> w.panic]
    BY ONLY <1>1, <1>9, <2>1
  <2>3. /\ ListOK(n) /\ Erased(m, n) /\ n.len = w.m.len - 1
        /\ \A j \in 1..n.len : Entry(n, j) = Entry(w.m, IF j < at THEN j ELSE j + 1)
    BY <1>1, <1>4, <1>5, <1>9, <2>1, ErasedMore, DeletedIs DEF ListOK
  <2>4. w.best # at
    BY <1>1, <1>4, <1>9 DEF ErasingOK
  <2>5. /\ best \in 0..n.len
        /\ best # 0 => w.best # 0 /\ (IF best < at THEN best ELSE best + 1) = w.best
    BY <1>1, <1>3, <1>9, <2>1, <2>3, <2>4
  <2>6. best # 0 => ~Useful(Entry(n, best)) /\ ~Entry(n, best).resume
    <3>1. SUFFICES ASSUME best # 0 PROVE Entry(n, best) = Entry(w.m, w.best) /\ w.best # 0
      BY DEF ErasingOK
    <3>2. best \in 1..n.len
      BY <1>1, <2>3, <2>5, <3>1
    <3> QED
      BY <2>3, <2>5, <3>1, <3>2
  <2>7. /\ v.m = n /\ v.at = at + 1 /\ v.panic = w.panic /\ v.best = best
        /\ at + 1 \in Nat \ {0} /\ w.panic \in BOOLEAN
        /\ v = [m |-> v.m, at |-> v.at, best |-> v.best, panic |-> v.panic]
    BY ONLY <1>1, <1>3, <2>2
  <2> QED
    BY ONLY <2>3, <2>5, <2>6, <2>7 DEF ErasingOK
<1>10. \/ v = w \/ v = [w EXCEPT !.panic = TRUE]
       \/ at \in 1..w.m.len /\ v = [w EXCEPT !.at = at + 1, !.best = IF better THEN at ELSE @]
            /\ ~(better /\ p.resume)
       \/ at \in 1..w.m.len /\ better /\ p.resume
            /\ v = [w EXCEPT !.m = Deleted(@, at), !.at = at + 1,
                             !.best = IF @ > at THEN @ - 1 ELSE @]
  BY <1>2, <1>3
<1> QED
  BY <1>6, <1>7, <1>8, <1>9, <1>10

\* What holds at the first position and goes from each to the next holds at all.
LEMMA UpTo ==
  ASSUME NEW n \in Nat, NEW good, 0 \in good,
         \A i \in 0..(n - 1) : i \in good => i + 1 \in good
  PROVE  \A i \in 0..n : i \in good
<1> DEFINE bad == (0..n) \ good
           rel == OpToRel(<, Nat)
<1>1. SUFFICES ASSUME bad # {} PROVE FALSE
  OBVIOUS
<1>2. IsWellFoundedOn(rel, Nat)
  BY NatLessThanWellFounded
<1>3. bad \subseteq Nat
  OBVIOUS
<1>4. PICK x \in bad : \A y \in bad : ~(<<y, x>> \in rel)
  <2> HIDE DEF bad, rel
  <2> QED
    BY <1>1, <1>2, <1>3, WFMin
<1>5. x # 0 /\ x - 1 \in 0..(n - 1)
  OBVIOUS
<1>6. x - 1 \in good
  <2>1. SUFFICES ASSUME x - 1 \in bad PROVE FALSE
    BY <1>5
  <2>2. <<x - 1, x>> \in rel
    BY <1>5 DEF OpToRel
  <2> QED
    BY <2>1, <2>2, <1>4
<1> QED
  BY <1>5, <1>6

\* A fold goes from state to state: one more state after those up to m.
Longer(more, st, m, x) ==
  /\ more = [i \in 0..(m + 1) |-> more[i]]
  /\ \A i \in 0..m : more[i] = st[i]
  /\ more[m + 1] = x
LEMMA OneMore ==
  ASSUME NEW m \in Nat, NEW st, NEW x
  PROVE  \E more : Longer(more, st, m, x)
<1> DEFINE more == [i \in 0..(m + 1) |-> IF i = m + 1 THEN x ELSE st[i]]
<1>1. /\ more = [i \in 0..(m + 1) |-> more[i]] /\ more[m + 1] = x
      /\ \A i \in 0..m : more[i] = st[i]
  OBVIOUS
<1> HIDE DEF more
<1>2. Longer(more, st, m, x)
  BY <1>1 DEF Longer
<1> QED
  BY <1>2

Erasing(m, start) == [m |-> m, at |-> start, best |-> 0, panic |-> FALSE]
\* the iterations of ErasePeers
RunErase(st, t, m) ==
  st = [i \in 0..m |-> IF i = 0 THEN t ELSE EraseStep(st[i - 1])]
StepsErase(now, M, start, t, n) ==
  /\ now[0] = t /\ EraseBest(now[n]) = ErasePeers(M, start)
  /\ \A i \in 0..(n - 1) : now[i + 1] = EraseStep(now[i])
LEMMA FoldErase ==
  ASSUME NEW M, NEW start, NEW t, t = Erasing(M, start), NEW n \in Nat, n = M.len
  PROVE  \E now : StepsErase(now, M, start, t, n)
<1> DEFINE good == {m \in 0..n : \E st : RunErase(st, t, m)}
<1>1. 0 \in good
  <2>1. RunErase([i \in 0..0 |-> t], t, 0)
    BY DEF RunErase
  <2> QED
    BY <2>1
<1>2. ASSUME NEW m \in 0..(n - 1), m \in good
      PROVE  m + 1 \in good
  <2>1. PICK st : RunErase(st, t, m)
    BY <1>2
  <2>2. \A i \in 0..m : st[i] = IF i = 0 THEN t ELSE EraseStep(st[i - 1])
    BY <2>1 DEF RunErase
  <2> DEFINE x == EraseStep(st[m])
  <2> HIDE DEF x
  <2>3. PICK more : Longer(more, st, m, x)
    BY OneMore
  <2>4. ASSUME NEW i \in 1..(m + 1)
        PROVE  more[i] = EraseStep(more[i - 1])
    <3>0. i - 1 \in 0..m /\ i # 0
      OBVIOUS
    <3>1. more[i - 1] = st[i - 1]
      BY <2>3, <3>0 DEF Longer
    <3>2. CASE i \in 0..m
      BY <2>2, <2>3, <3>0, <3>1, <3>2 DEF Longer
    <3>3. CASE i = m + 1
      <4>1. more[i] = x /\ i - 1 = m
        BY <2>3, <3>3 DEF Longer
      <4> QED
        BY <3>1, <3>3, <4>1 DEF x
    <3> QED
      BY <3>2, <3>3
  <2>5. RunErase(more, t, m + 1)
    <3>1. more[0] = st[0] /\ more = [i \in 0..(m + 1) |-> more[i]]
      BY <2>3 DEF Longer
    <3>2. more[0] = t
      BY <2>2, <3>1
    <3>3. \A i \in 0..(m + 1) : more[i] = IF i = 0 THEN t ELSE EraseStep(more[i - 1])
      BY <2>4, <3>2
    <3> QED
      BY <3>1, <3>3 DEF RunErase
  <2> QED
    BY <2>5
<1>3. n \in good
  <2> HIDE DEF good
  <2>1. \A i \in 0..n : i \in good
    BY ONLY <1>1, <1>2, n \in Nat, UpTo, ZenonT(30)
  <2> QED
    BY <2>1
<1> DEFINE now == CHOOSE st : RunErase(st, t, n)
<1>4. RunErase(now, t, n)
  <2>1. \E st : RunErase(st, t, n)
    BY <1>3
  <2> QED
    BY <2>1
<1>5. EraseBest(now[n]) = ErasePeers(M, start)
  BY DEF ErasePeers, Erasing, RunErase
<1> HIDE DEF now, good
<1>6. \A i \in 0..n : now[i] = IF i = 0 THEN t ELSE EraseStep(now[i - 1])
  BY <1>4 DEF RunErase
<1>7. ASSUME NEW i \in 0..(n - 1)
      PROVE  now[i + 1] = EraseStep(now[i])
  <2>1. i + 1 \in 0..n /\ i + 1 # 0 /\ (i + 1) - 1 = i
    OBVIOUS
  <2> QED
    BY <1>6, <2>1
<1>8. now[0] = t
  BY <1>6
<1>9. StepsErase(now, M, start, t, n)
  BY <1>5, <1>7, <1>8 DEF StepsErase
<1> QED
  BY <1>9

\* the peers of the resume data
Restored(m, i, e) == Inserted(m, i, NewPeer(e, TRUE, TRUE))
RunRestore(st, list, m) ==
  st = [i \in 0..m |-> IF i = 0 THEN NewPolicy ELSE Restored(st[i - 1], i, list[i])]
StepsRestore(now, list, n) ==
  /\ now[0] = NewPolicy /\ now[n] = Restore(list)
  /\ \A i \in 0..(n - 1) : now[i + 1] = Restored(now[i], i + 1, list[i + 1])
LEMMA FoldRestore ==
  ASSUME NEW list, NEW n \in Nat, n = Len(list)
  PROVE  \E now : StepsRestore(now, list, n)
<1> DEFINE good == {m \in 0..n : \E st : RunRestore(st, list, m)}
<1>1. 0 \in good
  <2>1. RunRestore([i \in 0..0 |-> NewPolicy], list, 0)
    BY DEF RunRestore
  <2> QED
    BY <2>1
<1>2. ASSUME NEW m \in 0..(n - 1), m \in good
      PROVE  m + 1 \in good
  <2>1. PICK st : RunRestore(st, list, m)
    BY <1>2
  <2>2. \A i \in 0..m : st[i] = IF i = 0 THEN NewPolicy ELSE Restored(st[i - 1], i, list[i])
    BY <2>1 DEF RunRestore
  <2> DEFINE x == Restored(st[m], m + 1, list[m + 1])
  <2> HIDE DEF x
  <2>3. PICK more : Longer(more, st, m, x)
    BY OneMore
  <2>4. ASSUME NEW i \in 1..(m + 1)
        PROVE  more[i] = Restored(more[i - 1], i, list[i])
    <3>0. i - 1 \in 0..m /\ i # 0
      OBVIOUS
    <3>1. more[i - 1] = st[i - 1]
      BY <2>3, <3>0 DEF Longer
    <3>2. CASE i \in 0..m
      BY <2>2, <2>3, <3>0, <3>1, <3>2 DEF Longer
    <3>3. CASE i = m + 1
      <4>1. more[i] = x /\ i - 1 = m
        BY <2>3, <3>3 DEF Longer
      <4> QED
        BY <3>1, <3>3, <4>1 DEF x
    <3> QED
      BY <3>2, <3>3
  <2>5. RunRestore(more, list, m + 1)
    <3>1. more[0] = st[0] /\ more = [i \in 0..(m + 1) |-> more[i]]
      BY <2>3 DEF Longer
    <3>2. more[0] = NewPolicy
      BY <2>2, <3>1
    <3>3. \A i \in 0..(m + 1) : more[i] = IF i = 0 THEN NewPolicy ELSE Restored(more[i - 1], i, list[i])
      BY <2>4, <3>2
    <3> QED
      BY <3>1, <3>3 DEF RunRestore
  <2> QED
    BY <2>5
<1>3. n \in good
  <2> HIDE DEF good
  <2>1. \A i \in 0..n : i \in good
    BY ONLY <1>1, <1>2, n \in Nat, UpTo, ZenonT(30)
  <2> QED
    BY <2>1
<1> DEFINE now == CHOOSE st : RunRestore(st, list, n)
<1>4. RunRestore(now, list, n)
  <2>1. \E st : RunRestore(st, list, n)
    BY <1>3
  <2> QED
    BY <2>1
<1>5. now[n] = Restore(list)
  BY DEF Restore, Restored, RunRestore
<1> HIDE DEF now, good
<1>6. \A i \in 0..n : now[i] = IF i = 0 THEN NewPolicy ELSE Restored(now[i - 1], i, list[i])
  BY <1>4 DEF RunRestore
<1>7. ASSUME NEW i \in 0..(n - 1)
      PROVE  now[i + 1] = Restored(now[i], i + 1, list[i + 1])
  <2>1. i + 1 \in 0..n /\ i + 1 # 0 /\ (i + 1) - 1 = i
    OBVIOUS
  <2> QED
    BY <1>6, <2>1
<1>8. now[0] = NewPolicy
  BY <1>6
<1>9. StepsRestore(now, list, n)
  BY <1>5, <1>7, <1>8 DEF StepsRestore
<1> QED
  BY <1>9

LEMMA ErasePeersOK ==
  ASSUME NEW m, ListOK(m), NEW start \in Nat \ {0}
  PROVE  LET r == ErasePeers(m, start)
         IN  ListOK(r.m) /\ Erased(m, r.m) /\ r.panic \in BOOLEAN
<1>1. Shaped(m) /\ m.len \in Nat
  BY ShapedIs DEF ListOK
<1>2. PICK n, t : n = m.len /\ t = Erasing(m, start)
  OBVIOUS
<1>3. n \in Nat
  BY <1>1, <1>2
<1>steps. PICK now : StepsErase(now, m, start, t, n)
  BY ONLY <1>2, <1>3, FoldErase
<1>4. /\ now[0] = t /\ EraseBest(now[n]) = ErasePeers(m, start)
      /\ \A i \in 0..(n - 1) : now[i + 1] = EraseStep(now[i])
  BY <1>steps DEF StepsErase
<1> DEFINE good == {i \in 0..n : ErasingOK(m, now[i])}
<1>5. 0 \in good
  <2>1. t = [m |-> m, at |-> start, best |-> 0, panic |-> FALSE]
    BY <1>2 DEF Erasing
  <2>2. Erased(m, m)
    BY <1>1, ErasedSelf
  <2>3. ErasingOK(m, t)
    BY <1>1, <2>1, <2>2 DEF ErasingOK
  <2> QED
    BY <1>3, <1>4, <2>3
<1>6. ASSUME NEW i \in 0..(n - 1), i \in good PROVE i + 1 \in good
  <2>1. i + 1 \in 0..n /\ now[i + 1] = EraseStep(now[i]) /\ ErasingOK(m, now[i])
    BY <1>3, <1>4, <1>6
  <2>2. ErasingOK(m, EraseStep(now[i]))
    BY <2>1, EraseStepOK
  <2> QED
    BY <2>1, <2>2
<1>7. n \in good
  <2> HIDE DEF good
  <2>1. \A i \in 0..n : i \in good
    BY ONLY <1>3, <1>5, <1>6, UpTo, ZenonT(30)
  <2> QED
    BY <1>3, <2>1
<1>8. PICK w : w = now[n]
  OBVIOUS
<1>9. ErasingOK(m, w)
  BY <1>7, <1>8
<1>10. PICK r : r = ErasePeers(m, start)
  OBVIOUS
<1>11. r = EraseBest(w)
  BY <1>4, <1>8, <1>10
<1> HIDE DEF good
<1>12. CASE w.panic \/ w.best = 0
  <2>1. r = w
    BY <1>11, <1>12 DEF EraseBest
  <2> QED
    BY <1>9, <1>10, <2>1 DEF ErasingOK
<1>13. CASE ~(w.panic \/ w.best = 0)
  <2>1. r = [w EXCEPT !.m = Deleted(@, w.best)]
    BY <1>11, <1>13 DEF EraseBest
  <2>2. /\ ListOK(w.m) /\ Erased(m, w.m) /\ w.best \in 1..w.m.len /\ ~Useful(Entry(w.m, w.best))
        /\ w.panic \in BOOLEAN /\ w = [m |-> w.m, at |-> w.at, best |-> w.best, panic |-> w.panic]
    <3>1. ListOK(w.m) /\ w.best \in 0..w.m.len
      BY <1>9 DEF ErasingOK
    <3>2. w.m.len \in Nat
      BY <3>1, ShapedIs DEF ListOK
    <3> QED
      BY <1>9, <1>13, <3>1, <3>2 DEF ErasingOK
  <2>3. r.m = Deleted(w.m, w.best) /\ r.panic = w.panic
    BY <2>1, <2>2
  <2>4. ListOK(r.m) /\ Erased(m, r.m)
    BY <2>2, <2>3, ErasedMore
  <2> QED
    BY <1>10, <2>2, <2>3, <2>4
<1> QED
  BY <1>12, <1>13

\* What a write to an entry leaves
LEMMA PeerFields ==
  ASSUME NEW p \in Peer
  PROVE  /\ p.ep \in Endpoints \cup {NoEndpoint} /\ p.conn \in Conns \cup {NoConn}
         /\ \A b \in BOOLEAN : LET q == [p EXCEPT !.resume = b]
                               IN  q \in Peer /\ q.ep = p.ep /\ q.conn = p.conn
         /\ \A b \in BOOLEAN : LET q == [p EXCEPT !.tried = b]
                               IN  q \in Peer /\ q.ep = p.ep /\ q.conn = p.conn
         /\ \A c \in Conns : LET q == [p EXCEPT !.conn = c]
                             IN  q \in Peer /\ q.ep = p.ep /\ q.conn = c
         /\ \A c \in Conns : LET q == [p EXCEPT !.conn = c, !.tried = TRUE]
                             IN  q \in Peer /\ q.ep = p.ep /\ q.conn = c
         /\ \A b \in BOOLEAN : \A f \in 0..MaxFails + 1 :
              LET q == [p EXCEPT !.conn = NoConn, !.tried = b, !.fails = f]
              IN  q \in Peer /\ q.ep = p.ep /\ q.conn = NoConn
  BY DEF Peer

\* Peers that are of use are still listed.
Stays(m, n) ==
  \A i \in 1..m.len : Useful(Entry(m, i)) => \E j \in 1..n.len : Entry(n, j).ep = Entry(m, i).ep
\* No entry has a connection that none had before, but those of F.
Taken(m, n, F) ==
  \A j \in 1..n.len : \/ Entry(n, j).conn \in F \cup {NoConn}
                      \/ \E i \in 1..m.len : Entry(n, j).conn = Entry(m, i).conn

\* The same peers, whose entries may have changed
LEMMA SameOK ==
  ASSUME NEW m, ListOK(m), NEW n, Shaped(n), n.len = m.len,
         \A j \in 1..m.len : Entry(n, j).ep = Entry(m, j).ep
  PROVE  ListOK(n) /\ Stays(m, n)
  BY DEF ListOK, Sorted, Stays

LEMMA ErasedStays ==
  ASSUME NEW m, NEW n, Erased(m, n)
  PROVE  Stays(m, n) /\ Taken(m, n, {})
  BY DEF Erased, Stays, Taken

\* Of a sorted list, those below a bound are the first ones.
LEMMA FirstAre ==
  ASSUME NEW n \in Nat, NEW b \in SUBSET (1..n), \A i \in b : \A j \in 1..n : j < i => j \in b
  PROVE  Cardinality(b) \in 0..n /\ b = 1..Cardinality(b)
<1> DEFINE rest == (1..n + 1) \ b
<1>1. PICK x \in rest : \A y \in rest : x <= y
  <2>1. rest \subseteq Nat /\ n + 1 \in rest
    OBVIOUS
  <2> HIDE DEF rest
  <2>2. PICK x \in rest : \A y \in rest : <<y, x>> \notin OpToRel(<, Nat)
    BY <2>1, NatLessThanWellFounded, WFMin
  <2>3. \A y \in rest : ~(y < x)
    BY <2>1, <2>2 DEF OpToRel
  <2> QED
    BY <2>1, <2>3
<1>2. b = 1..x - 1 /\ x \in 1..n + 1
  <2>1. x \in 1..n + 1 /\ x \notin b
    OBVIOUS
  <2>2. ASSUME NEW y \in 1..x - 1 PROVE y \in b
    <3>1. y \in 1..n + 1 /\ ~(x <= y)
      BY <2>1
    <3> QED
      BY <1>1, <3>1
  <2>3. ASSUME NEW y \in b PROVE y \in 1..x - 1
    <3>1. y \in 1..n /\ y # x
      BY <2>1
    <3>2. ~(x < y)
      <4>1. SUFFICES ASSUME x < y PROVE FALSE
        OBVIOUS
      <4>2. x \in 1..n
        BY <2>1, <3>1, <4>1
      <4> QED
        BY <2>1, <4>1, <4>2
    <3> QED
      BY <2>1, <3>1, <3>2
  <2> HIDE DEF rest
  <2> QED
    BY <2>1, <2>2, <2>3
<1>3. Cardinality(1..x - 1) = x - 1
  <2>1. x - 1 \in Nat
    BY <1>2
  <2> QED
    BY <2>1, FS_Interval, SMTT(30)
<1> QED
  BY <1>2, <1>3

\* AddPeer of a peer that is not known, where AddPeer inserts it
LEMMA InsertedOK ==
  ASSUME NEW m, ListOK(m), m.len < MaxPeerListSize, NEW p \in Peer, p.ep # NoEndpoint,
         NEW i \in 1..m.len + 1, \A j \in 1..m.len : j < i => Entry(m, j).ep < p.ep,
         \A j \in 1..m.len : j >= i => p.ep < Entry(m, j).ep
  PROVE  LET n == Inserted(m, i, p)
         IN  ListOK(n) /\ Keeps(m, n) /\ Stays(m, n) /\ Taken(m, n, {p.conn})
<1>1. PICK n : n = Inserted(m, i, p)
  OBVIOUS
<1>2. /\ Shaped(n) /\ Keeps(m, n) /\ n.len = m.len + 1 /\ m.len \in Nat
      /\ \A j \in 1..n.len :
           Entry(n, j) = IF j < i THEN Entry(m, j) ELSE IF j = i THEN p ELSE Entry(m, j - 1)
  BY <1>1, InsertedIs, ShapedIs DEF ListOK
<1>3. PICK k \in Nat : k = m.len
  BY <1>2
<1> DEFINE from(j) == IF j < i THEN j ELSE j - 1
<1>4. \A j \in 1..k + 1 : j # i => from(j) \in 1..k /\ Entry(n, j) = Entry(m, from(j))
  BY <1>2, <1>3
<1>5. Entry(n, i) = p /\ i \in 1..k + 1
  BY <1>2, <1>3
<1>6. Sorted(n)
  <2>1. \A j \in 1..k + 1 : Entry(n, j).ep # NoEndpoint
    BY <1>3, <1>4, <1>5 DEF ListOK, Sorted
  <2>2. ASSUME NEW j \in 1..k + 1, NEW h \in 1..k + 1, j < h
        PROVE  Entry(n, j).ep < Entry(n, h).ep
    <3>1. CASE j = i
      <4>1. from(h) \in 1..k /\ from(h) >= i /\ Entry(n, h) = Entry(m, from(h))
        BY <1>4, <2>2, <3>1
      <4> HIDE DEF from
      <4> QED
        BY <1>3, <1>5, <3>1, <4>1
    <3>2. CASE h = i
      <4>1. from(j) \in 1..k /\ from(j) < i /\ Entry(n, j) = Entry(m, from(j))
        BY <1>4, <2>2, <3>2
      <4> HIDE DEF from
      <4> QED
        BY <1>3, <1>5, <3>2, <4>1
    <3>3. CASE j # i /\ h # i
      <4>1. from(j) < from(h)
        BY <2>2, <3>3
      <4>2. /\ from(j) \in 1..k /\ Entry(n, j) = Entry(m, from(j))
            /\ from(h) \in 1..k /\ Entry(n, h) = Entry(m, from(h))
        BY <1>4, <3>3
      <4> HIDE DEF from
      <4> QED
        BY <1>3, <4>1, <4>2 DEF ListOK, Sorted
    <3> QED
      BY <3>1, <3>2, <3>3
  <2> QED
    BY <1>2, <1>3, <2>1, <2>2 DEF Sorted
<1>7. Stays(m, n)
  <2>1. ASSUME NEW h \in 1..k PROVE \E j \in 1..k + 1 : Entry(n, j) = Entry(m, h)
    <3>1. PICK j : j = IF h < i THEN h ELSE h + 1
      OBVIOUS
    <3>2. j \in 1..k + 1 /\ j # i /\ from(j) = h
      BY <1>3, <3>1
    <3> QED
      BY <1>4, <3>2
  <2> QED
    BY <1>2, <1>3, <2>1 DEF Stays
<1>8. Taken(m, n, {p.conn})
  <2>1. ASSUME NEW j \in 1..k + 1
        PROVE  Entry(n, j).conn = p.conn \/ \E h \in 1..k : Entry(n, j).conn = Entry(m, h).conn
    BY <1>4, <1>5
  <2> QED
    BY <1>2, <1>3, <2>1 DEF Taken
<1> QED
  BY <1>1, <1>2, <1>6, <1>7, <1>8 DEF ListOK

\* Insert: in its place, or the source that is new for a peer that is known
LEMMA InsertOK ==
  ASSUME NEW m, ListOK(m), NEW p \in Peer, p.ep # NoEndpoint, p.conn = NoConn
  PROVE  LET n == Insert(m, p)
         IN  ListOK(n) /\ Keeps(m, n) /\ Stays(m, n) /\ Taken(m, n, {})
<1> DEFINE known == Find(m, p.ep)
           before == {i \in 1..m.len : Peers(m)[i].ep < p.ep}
<1>1. PICK n : n = Insert(m, p)
  OBVIOUS
<1>2. n = IF m.len >= MaxPeerListSize THEN m
          ELSE IF known = {} THEN Inserted(m, Cardinality(before) + 1, p)
          ELSE [m EXCEPT !.arrays[m.live] =
                 [i \in DOMAIN @ |-> IF i \in known THEN Known(@[i], p) ELSE @[i]]]
  BY <1>1 DEF Insert
<1>3. /\ Shaped(m) /\ m.len \in Nat /\ MaxPeerListSize \in Nat /\ Erased(m, m) /\ Room(m) \in Nat
      /\ p.ep \in Endpoints /\ p.ep \in Nat
      /\ \A i \in 1..m.len : /\ i \in 1..Room(m) /\ Entry(m, i) \in Peer /\ Entry(m, i).ep \in Nat
                             /\ Entry(m, i).ep \in Endpoints
  <2>1. Shaped(m) /\ m.len \in Nat /\ MaxPeerListSize \in Nat /\ Erased(m, m) /\ Room(m) \in Nat
    BY ShapedIs, ErasedSelf, PeerPolicyAssumption DEF ListOK
  <2>2. p.ep \in Endpoints /\ p.ep \in Nat
    BY PeerFields, PeerPolicyAssumption
  <2>3. ASSUME NEW i \in 1..m.len
        PROVE  /\ i \in 1..Room(m) /\ Entry(m, i) \in Peer /\ Entry(m, i).ep \in Nat
               /\ Entry(m, i).ep \in Endpoints
    <3>1. i \in 1..Room(m) /\ Entry(m, i) \in Peer
      BY <2>1, ShapedIs
    <3>2. Entry(m, i).ep \in Endpoints \cup {NoEndpoint}
      BY <3>1, PeerFields
    <3>3. Entry(m, i).ep # NoEndpoint
      BY DEF ListOK, Sorted
    <3> QED
      BY <3>1, <3>2, <3>3, PeerPolicyAssumption
  <2> QED
    BY <2>1, <2>2, <2>3
<1>4. before = {i \in 1..m.len : Entry(m, i).ep < p.ep}
  BY <1>3, PeersAre
<1>5. known = {i \in 1..m.len : Entry(m, i).ep = p.ep}
  BY <1>3, FindIs
<1> HIDE DEF before, known
<1>6. CASE m.len >= MaxPeerListSize
  <2>1. n = m
    BY <1>2, <1>6
  <2> QED
    BY <1>1, <1>3, <2>1, ErasedStays DEF Erased
<1>7. CASE m.len < MaxPeerListSize /\ known = {}
  <2>1. PICK k : k = Cardinality(before)
    OBVIOUS
  <2>2. k \in 0..m.len /\ before = 1..k
    <3>1. before \in SUBSET (1..m.len)
      BY <1>4
    <3>2. ASSUME NEW i \in before, NEW j \in 1..m.len, j < i PROVE j \in before
      <4>1. Entry(m, j).ep < Entry(m, i).ep /\ Entry(m, i).ep < p.ep /\ i \in 1..m.len
        BY <1>4, <3>2 DEF ListOK, Sorted
      <4> QED
        BY <1>3, <1>4, <4>1
    <3> QED
      BY <1>3, <2>1, <3>1, <3>2, FirstAre
  <2>3. n = Inserted(m, k + 1, p)
    BY <1>2, <1>3, <1>7, <2>1
  <2>4. \A j \in 1..m.len : j < k + 1 => Entry(m, j).ep < p.ep
    BY <1>3, <1>4, <2>2
  <2>5. ASSUME NEW j \in 1..m.len, j >= k + 1 PROVE p.ep < Entry(m, j).ep
    <3>1. j \notin before /\ j \notin known
      BY <1>3, <1>7, <2>2, <2>5
    <3>2. ~(Entry(m, j).ep < p.ep) /\ Entry(m, j).ep # p.ep
      BY <1>4, <1>5, <3>1
    <3> QED
      BY <1>3, <3>2
  <2>6. k + 1 \in 1..m.len + 1
    BY <1>3, <2>2
  <2>7. ListOK(n) /\ Keeps(m, n) /\ Stays(m, n) /\ Taken(m, n, {p.conn})
    BY <1>7, <2>3, <2>4, <2>5, <2>6, InsertedOK
  <2>8. Taken(m, n, {})
    BY <2>7 DEF Taken
  <2> QED
    BY <1>1, <2>7, <2>8
<1>8. CASE m.len < MaxPeerListSize /\ known # {}
  <2> DEFINE old == m.arrays[m.live]
             array == [i \in DOMAIN old |-> IF i \in known THEN Known(old[i], p) ELSE old[i]]
  <2>0. ~(m.len >= MaxPeerListSize)
    BY <1>3, <1>8
  <2>1. n = [m EXCEPT !.arrays[m.live] = array]
    <3>1. n = [m EXCEPT !.arrays[m.live] =
                [i \in DOMAIN @ |-> IF i \in known THEN Known(@[i], p) ELSE @[i]]]
      BY ONLY <1>2, <1>8, <2>0
    <3>2. n = [m EXCEPT !.arrays = [@ EXCEPT ![m.live] = array]]
      BY ONLY <3>1
    <3> HIDE DEF array
    <3> QED
      BY ONLY <3>2
  <2>2. /\ m = [arrays |-> m.arrays, live |-> m.live, len |-> m.len] /\ m.len \in 0..Room(m)
        /\ m.len <= MaxPeerListSize
    BY <1>3 DEF Shaped
  <2>3. DOMAIN old = 1..Room(m) /\ \A i \in 1..Room(m) : old[i] = Entry(m, i) /\ old[i] \in Peer
    BY <1>3, ShapedIs DEF Entry
  <2>4. /\ \A i \in 1..Room(m) : /\ array[i] \in Peer /\ array[i].ep = old[i].ep
                                 /\ array[i].conn = old[i].conn
        /\ array = [i \in 1..Room(m) |-> array[i]]
    <3>1. array = [i \in 1..Room(m) |-> array[i]]
      BY <2>3
    <3>2. ASSUME NEW i \in 1..Room(m)
          PROVE  array[i] \in Peer /\ array[i].ep = old[i].ep /\ array[i].conn = old[i].conn
      <4>1. old[i] \in Peer /\ array[i] = IF i \in known THEN Known(old[i], p) ELSE old[i]
        BY <2>3
      <4> HIDE DEF array, old
      <4>2. old[i].resume \in BOOLEAN /\ p.resume \in BOOLEAN
        BY <4>1 DEF Peer
      <4>3. (old[i].resume \/ p.resume) \in BOOLEAN
        OBVIOUS
      <4>4. PICK b \in BOOLEAN : b = (old[i].resume \/ p.resume)
        BY <4>3
      <4>5. Known(old[i], p) = [old[i] EXCEPT !.resume = b]
        BY <4>4 DEF Known
      <4>6. LET q == [old[i] EXCEPT !.resume = b] IN q \in Peer /\ q.ep = old[i].ep /\ q.conn = old[i].conn
        BY ONLY <4>1, PeerFields, b \in BOOLEAN, Zenon
      <4> QED
        BY <4>1, <4>5, <4>6
    <3> QED
      BY <3>1, <3>2
  <2> HIDE DEF array, old
  <2>5. array \in Seq(Peer) /\ Len(array) = Room(m)
    BY ONLY <1>3, <2>4
  <2>6. /\ n = [arrays |-> n.arrays, live |-> n.live, len |-> n.len]
        /\ n.arrays = [m.arrays EXCEPT ![m.live] = array] /\ n.live = m.live /\ n.len = m.len
    BY ONLY <2>1, <2>2
  <2>7. n.len \in 0..Room(m) /\ n.len <= MaxPeerListSize
    BY <2>2, <2>6
  <2>8. Shaped(n) /\ Keeps(m, n) /\ \A j \in 1..Room(m) : Entry(n, j) = array[j]
    BY <1>3, <2>5, <2>6, <2>7, LiveIs
  <2>9. \A j \in 1..m.len : Entry(n, j).ep = Entry(m, j).ep /\ Entry(n, j).conn = Entry(m, j).conn
    BY <1>3, <2>3, <2>4, <2>8
  <2>10. ListOK(n) /\ Stays(m, n)
    BY <2>6, <2>8, <2>9, SameOK
  <2>11. Taken(m, n, {})
    BY <2>6, <2>9 DEF Taken
  <2> QED
    BY <1>1, <2>8, <2>10, <2>11
<1>9. m.len >= MaxPeerListSize \/ m.len < MaxPeerListSize
  BY <1>3
<1> QED
  BY <1>6, <1>7, <1>8, <1>9

\* AddPeer, with ErasePeers when the list is full
LEMMA AddPeerOK ==
  ASSUME NEW m, ListOK(m), NEW p \in Peer, p.ep # NoEndpoint, p.conn = NoConn,
         NEW start \in Nat \ {0}
  PROVE  LET r == AddPeer(m, p, start)
         IN  /\ ListOK(r.m) /\ Keeps(m, r.m) /\ Stays(m, r.m) /\ Taken(m, r.m, {})
             /\ r.panic \in BOOLEAN
<1>1. PICK room, r : /\ room = IF m.len >= MaxPeerListSize THEN ErasePeers(m, start)
                               ELSE [m |-> m, panic |-> FALSE]
                     /\ r = AddPeer(m, p, start)
  OBVIOUS
<1>2. r = [m |-> IF room.panic THEN room.m ELSE Insert(room.m, p), panic |-> room.panic]
  BY <1>1 DEF AddPeer, AddInto
<1>3. ListOK(room.m) /\ Erased(m, room.m) /\ room.panic \in BOOLEAN
  <2>1. CASE m.len >= MaxPeerListSize
    BY <1>1, <2>1, ErasePeersOK
  <2>2. CASE ~(m.len >= MaxPeerListSize)
    <3>1. room.m = m /\ room.panic = FALSE
      BY <1>1, <2>2
    <3> QED
      BY <3>1, ErasedSelf DEF ListOK
  <2> QED
    BY <2>1, <2>2
<1>4. r.panic \in BOOLEAN /\ (r.m = room.m \/ r.m = Insert(room.m, p))
  BY <1>2, <1>3
<1>5. CASE r.m = room.m
  BY <1>1, <1>3, <1>4, <1>5, ErasedStays DEF Erased
<1>6. CASE r.m = Insert(room.m, p)
  <2>1. PICK k, n : k = room.m /\ n = Insert(k, p) /\ r.m = n
    BY <1>6
  <2>2. ListOK(n) /\ Keeps(k, n) /\ Stays(k, n) /\ Taken(k, n, {})
    BY <1>3, <2>1, InsertOK
  <2>3. ListOK(k) /\ Erased(m, k) /\ Keeps(m, k)
    BY <1>3, <2>1 DEF Erased
  <2>4. Keeps(m, n)
    BY <2>2, <2>3, KeepsBoth DEF ListOK
  <2>5. Stays(m, n)
    <3>1. ASSUME NEW i \in 1..m.len, Useful(Entry(m, i))
          PROVE  \E j \in 1..n.len : Entry(n, j).ep = Entry(m, i).ep
      <4>1. PICK h \in 1..k.len : Entry(k, h) = Entry(m, i)
        BY <2>3, <3>1 DEF Erased
      <4> QED
        BY <2>2, <3>1, <4>1 DEF Stays
    <3> QED
      BY <3>1 DEF Stays
  <2>6. Taken(m, n, {})
    BY <2>2, <2>3 DEF Taken, Erased
  <2> QED
    BY <1>1, <1>4, <2>1, <2>2, <2>4, <2>5, <2>6
<1> QED
  BY <1>4, <1>5, <1>6

\* A write through a pointer
LEMMA SetIs ==
  ASSUME NEW m, Shaped(m), NEW ptr, Holds(m, ptr), NEW p \in Peer
  PROVE  LET n == Set(m, ptr, p)
         IN  /\ Shaped(n) /\ Keeps(m, n) /\ n.len = m.len /\ n.live = m.live
             /\ \A j \in 1..m.len : Entry(n, j) = IF ptr = <<m.live, j>> THEN p ELSE Entry(m, j)
<1>1. PICK n, a, i : n = Set(m, ptr, p) /\ a = ptr[1] /\ i = ptr[2]
  OBVIOUS
<1>2. /\ m = [arrays |-> m.arrays, live |-> m.live, len |-> m.len]
      /\ m.arrays \in Seq(Seq(Peer)) /\ m.live \in 1..Len(m.arrays) /\ Len(m.arrays) \in Nat
      /\ DOMAIN m.arrays = 1..Len(m.arrays)
      /\ m.len \in 0..Room(m) /\ m.len <= MaxPeerListSize
  BY ShapedIs DEF Shaped
<1>3. ptr = <<a, i>> /\ a \in 1..Len(m.arrays) /\ i \in 1..Len(m.arrays[a])
  BY <1>1 DEF Holds
<1>4. PICK old : old = m.arrays[a]
  OBVIOUS
<1>5. PICK array : array = [old EXCEPT ![i] = p]
  OBVIOUS
<1>6. old \in Seq(Peer) /\ DOMAIN old = 1..Len(old) /\ Len(old) \in Nat /\ i \in 1..Len(old)
  BY <1>2, <1>3, <1>4, ElementOfSeq, LenProperties
<1>7. /\ array \in Seq(Peer) /\ Len(array) = Len(old)
      /\ \A j \in 1..Len(old) : array[j] = IF j = i THEN p ELSE old[j]
  <2>1. p \in Peer
    OBVIOUS
  <2> QED
    BY ONLY <1>5, <1>6, <2>1
<1>8. n = [m EXCEPT !.arrays[a][i] = p]
  BY <1>1 DEF Set
<1>9. PICK arrays : arrays = [m.arrays EXCEPT ![a] = array]
  OBVIOUS
<1>10. n = [m EXCEPT !.arrays = arrays]
  BY ONLY <1>4, <1>5, <1>8, <1>9
<1>11. n = [arrays |-> arrays, live |-> m.live, len |-> m.len]
  BY ONLY <1>2, <1>10
<1>12. n.arrays = arrays /\ n.live = m.live /\ n.len = m.len
  BY ONLY <1>11
<1>13. /\ arrays \in Seq(Seq(Peer)) /\ Len(arrays) = Len(m.arrays)
       /\ \A b \in 1..Len(m.arrays) : arrays[b] = IF b = a THEN array ELSE m.arrays[b]
  <2>1. PICK before : before = m.arrays
    OBVIOUS
  <2> QED
    BY ONLY <1>2, <1>3, <1>7, <1>9, <2>1
<1>14. \A b \in 1..Len(m.arrays) : Len(n.arrays[b]) = Len(m.arrays[b])
  BY <1>4, <1>7, <1>12, <1>13
<1>15. Keeps(m, n)
  BY <1>2, <1>12, <1>13, <1>14 DEF Keeps
<1>16. Shaped(n)
  BY <1>2, <1>11, <1>12, <1>13, <1>14 DEF Shaped, Room
<1>17. ASSUME NEW j \in 1..m.len
       PROVE  Entry(n, j) = IF ptr = <<m.live, j>> THEN p ELSE Entry(m, j)
  <2>1. j \in 1..Room(m)
    BY <1>2, ShapedIs
  <2>2. CASE m.live = a
    <3>1. Entry(n, j) = array[j] /\ Entry(m, j) = old[j] /\ j \in 1..Len(old)
      BY <1>2, <1>4, <1>12, <1>13, <2>1, <2>2 DEF Entry, Room
    <3>2. ptr = <<m.live, j>> <=> j = i
      BY <1>3, <2>2
    <3> QED
      BY <1>7, <3>1, <3>2
  <2>3. CASE m.live # a
    <3>1. Entry(n, j) = Entry(m, j)
      BY <1>2, <1>12, <1>13, <2>3 DEF Entry
    <3>2. ptr # <<m.live, j>>
      BY <1>3, <2>3
    <3> QED
      BY <3>1, <3>2
  <2> QED
    BY <2>2, <2>3
<1> QED
  BY <1>1, <1>12, <1>15, <1>16, <1>17

\* The same entries
LEMMA SameIs ==
  ASSUME NEW m, ListOK(m), NEW n, Shaped(n), n.len = m.len,
         \A j \in 1..m.len : Entry(n, j).ep = Entry(m, j).ep /\ Entry(n, j).conn = Entry(m, j).conn
  PROVE  ListOK(n) /\ Stays(m, n) /\ Taken(m, n, {})
  BY SameOK DEF Taken

\* A pointer to an element is not nil.
LEMMA NotNil == \A m, ptr : Holds(m, ptr) => ptr # Nil
  BY DEF Holds, Nil

\* The end of a connection, for an entry it has a pointer to: what the entry had
\* is gone from the list, whether the entry itself goes or stays.
Leaves(m, n, ptr) ==
  /\ ListOK(n) /\ Keeps(m, n)
  /\ \A j \in 1..n.len :
       \/ Entry(n, j).conn = NoConn
       \/ \E i \in 1..m.len : ptr # <<m.live, i>> /\ Entry(n, j).conn = Entry(m, i).conn
LEMMA ConnectionClosedOK ==
  ASSUME NEW m, ListOK(m), NEW ptr, Holds(m, ptr), NEW paused \in BOOLEAN, NEW failed \in BOOLEAN
  PROVE  Leaves(m, ConnectionClosed(m, ptr, paused, failed), ptr)
<1> DEFINE p == At(m, ptr)
           told == [p EXCEPT !.conn = NoConn, !.tried = ~paused,
                             !.fails = IF failed /\ ~paused /\ @ <= MaxFails THEN @ + 1 ELSE @]
           k == Set(m, ptr, told)
           gone == Find(k, p.ep)
<1>1. PICK n : n = ConnectionClosed(m, ptr, paused, failed)
  OBVIOUS
<1>2. n = IF paused \/ p.connectable \/ gone = {} THEN k
          ELSE Deleted(k, CHOOSE i \in gone : \A j \in gone : i <= j)
  BY <1>1 DEF ConnectionClosed
<1>3. Shaped(m) /\ m.len \in Nat
  BY ShapedIs DEF ListOK
<1>4. p \in Peer
  <2>1. m.arrays \in Seq(Seq(Peer)) /\ ptr[1] \in 1..Len(m.arrays) /\ ptr[2] \in 1..Len(m.arrays[ptr[1]])
    BY <1>3 DEF Shaped, Holds
  <2>2. m.arrays[ptr[1]] \in Seq(Peer)
    BY <2>1, ElementOfSeq
  <2> QED
    BY <2>1, <2>2, ElementOfSeq DEF At
<1> HIDE DEF p
<1>5. told \in Peer /\ told.ep = p.ep /\ told.conn = NoConn
  <2>1. PICK f : f = IF failed /\ ~paused /\ p.fails <= MaxFails THEN p.fails + 1 ELSE p.fails
    OBVIOUS
  <2>2. p.fails \in 0..MaxFails + 1 /\ MaxFails \in Nat
    BY <1>4, PeerPolicyAssumption DEF Peer
  <2>3. f \in 0..MaxFails + 1
    BY <2>1, <2>2
  <2>4. PICK b \in BOOLEAN : b = ~paused
    OBVIOUS
  <2>5. told = [p EXCEPT !.conn = NoConn, !.tried = b, !.fails = f]
    BY <2>1, <2>4
  <2> HIDE DEF told
  <2>6. LET q == [p EXCEPT !.conn = NoConn, !.tried = b, !.fails = f]
        IN  q \in Peer /\ q.ep = p.ep /\ q.conn = NoConn
    BY ONLY <1>4, <2>3, b \in BOOLEAN DEF Peer
  <2> QED
    BY <2>5, <2>6
<1> HIDE DEF told
<1>6. /\ Shaped(k) /\ Keeps(m, k) /\ k.len = m.len /\ k.live = m.live
      /\ \A j \in 1..m.len : Entry(k, j) = IF ptr = <<m.live, j>> THEN told ELSE Entry(m, j)
  BY <1>3, <1>5, SetIs
<1> HIDE DEF k
<1>7. \A j \in 1..m.len : ptr = <<m.live, j>> => p = Entry(m, j)
  BY DEF p, At, Entry
<1>8. \A j \in 1..m.len : Entry(k, j).ep = Entry(m, j).ep
  BY <1>5, <1>6, <1>7
<1>9. ListOK(k)
  BY <1>6, <1>8, SameOK
<1>10. \A j \in 1..m.len : \/ Entry(k, j).conn = NoConn
                           \/ ptr # <<m.live, j>> /\ Entry(k, j).conn = Entry(m, j).conn
  BY <1>5, <1>6
<1>11. CASE n = k
  BY <1>1, <1>6, <1>9, <1>10, <1>11 DEF Leaves
<1>12. CASE n # k
  <2>1. PICK i : i = CHOOSE x \in gone : \A y \in gone : x <= y
    OBVIOUS
  <2>2. n = Deleted(k, i) /\ gone # {}
    BY <1>2, <1>12, <2>1
  <2>3. gone = {j \in 1..k.len : Entry(k, j).ep = p.ep}
    BY <1>6, FindIs
  <2> HIDE DEF gone
  <2>4. i \in gone
    <3>1. gone \subseteq Nat
      BY <2>3
    <3>2. PICK x \in gone : \A y \in gone : <<y, x>> \notin OpToRel(<, Nat)
      BY <2>2, <3>1, NatLessThanWellFounded, WFMin
    <3>3. \A y \in gone : ~(y < x)
      BY <3>1, <3>2 DEF OpToRel
    <3>4. \A y \in gone : x <= y
      BY <3>1, <3>3
    <3> QED
      BY <2>1, <3>4
  <2>5. i \in 1..k.len /\ i \in Nat
    BY <2>3, <2>4
  <2>6. /\ Shaped(n) /\ Keeps(k, n) /\ n.len = k.len - 1
        /\ \A j \in 1..n.len : Entry(n, j) = Entry(k, IF j < i THEN j ELSE j + 1)
    BY <1>6, <2>2, <2>5, DeletedIs
  <2>7. ListOK(n)
    BY <1>9, <2>2, <2>5, DeletedOK
  <2>8. Keeps(m, n)
    BY <1>3, <1>6, <2>6, KeepsBoth
  <2>9. ASSUME NEW j \in 1..n.len PROVE (IF j < i THEN j ELSE j + 1) \in 1..m.len
    BY <1>3, <1>6, <2>5, <2>6
  <2>10. \A j \in 1..n.len :
           \/ Entry(n, j).conn = NoConn
           \/ \E h \in 1..m.len : ptr # <<m.live, h>> /\ Entry(n, j).conn = Entry(m, h).conn
    BY <1>10, <2>6, <2>9
  <2> QED
    BY <1>1, <2>7, <2>8, <2>10 DEF Leaves
<1> QED
  BY <1>11, <1>12

\* ResumeWithState
LEMMA ForgetTimesOK ==
  ASSUME NEW m, ListOK(m)
  PROVE  LET n == ForgetTimes(m)
         IN  ListOK(n) /\ Keeps(m, n) /\ Stays(m, n) /\ Taken(m, n, {})
<1> DEFINE old == m.arrays[m.live]
           array == [i \in DOMAIN old |-> IF i <= m.len /\ old[i].conn = NoConn
                                          THEN [old[i] EXCEPT !.tried = FALSE] ELSE old[i]]
<1>1. PICK n : n = ForgetTimes(m)
  OBVIOUS
<1>2. n = [m EXCEPT !.arrays[m.live] = array]
  BY <1>1 DEF ForgetTimes
<1>3. /\ Shaped(m) /\ m.len \in Nat /\ Room(m) \in Nat /\ \A i \in 1..m.len : i \in 1..Room(m)
      /\ m = [arrays |-> m.arrays, live |-> m.live, len |-> m.len] /\ m.len \in 0..Room(m)
      /\ m.len <= MaxPeerListSize
      /\ DOMAIN old = 1..Room(m) /\ \A i \in 1..Room(m) : old[i] = Entry(m, i) /\ old[i] \in Peer
  BY ShapedIs DEF ListOK, Shaped, Entry
<1>4. array = [i \in 1..Room(m) |-> array[i]]
  BY <1>3
<1>5. ASSUME NEW i \in 1..Room(m)
      PROVE  array[i] \in Peer /\ array[i].ep = old[i].ep /\ array[i].conn = old[i].conn
  <2>1. /\ old[i] \in Peer
        /\ array[i] = old[i] \/ array[i] = [old[i] EXCEPT !.tried = FALSE]
    BY <1>3
  <2> HIDE DEF array, old
  <2>2. LET q == [old[i] EXCEPT !.tried = FALSE]
        IN  q \in Peer /\ q.ep = old[i].ep /\ q.conn = old[i].conn
    BY <2>1 DEF Peer
  <2> QED
    BY <2>1, <2>2
<1> HIDE DEF array, old
<1>6. array \in Seq(Peer) /\ Len(array) = Room(m)
  BY ONLY <1>3, <1>4, <1>5
<1>7. /\ n = [arrays |-> n.arrays, live |-> n.live, len |-> n.len]
      /\ n.arrays = [m.arrays EXCEPT ![m.live] = array] /\ n.live = m.live /\ n.len = m.len
  BY ONLY <1>2, <1>3
<1>8. n.len \in 0..Room(m) /\ n.len <= MaxPeerListSize
  BY <1>3, <1>7
<1>9. Shaped(n) /\ Keeps(m, n) /\ \A j \in 1..Room(m) : Entry(n, j) = array[j]
  BY <1>3, <1>6, <1>7, <1>8, LiveIs
<1>10. \A j \in 1..m.len : Entry(n, j).ep = Entry(m, j).ep /\ Entry(n, j).conn = Entry(m, j).conn
  BY <1>3, <1>5, <1>9
<1> QED
  BY <1>1, <1>7, <1>9, <1>10, SameIs

\* The garbage collector
LEMMA CollectedOK ==
  ASSUME NEW m, ListOK(m), NEW P
  PROVE  LET n == Collected(m, P)
         IN  /\ ListOK(n) /\ Stays(m, n) /\ Taken(m, n, {}) /\ n.live = m.live /\ n.len = m.len
             /\ \A ptr \in P : Holds(m, ptr) => Holds(n, ptr)
             /\ \A j \in 1..m.len : Entry(n, j) = Entry(m, j)
<1> DEFINE kept(a) == a = m.live \/ \E p \in P : p # Nil /\ p[1] = a
           arrays == [a \in DOMAIN m.arrays |-> IF kept(a) THEN m.arrays[a] ELSE << >>]
<1>1. PICK n : n = Collected(m, P)
  OBVIOUS
<1>2. n = [m EXCEPT !.arrays = arrays]
  BY <1>1 DEF Collected
<1>3. /\ Shaped(m) /\ m = [arrays |-> m.arrays, live |-> m.live, len |-> m.len]
      /\ m.arrays \in Seq(Seq(Peer)) /\ m.live \in 1..Len(m.arrays) /\ Len(m.arrays) \in Nat
      /\ DOMAIN m.arrays = 1..Len(m.arrays)
      /\ m.len \in 0..Room(m) /\ m.len <= MaxPeerListSize
  BY ShapedIs DEF ListOK, Shaped
<1> HIDE DEF kept
<1>4. /\ arrays = [a \in 1..Len(m.arrays) |-> arrays[a]]
      /\ \A a \in 1..Len(m.arrays) : arrays[a] = IF kept(a) THEN m.arrays[a] ELSE << >>
  BY <1>3
<1> HIDE DEF arrays
<1>5. n.arrays = arrays /\ n.live = m.live /\ n.len = m.len /\ n = [arrays |-> n.arrays, live |-> n.live, len |-> n.len]
  BY ONLY <1>2, <1>3
<1>6. arrays \in Seq(Seq(Peer)) /\ Len(arrays) = Len(m.arrays)
  <2>1. \A a \in 1..Len(m.arrays) : arrays[a] \in Seq(Peer)
    <3>1. \A a \in 1..Len(m.arrays) : m.arrays[a] \in Seq(Peer)
      BY <1>3, ElementOfSeq
    <3>2. << >> \in Seq(Peer)
      OBVIOUS
    <3> QED
      BY <1>4, <3>1, <3>2
  <2>2. PICK c \in Nat : c = Len(m.arrays)
    BY <1>3
  <2>3. arrays = [a \in 1..c |-> arrays[a]] /\ \A a \in 1..c : arrays[a] \in Seq(Peer)
    BY <1>4, <2>1, <2>2
  <2>4. arrays \in Seq(Seq(Peer)) /\ Len(arrays) = c
    BY ONLY <2>3, c \in Nat
  <2> QED
    BY <2>2, <2>4
<1>7. kept(m.live)
  BY DEF kept
<1>8. arrays[m.live] = m.arrays[m.live]
  BY <1>3, <1>4, <1>7
<1>9. Room(n) = Room(m) /\ \A j \in 1..m.len : Entry(n, j) = Entry(m, j)
  BY <1>5, <1>8 DEF Room, Entry
<1>10. Shaped(n)
  BY <1>3, <1>5, <1>6, <1>9 DEF Shaped
<1>11. ASSUME NEW ptr \in P, Holds(m, ptr) PROVE Holds(n, ptr)
  <2>1. ptr = <<ptr[1], ptr[2]>> /\ ptr[1] \in 1..Len(m.arrays) /\ ptr[2] \in 1..Len(m.arrays[ptr[1]])
    BY <1>11 DEF Holds
  <2>2. kept(ptr[1])
    BY <1>11, NotNil DEF kept
  <2>3. arrays[ptr[1]] = m.arrays[ptr[1]]
    BY <1>4, <2>1, <2>2
  <2> QED
    BY <1>5, <1>6, <2>1, <2>3 DEF Holds
<1> QED
  BY <1>1, <1>5, <1>9, <1>10, <1>11, SameIs

\* The peers of the resume data, in ascending order
RestoredOK(eps, m, k) ==
  /\ Shaped(m) /\ m.len = k
  /\ \A j \in 1..k : Entry(m, j).ep = eps[j] /\ Entry(m, j).conn = NoConn
LEMMA RestoreOK ==
  ASSUME NEW eps \in Seq(Endpoints), Len(eps) <= MaxPeerListSize,
         \A i, j \in 1..Len(eps) : i < j => eps[i] < eps[j]
  PROVE  ListOK(Restore(eps))
<1>1. PICK n : n = Len(eps)
  OBVIOUS
<1>2. /\ n \in Nat /\ MaxPeerListSize \in Nat /\ n <= MaxPeerListSize
      /\ \A i \in 1..n : eps[i] \in Endpoints /\ eps[i] # NoEndpoint
  <2>1. n \in Nat /\ MaxPeerListSize \in Nat /\ n <= MaxPeerListSize
    BY <1>1, LenProperties, PeerPolicyAssumption
  <2>2. \A i \in 1..n : eps[i] \in Endpoints
    BY <1>1, ElementOfSeq
  <2>3. NoEndpoint \notin Endpoints
    BY PeerPolicyAssumption DEF NoEndpoint
  <2> QED
    BY <2>1, <2>2, <2>3
<1>steps. PICK now : StepsRestore(now, eps, n)
  BY ONLY <1>1, <1>2, FoldRestore
<1>3. /\ now[0] = NewPolicy /\ now[n] = Restore(eps)
      /\ \A i \in 0..(n - 1) : now[i + 1] = Restored(now[i], i + 1, eps[i + 1])
  BY <1>steps DEF StepsRestore
<1> DEFINE good == {i \in 0..n : RestoredOK(eps, now[i], i)}
<1>4. 0 \in good
  <2>1. NewPolicy = [arrays |-> << << >> >>, live |-> 1, len |-> 0]
    BY DEF NewPolicy
  <2>2. << << >> >> \in Seq(Seq(Peer)) /\ Len(<< << >> >>) = 1 /\ << << >> >>[1] = << >> /\ Len(<< >>) = 0
    <3>1. << >> \in Seq(Peer) /\ Len(<< >>) = 0
      OBVIOUS
    <3>2. PICK none : none = << >>
      OBVIOUS
    <3>3. <<none>> \in Seq(Seq(Peer)) /\ Len(<<none>>) = 1 /\ <<none>>[1] = none
      BY ONLY <3>1, <3>2, OneIs, Zenon
    <3> QED
      BY <3>1, <3>2, <3>3
  <2>3. PICK arrays : arrays = << << >> >>
    OBVIOUS
  <2>4. /\ NewPolicy = [arrays |-> NewPolicy.arrays, live |-> NewPolicy.live, len |-> NewPolicy.len]
        /\ NewPolicy.arrays = arrays /\ NewPolicy.live = 1 /\ NewPolicy.len = 0
    BY ONLY <2>1, <2>3
  <2>5. Shaped(NewPolicy) /\ NewPolicy.len = 0
    BY ONLY <1>2, <2>2, <2>3, <2>4 DEF Shaped, Room
  <2>6. RestoredOK(eps, NewPolicy, 0)
    BY <2>5 DEF RestoredOK
  <2> QED
    BY <1>2, <1>3, <2>6
<1>5. ASSUME NEW i \in 0..(n - 1), i \in good PROVE i + 1 \in good
  <2>1. PICK m, k, p : m = now[i] /\ k = i + 1 /\ p = NewPeer(eps[k], TRUE, TRUE)
    OBVIOUS
  <2>2. k \in 1..n /\ k \in 0..n /\ RestoredOK(eps, m, i) /\ i \in Nat
    BY <1>2, <1>5, <2>1
  <2>3. p \in Peer /\ p.ep = eps[k] /\ p.conn = NoConn
    BY <1>2, <2>1, <2>2, ZeroIsPeer
  <2>0. PICK v : v = now[k]
    OBVIOUS
  <2>4. v = Inserted(m, k, p)
    BY <1>3, <2>0, <2>1 DEF Restored
  <2>5. Shaped(m) /\ m.len = i /\ k \in 1..m.len + 1 /\ m.len < MaxPeerListSize
    BY <1>2, <2>1, <2>2 DEF RestoredOK
  <2>6. /\ Shaped(v) /\ v.len = k
        /\ \A j \in 1..v.len :
             Entry(v, j) = IF j < k THEN Entry(m, j) ELSE IF j = k THEN p ELSE Entry(m, j - 1)
    <3>1. LET u == Inserted(m, k, p) IN
          /\ Shaped(u) /\ u.len = m.len + 1
          /\ \A j \in 1..u.len :
               Entry(u, j) = IF j < k THEN Entry(m, j) ELSE IF j = k THEN p ELSE Entry(m, j - 1)
      BY ONLY <2>3, <2>5, InsertedIs
    <3>2. m.len + 1 = k
      BY <2>1, <2>5
    <3> QED
      BY <2>4, <3>1, <3>2
  <2>7. \A j \in 1..k : j = k \/ (j < k /\ j \in 1..i)
    BY <2>1, <2>2
  <2>8. \A j \in 1..k : Entry(v, j).ep = eps[j] /\ Entry(v, j).conn = NoConn
    BY <2>2, <2>3, <2>6, <2>7 DEF RestoredOK
  <2>9. RestoredOK(eps, v, k)
    BY <2>6, <2>8 DEF RestoredOK
  <2> QED
    BY <2>0, <2>1, <2>2, <2>9
<1>6. n \in good
  <2> HIDE DEF good
  <2>1. \A i \in 0..n : i \in good
    BY ONLY <1>2, <1>4, <1>5, UpTo, ZenonT(30)
  <2> QED
    BY <1>2, <2>1
<1>7. PICK m : m = Restore(eps)
  OBVIOUS
<1>8. RestoredOK(eps, m, n)
  BY <1>3, <1>6, <1>7
<1>9. Shaped(m) /\ m.len = n /\ \A j \in 1..n : Entry(m, j).ep = eps[j]
  BY <1>8 DEF RestoredOK
<1> HIDE DEF good
<1>10. Sorted(m)
  BY <1>1, <1>2, <1>9 DEF Sorted
<1> QED
  BY <1>7, <1>9, <1>10 DEF ListOK

\* What steps do to the list: peers that are of use stay, and no entry has a
\* connection that none had before, but those of F.
Goes(k, n, F) == ListOK(n) /\ Keeps(k, n) /\ Stays(k, n) /\ Taken(k, n, F)

LEMMA GoesNowhere ==
  ASSUME NEW m, ListOK(m)
  PROVE  Goes(m, m, {})
  BY ErasedSelf, ErasedStays DEF ListOK, Erased, Goes

\* A connection is stored.
LEMMA StoresConn ==
  ASSUME NEW k, NEW m, ListOK(k), Goes(k, m, {}), NEW ptr, Holds(m, ptr), NEW c \in Conns, NEW p,
         p = [At(m, ptr) EXCEPT !.conn = c] \/ p = [At(m, ptr) EXCEPT !.conn = c, !.tried = TRUE]
  PROVE  Goes(k, Set(m, ptr, p), {c})
<1>1. PICK n, old : n = Set(m, ptr, p) /\ old = At(m, ptr)
  OBVIOUS
<1>2. Shaped(m) /\ ListOK(m) /\ Keeps(k, m) /\ Stays(k, m) /\ Taken(k, m, {}) /\ Shaped(k)
  BY DEF Goes, ListOK
<1>3. old \in Peer
  <2>1. m.arrays \in Seq(Seq(Peer)) /\ ptr[1] \in 1..Len(m.arrays) /\ ptr[2] \in 1..Len(m.arrays[ptr[1]])
    BY <1>2 DEF Shaped, Holds
  <2>2. m.arrays[ptr[1]] \in Seq(Peer)
    BY <2>1, ElementOfSeq
  <2> QED
    BY <1>1, <2>1, <2>2, ElementOfSeq DEF At
<1>4. p \in Peer /\ p.ep = old.ep /\ p.conn = c
  <2>1. p = [old EXCEPT !.conn = c] \/ p = [old EXCEPT !.conn = c, !.tried = TRUE]
    BY <1>1
  <2> QED
    BY ONLY <1>3, <2>1, c \in Conns DEF Peer
<1>5. /\ Shaped(n) /\ Keeps(m, n) /\ n.len = m.len /\ n.live = m.live
      /\ \A j \in 1..m.len : Entry(n, j) = IF ptr = <<m.live, j>> THEN p ELSE Entry(m, j)
  BY <1>1, <1>2, <1>4, SetIs
<1>6. \A j \in 1..m.len : ptr = <<m.live, j>> => old = Entry(m, j)
  BY <1>1 DEF At, Entry
<1>7. \A j \in 1..m.len : /\ Entry(n, j).ep = Entry(m, j).ep
                          /\ Entry(n, j).conn = c \/ Entry(n, j).conn = Entry(m, j).conn
  BY <1>4, <1>5, <1>6
<1>8. ListOK(n)
  BY <1>2, <1>5, <1>7, SameOK
<1>9. Keeps(k, n)
  BY <1>2, <1>5, KeepsBoth
<1>10. Stays(k, n)
  BY <1>2, <1>5, <1>7 DEF Stays
<1>11. Taken(k, n, {c})
  <2>1. ASSUME NEW j \in 1..m.len
        PROVE  Entry(n, j).conn \in {c} \cup {NoConn} \/ \E i \in 1..k.len : Entry(n, j).conn = Entry(k, i).conn
    BY <1>2, <1>7 DEF Taken
  <2> QED
    BY <1>5, <2>1 DEF Taken
<1> QED
  BY <1>1, <1>8, <1>9, <1>10, <1>11 DEF Goes

-----------------------------------------------------------------------------
(* The pointers into the list                                              *)

\* What a connection is, and that only one that has a transfer has a pointer
ConnOK(k) ==
  /\ k = [state |-> k.state, paused |-> k.paused, out |-> k.out, ep |-> k.ep, of |-> k.of,
          peer |-> k.peer, in |-> k.in]
  /\ k.paused \in BOOLEAN
  /\ ~k.of => k.peer = Nil
  /\ k.state = "open" /\ ~k.of => k.ep \in Endpoints
\* The tick has a pointer from the choice of a candidate to the end of the dial.
TickOK(t, open) ==
  /\ t = [at |-> t.at, todo |-> t.todo, steps |-> t.steps, more |-> t.more, peer |-> t.peer,
          conn |-> t.conn]
  /\ t.at \in {"found", "dialing"} <=> t.peer # Nil
  /\ t.at = "dialing" => t.conn \in open
PtrOK(m, ptr) == ptr = Nil \/ Holds(m, ptr)

\* TypeOK is not inductive: it does not say that pointers are all that is kept of
\* an array, nor what they may be when a connection is stored or freed.
PolicyInv ==
  /\ ListOK(policy)
  /\ conns = [c \in Conns |-> conns[c]]
  /\ \A c \in Conns : ConnOK(conns[c]) /\ PtrOK(policy, conns[c].peer)
  /\ TickOK(tick, session) /\ PtrOK(policy, tick.peer)

\* What ListKeepsPeers says of a step
Kept ==
  /\ (\A c \in Conns : conns'[c].state = "gone" => conns[c].state = "gone") => Stays(policy, policy')
  /\ (\A c \in session : OwnEntry(c)) /\ Lost = {} => Lost' = {}

LEMMA LostIs ==
  ASSUME Shaped(policy)
  PROVE  /\ Lost = {i \in 1..policy.len : Entry(policy, i).conn \notin session \cup {NoConn}}
         /\ \A c : OwnEntry(c) <=> \A i \in 1..policy.len :
                      Entry(policy, i).conn = c => conns[c].peer = <<policy.live, i>>
  BY PeersAre DEF Lost, OwnEntry
LEMMA LostIsNext ==
  ASSUME Shaped(policy')
  PROVE  Lost' = {i \in 1..policy'.len : Entry(policy', i).conn \notin session' \cup {NoConn}}
<1>1. PICK m : m = policy'
  OBVIOUS
<1>2. \A i \in 1..m.len : Peers(m)[i] = Entry(m, i)
  BY <1>1, PeersAre
<1> QED
  BY <1>1, <1>2 DEF Lost

\* Steps that end no connection
LEMMA KeptByTaken ==
  ASSUME PolicyInv, NEW m, m = policy', ListOK(m), Stays(policy, m), NEW F, Taken(policy, m, F),
         F \subseteq session', session \subseteq session'
  PROVE  Kept
<1>1. Stays(policy, policy')
  OBVIOUS
<1>2. Shaped(policy) /\ Shaped(m)
  BY DEF PolicyInv, ListOK
<1>3. ASSUME Lost = {} PROVE Lost' = {}
  <2>1. \A i \in 1..policy.len : Entry(policy, i).conn \in session \cup {NoConn}
    BY <1>2, <1>3, LostIs
  <2>2. \A i \in 1..m.len : Entry(m, i).conn \in session' \cup {NoConn}
    BY <2>1 DEF Taken
  <2>3. Lost' = {i \in 1..policy'.len : Entry(policy', i).conn \notin session' \cup {NoConn}}
    BY <1>2, LostIsNext
  <2> QED
    BY <2>2, <2>3
<1> QED
  BY <1>1, <1>3 DEF Kept

\* A step that ends one frees the entry its pointer leads to.
LEMMA KeptByEnd ==
  ASSUME PolicyInv, NEW m, m = policy', ListOK(m), NEW c \in session, c \in Conns,
         conns'[c].state = "gone", conns[c].state # "gone", session' = session \ {c},
         \A j \in 1..m.len :
           \/ Entry(m, j).conn = NoConn
           \/ \E i \in 1..policy.len : /\ conns[c].peer # <<policy.live, i>>
                                       /\ Entry(m, j).conn = Entry(policy, i).conn
  PROVE  Kept
<1>1. Shaped(policy) /\ Shaped(m)
  BY DEF PolicyInv, ListOK
<1>2. ASSUME OwnEntry(c), Lost = {} PROVE Lost' = {}
  <2>1. \A i \in 1..policy.len : Entry(policy, i).conn \in session \cup {NoConn}
    BY <1>1, <1>2, LostIs
  <2>2. \A i \in 1..policy.len : Entry(policy, i).conn = c => conns[c].peer = <<policy.live, i>>
    BY <1>1, <1>2, LostIs
  <2>3. \A j \in 1..m.len : Entry(m, j).conn \in session' \cup {NoConn}
    BY <2>1, <2>2
  <2>4. Lost' = {i \in 1..policy'.len : Entry(policy', i).conn \notin session' \cup {NoConn}}
    BY <1>1, LostIsNext
  <2> QED
    BY <2>3, <2>4
<1> QED
  BY <1>2 DEF Kept

\* What the garbage collector leaves
LEMMA GoesCollected ==
  ASSUME ListOK(policy), NEW n, NEW F, Goes(policy, n, F), NEW P, SetPolicy(n, P)
  PROVE  /\ ListOK(policy') /\ Stays(policy, policy') /\ Taken(policy, policy', F)
         /\ \A ptr \in P : Holds(policy, ptr) \/ Holds(n, ptr) => Holds(policy', ptr)
<1>1. PICK m : m = Collected(n, P)
  OBVIOUS
<1>2. policy' = m
  BY <1>1 DEF SetPolicy
<1>3. /\ ListOK(m) /\ m.len = n.len /\ \A ptr \in P : Holds(n, ptr) => Holds(m, ptr)
      /\ \A j \in 1..n.len : Entry(m, j) = Entry(n, j)
  BY <1>1, CollectedOK DEF Goes
<1>4. Stays(policy, m) /\ Taken(policy, m, F)
  BY <1>3 DEF Goes, Stays, Taken
<1>5. \A ptr \in P : Holds(policy, ptr) => Holds(n, ptr)
  BY HoldsKept DEF Goes, ListOK
<1> QED
  BY <1>2, <1>3, <1>4, <1>5

\* Pointers lead to elements after a step when they did before, or are new ones.
LEMMA PolicyInvNext ==
  ASSUME PolicyInv, NEW m, m = policy', ListOK(m),
         NEW P, \A ptr \in P : Holds(policy, ptr) => Holds(m, ptr),
         conns' = [c \in Conns |-> conns'[c]],
         \A c \in Conns : /\ ConnOK(conns'[c])
                          /\ PtrOK(m, conns'[c].peer) \/ conns'[c].peer \in P \cap Pointers,
         TickOK(tick', session'), PtrOK(m, tick'.peer) \/ tick'.peer \in P \cap Pointers
  PROVE  PolicyInv'
<1>1. \A ptr \in P \cap Pointers : PtrOK(m, ptr)
  BY DEF PolicyInv, Pointers, PtrOK
<1>2. \A c \in Conns : ConnOK(conns'[c]) /\ PtrOK(m, conns'[c].peer)
  BY <1>1
<1>3. PtrOK(m, tick'.peer)
  BY <1>1
<1>4. /\ ListOK(policy') /\ \A c \in Conns : ConnOK(conns'[c]) /\ PtrOK(policy', conns'[c].peer)
      /\ PtrOK(policy', tick'.peer)
  BY <1>2, <1>3
<1> QED
  BY <1>4 DEF PolicyInv

\* What the tick is when it has no pointer
LEMMA NoPointer ==
  ASSUME NEW t, NEW open, NEW at \in {"idle", "pump", "connect"}, NEW todo, NEW steps, NEW more,
         t = [at |-> at, todo |-> todo, steps |-> steps, more |-> more, peer |-> Nil, conn |-> NoConn]
  PROVE  TickOK(t, open) /\ t.peer = Nil
<1>1. /\ t.at = at /\ t.todo = todo /\ t.steps = steps /\ t.more = more /\ t.peer = Nil
      /\ t.conn = NoConn
  OBVIOUS
<1>2. t = [at |-> t.at, todo |-> t.todo, steps |-> t.steps, more |-> t.more, peer |-> t.peer,
           conn |-> t.conn]
  BY <1>1
<1> QED
  BY ONLY <1>1, <1>2, at \in {"idle", "pump", "connect"} DEF TickOK

LEMMA IdleOK ==
  ASSUME NEW open, NEW todo, NEW steps, NEW more
  PROVE  /\ TickOK(Idle, open) /\ Idle.peer = Nil
         /\ LET t == [Idle EXCEPT !.at = "pump", !.todo = todo]
            IN  TickOK(t, open) /\ t.peer = Nil
         /\ LET t == [Idle EXCEPT !.at = "connect", !.more = more]
            IN  TickOK(t, open) /\ t.peer = Nil
         /\ LET t == [Idle EXCEPT !.at = "connect", !.steps = steps, !.more = more]
            IN  TickOK(t, open) /\ t.peer = Nil
<1>1. Idle = [at |-> "idle", todo |-> {}, steps |-> 0, more |-> 0, peer |-> Nil, conn |-> NoConn]
  BY DEF Idle
<1>2. TickOK(Idle, open) /\ Idle.peer = Nil
  BY <1>1, NoPointer
<1>3. PICK t1 : t1 = [Idle EXCEPT !.at = "pump", !.todo = todo]
  OBVIOUS
<1>4. t1 = [at |-> "pump", todo |-> todo, steps |-> 0, more |-> 0, peer |-> Nil, conn |-> NoConn]
  BY ONLY <1>1, <1>3
<1>5. TickOK(t1, open) /\ t1.peer = Nil
  BY ONLY <1>4, NoPointer
<1>6. PICK t2 : t2 = [Idle EXCEPT !.at = "connect", !.more = more]
  OBVIOUS
<1>7. t2 = [at |-> "connect", todo |-> {}, steps |-> 0, more |-> more, peer |-> Nil, conn |-> NoConn]
  BY ONLY <1>1, <1>6
<1>8. TickOK(t2, open) /\ t2.peer = Nil
  BY ONLY <1>7, NoPointer
<1>9. PICK t3 : t3 = [Idle EXCEPT !.at = "connect", !.steps = steps, !.more = more]
  OBVIOUS
<1>10. t3 = [at |-> "connect", todo |-> {}, steps |-> steps, more |-> more, peer |-> Nil, conn |-> NoConn]
  BY ONLY <1>1, <1>9
<1>11. TickOK(t3, open) /\ t3.peer = Nil
  BY ONLY <1>10, NoPointer
<1> QED
  BY <1>2, <1>3, <1>5, <1>6, <1>8, <1>9, <1>11

LEMMA EndStepOK ==
  ASSUME NEW b, EndStep(b), NEW open
  PROVE  TickOK(tick', open) /\ tick'.peer = Nil
<1>1. \/ tick' = Idle
      \/ \E steps, more : tick' = [Idle EXCEPT !.at = "connect", !.steps = steps, !.more = more]
  BY DEF EndStep
<1>2. CASE tick' = Idle
  BY <1>2, IdleOK
<1>3. CASE tick' # Idle
  <2>1. PICK steps, more : tick' = [Idle EXCEPT !.at = "connect", !.steps = steps, !.more = more]
    BY <1>1, <1>3
  <2>2. LET t == [Idle EXCEPT !.at = "connect", !.steps = steps, !.more = more]
        IN  TickOK(t, open) /\ t.peer = Nil
    BY IdleOK
  <2> QED
    BY <2>1, <2>2
<1> QED
  BY <1>2, <1>3

\* The end of the turn of a connection
LEMMA EndTurnOK ==
  ASSUME PolicyInv, NEW c, Turn(c), EndTurn, NEW open
  PROVE  TickOK(tick', open) /\ tick'.peer = Nil
<1>1. tick.at = "pump" /\ TickOK(tick, session) /\ tick' = [tick EXCEPT !.todo = @ \ {Min(@)}]
  BY DEF Turn, Serving, EndTurn, PolicyInv
<1>2. PICK todo : tick' = [tick EXCEPT !.todo = todo]
  BY <1>1
<1> QED
  BY ONLY <1>1, <1>2 DEF TickOK

\* A connection that is not made or has ended, one that was accepted, and one for
\* a peer of the list
LEMMA NewConnOK ==
  /\ \A s : s # "open" => ConnOK(NoConnection(s)) /\ NoConnection(s).peer = Nil
  /\ \A s : NoConnection(s).state = s
  /\ \A e \in Endpoints : ConnOK(NewConnection(e, FALSE)) /\ NewConnection(e, FALSE).peer = Nil
  /\ \A e, ptr : LET k == [NewConnection(e, TRUE) EXCEPT !.peer = ptr]
                 IN  ConnOK(k) /\ k.peer = ptr
<1>0. ASSUME NEW k, NEW s, NEW e, NEW of \in BOOLEAN, NEW ptr,
             k = [state |-> s, paused |-> FALSE, out |-> of, ep |-> e, of |-> of, peer |-> ptr,
                  in |-> NewStream],
             of \/ (ptr = Nil /\ (s # "open" \/ e \in Endpoints))
      PROVE  ConnOK(k) /\ k.peer = ptr /\ k.state = s
  <2>1. /\ k.state = s /\ k.paused = FALSE /\ k.out = of /\ k.ep = e /\ k.of = of /\ k.peer = ptr
        /\ k.in = NewStream
    BY <1>0
  <2>2. k = [state |-> k.state, paused |-> k.paused, out |-> k.out, ep |-> k.ep, of |-> k.of,
             peer |-> k.peer, in |-> k.in]
    BY <1>0, <2>1
  <2>3. of \/ (ptr = Nil /\ (s # "open" \/ e \in Endpoints))
    BY <1>0
  <2> QED
    BY ONLY <2>1, <2>2, <2>3 DEF ConnOK
<1>1. ASSUME NEW s PROVE (s # "open" => ConnOK(NoConnection(s)) /\ NoConnection(s).peer = Nil)
                         /\ NoConnection(s).state = s
  <2>1. PICK k : k = NoConnection(s)
    OBVIOUS
  <2>2. k = [state |-> s, paused |-> FALSE, out |-> FALSE, ep |-> NoEndpoint, of |-> FALSE, peer |-> Nil,
             in |-> NewStream]
    BY <2>1 DEF NoConnection, NewConnection
  <2>3. FALSE \in BOOLEAN
    OBVIOUS
  <2>4. ASSUME s # "open" PROVE ConnOK(k) /\ k.peer = Nil
    <3>1. PICK e : e = NoEndpoint
      OBVIOUS
    <3>2. k = [state |-> s, paused |-> FALSE, out |-> FALSE, ep |-> e, of |-> FALSE, peer |-> Nil,
               in |-> NewStream]
      BY <2>2, <3>1
    <3>3. FALSE \/ (Nil = Nil /\ (s # "open" \/ e \in Endpoints))
      BY <2>4
    <3> QED
      BY ONLY <1>0, <2>3, <3>2, <3>3
  <2>5. k.state = s
    BY <2>2
  <2> QED
    BY <2>1, <2>4, <2>5
<1>2. ASSUME NEW e \in Endpoints
      PROVE  ConnOK(NewConnection(e, FALSE)) /\ NewConnection(e, FALSE).peer = Nil
  <2>1. PICK k : k = NewConnection(e, FALSE)
    OBVIOUS
  <2>2. k = [state |-> "open", paused |-> FALSE, out |-> FALSE, ep |-> e, of |-> FALSE, peer |-> Nil,
             in |-> NewStream]
    BY <2>1 DEF NewConnection
  <2>3. ConnOK(k) /\ k.peer = Nil
    BY ONLY <1>0, <2>2, FALSE \in BOOLEAN, e \in Endpoints
  <2> QED
    BY <2>1, <2>3
<1>3. ASSUME NEW e, NEW ptr
      PROVE  LET k == [NewConnection(e, TRUE) EXCEPT !.peer = ptr]
             IN  ConnOK(k) /\ k.peer = ptr
  <2>1. PICK k : k = [NewConnection(e, TRUE) EXCEPT !.peer = ptr]
    OBVIOUS
  <2>2. k = [state |-> "open", paused |-> FALSE, out |-> TRUE, ep |-> e, of |-> TRUE, peer |-> ptr,
             in |-> NewStream]
    BY <2>1 DEF NewConnection
  <2>3. ConnOK(k) /\ k.peer = ptr
    BY ONLY <1>0, <2>2, TRUE \in BOOLEAN
  <2> QED
    BY <2>1, <2>3
<1> QED
  BY <1>1, <1>2, <1>3

LEMMA ClosedConnOK ==
  ASSUME NEW c \in Conns, ConnOK(conns[c]), NEW b \in BOOLEAN
  PROVE  /\ ConnOK(Closed(c, b)) /\ Closed(c, b).peer = conns[c].peer
         /\ Closed(c, b).state = "gone" => conns[c].state = "gone"
<1>1. PICK k, n : k = conns[c] /\ n = Closed(c, b)
  OBVIOUS
<1>2. ConnOK(k)
  BY <1>1
<1>3. CASE n = k
  BY <1>1, <1>2, <1>3
<1>4. CASE n = [k EXCEPT !.state = "closing", !.paused = b]
  <2>1. ConnOK(n) /\ n.peer = k.peer /\ n.state = "closing"
    BY ONLY <1>2, <1>4, b \in BOOLEAN DEF ConnOK
  <2> QED
    BY <1>1, <2>1
<1>5. n = k \/ n = [k EXCEPT !.state = "closing", !.paused = b]
  BY <1>1 DEF Closed
<1> QED
  BY <1>3, <1>4, <1>5

\* Connections that have the pointers they had
ConnsStay ==
  /\ conns' = [c \in Conns |-> conns'[c]]
  /\ \A c \in Conns : /\ ConnOK(conns'[c]) /\ conns'[c].peer = conns[c].peer
                      /\ conns'[c].state = "gone" => conns[c].state = "gone"
LEMMA SameConnsStay ==
  ASSUME PolicyInv, UNCHANGED conns
  PROVE  ConnsStay
  BY DEF PolicyInv, ConnsStay

LEMMA ClosedConnsStay ==
  ASSUME PolicyInv, NEW S, NEW b \in BOOLEAN,
         conns' = [c \in Conns |-> IF c \in S THEN Closed(c, b) ELSE conns[c]]
  PROVE  ConnsStay
<1>1. ASSUME NEW c \in Conns
      PROVE  /\ ConnOK(conns'[c]) /\ conns'[c].peer = conns[c].peer
             /\ conns'[c].state = "gone" => conns[c].state = "gone"
  <2>1. conns'[c] = Closed(c, b) \/ conns'[c] = conns[c]
    OBVIOUS
  <2>2. ConnOK(conns[c])
    BY DEF PolicyInv
  <2> QED
    BY <2>1, <2>2, ClosedConnOK
<1> QED
  BY <1>1 DEF ConnsStay

LEMMA ReadConnsStay ==
  ASSUME PolicyInv, NEW c \in Conns, NEW f, conns' = [conns EXCEPT ![c].in = f]
  PROVE  ConnsStay
<1>1. PICK k, n : k = conns[c] /\ n = [k EXCEPT !.in = f]
  OBVIOUS
<1>2. ConnOK(k) /\ conns = [d \in Conns |-> conns[d]]
  BY <1>1 DEF PolicyInv
<1>3. ConnOK(n) /\ n.peer = k.peer /\ n.state = k.state
  BY ONLY <1>1, <1>2 DEF ConnOK
<1>4. conns' = [d \in Conns |-> IF d = c THEN n ELSE conns[d]]
  BY <1>1, <1>2
<1>5. ASSUME NEW d \in Conns
      PROVE  /\ ConnOK(conns'[d]) /\ conns'[d].peer = conns[d].peer
             /\ conns'[d].state = "gone" => conns[d].state = "gone"
  <2>1. CASE d = c
    BY <1>1, <1>3, <1>4, <2>1
  <2>2. CASE d # c
    BY <1>4, <2>2 DEF PolicyInv
  <2> QED
    BY <2>1, <2>2
<1> QED
  BY <1>4, <1>5 DEF ConnsStay

\* Steps in which connections keep their pointers, and the list is left alone or
\* changed for all pointers
LEMMA StaysStep ==
  ASSUME PolicyInv, ConnsStay, session' = session,
         NEW n, NEW P, Goes(policy, n, {}), {conns[c].peer : c \in Conns} \subseteq P,
         SetPolicy(n, P) \/ policy' = n,
         TickOK(tick', session'), tick'.peer = Nil \/ (tick'.peer = tick.peer /\ tick.peer \in P)
  PROVE  PolicyInv' /\ Kept
<1>1. PICK m : m = policy'
  OBVIOUS
<1>2. ListOK(policy)
  BY DEF PolicyInv
<1>3. ListOK(m) /\ Stays(policy, m) /\ Taken(policy, m, {}) /\ \A ptr \in P : Holds(policy, ptr) => Holds(m, ptr)
  <2>1. CASE SetPolicy(n, P)
    BY <1>1, <1>2, <2>1, GoesCollected
  <2>2. CASE policy' = n
    <3>1. \A ptr \in P : Holds(policy, ptr) => Holds(n, ptr)
      BY <1>2, HoldsKept DEF Goes, ListOK
    <3> QED
      BY <1>1, <2>2, <3>1 DEF Goes
  <2> QED
    BY <2>1, <2>2
<1>4. Kept
  BY <1>1, <1>3, KeptByTaken
<1>5. \A c \in Conns : conns'[c].peer \in P \cap Pointers
  BY DEF ConnsStay, Pointers
<1>6. PtrOK(m, tick'.peer) \/ tick'.peer \in P \cap Pointers
  BY DEF PtrOK, Pointers
<1> QED
  BY <1>1, <1>3, <1>4, <1>5, <1>6, PolicyInvNext DEF ConnsStay

LEMMA AloneStep ==
  ASSUME PolicyInv, ConnsStay, session' = session, policy' = policy,
         TickOK(tick', session'), tick'.peer \in {Nil, tick.peer}
  PROVE  PolicyInv' /\ Kept
<1>1. Goes(policy, policy, {})
  BY GoesNowhere DEF PolicyInv
<1>2. {conns[c].peer : c \in Conns} \subseteq Pointers /\ tick.peer \in Pointers
  BY DEF Pointers
<1> QED
  BY <1>1, <1>2, StaysStep

-----------------------------------------------------------------------------
(* One lemma per action                                                    *)

\* AddPeer, wherever ErasePeers starts
LEMMA AddGoes ==
  ASSUME PolicyInv, NEW p \in Peer, p.ep # NoEndpoint, p.conn = NoConn, NEW start \in Starts
  PROVE  Goes(policy, AddPeer(policy, p, start).m, {})
<1>1. ListOK(policy) /\ policy.len \in Nat
  BY ShapedIs DEF PolicyInv, ListOK
<1>2. start \in Nat \ {0}
  BY <1>1 DEF Starts
<1> QED
  BY <1>1, <1>2, AddPeerOK DEF Goes

LEMMA AddStep ==
  ASSUME PolicyInv, NEW e \in Endpoints, Add(e)
  PROVE  PolicyInv' /\ Kept
<1>1. PICK start \in Starts :
        /\ SetPolicy(AddPeer(policy, NewPeer(e, TRUE, FALSE), start).m, Pointers)
        /\ UNCHANGED <<conns, session, tick>>
  BY DEF Add
<1>2. PICK p, n : p = NewPeer(e, TRUE, FALSE) /\ n = AddPeer(policy, p, start).m
  OBVIOUS
<1>3. p \in Peer /\ p.ep # NoEndpoint /\ p.conn = NoConn
  BY <1>2, ZeroIsPeer, PeerPolicyAssumption DEF NoEndpoint
<1>4. Goes(policy, n, {})
  BY <1>2, <1>3, AddGoes
<1>5. ConnsStay /\ TickOK(tick', session')
  BY <1>1, SameConnsStay DEF PolicyInv
<1>6. SetPolicy(n, Pointers) /\ tick' = tick /\ session' = session
  BY <1>1, <1>2
<1> QED
  BY <1>4, <1>5, <1>6, StaysStep DEF Pointers

\* A connection in the place of one that was not made or has no pointer any more
LEMMA PutConns ==
  ASSUME PolicyInv, NEW c \in Conns, NEW k, ConnOK(k), conns' = [conns EXCEPT ![c] = k]
  PROVE  /\ conns' = [d \in Conns |-> conns'[d]] /\ conns'[c] = k
         /\ \A d \in Conns : ConnOK(conns'[d]) /\ (d # c => conns'[d] = conns[d])
  BY DEF PolicyInv

LEMMA AcceptStep ==
  ASSUME PolicyInv, ListsInv, NEW e \in Endpoints, Accept(e)
  PROVE  PolicyInv' /\ Kept
<1>1. PICK c, k : c = Min(Unused) /\ k = NewConnection(e, FALSE)
  OBVIOUS
<1>2. /\ c \in Conns /\ conns' = [conns EXCEPT ![c] = k] /\ session' = session \cup {c}
      /\ policy' = policy /\ tick' = tick /\ tick.at = "idle"
  BY <1>1, LeastUnused DEF Accept, Unused
<1>3. ConnOK(k) /\ k.peer = Nil
  BY <1>1, NewConnOK
<1>4. /\ conns' = [d \in Conns |-> conns'[d]] /\ conns'[c] = k
      /\ \A d \in Conns : ConnOK(conns'[d]) /\ (d # c => conns'[d] = conns[d])
  BY <1>2, <1>3, PutConns
<1>5. PICK m : m = policy'
  OBVIOUS
<1>6. ListOK(m) /\ Stays(policy, m) /\ Taken(policy, m, {}) /\ m = policy
  BY <1>2, <1>5, GoesNowhere DEF PolicyInv, Goes
<1>7. \A d \in Conns : PtrOK(m, conns'[d].peer)
  BY <1>3, <1>4, <1>6 DEF PolicyInv, PtrOK
<1>8. TickOK(tick', session') /\ PtrOK(m, tick'.peer)
  BY <1>2, <1>6 DEF PolicyInv, TickOK
<1>9. PolicyInv'
  BY <1>4, <1>5, <1>6, <1>7, <1>8, PolicyInvNext
<1>10. Kept
  BY <1>2, <1>5, <1>6, KeptByTaken
<1> QED
  BY <1>9, <1>10

LEMMA PauseStep ==
  ASSUME PolicyInv, PauseWithDisconnect
  PROVE  PolicyInv' /\ Kept
<1>1. /\ conns' = [c \in Conns |-> IF c \in transfer THEN Closed(c, TRUE) ELSE conns[c]]
      /\ session' = session /\ policy' = policy /\ tick' = tick
  BY DEF PauseWithDisconnect
<1>2. ConnsStay
  BY <1>1, ClosedConnsStay
<1>3. TickOK(tick', session') /\ tick'.peer \in {Nil, tick.peer}
  BY <1>1 DEF PolicyInv
<1> QED
  BY <1>1, <1>2, <1>3, AloneStep

LEMMA ResumeStep ==
  ASSUME PolicyInv, ResumeWithState
  PROVE  PolicyInv' /\ Kept
<1>1. PICK n : n = ForgetTimes(policy)
  OBVIOUS
<1>2. SetPolicy(n, Pointers) /\ UNCHANGED <<conns, session, tick>>
  BY <1>1 DEF ResumeWithState
<1>3. Goes(policy, n, {})
  BY <1>1, ForgetTimesOK DEF PolicyInv, Goes
<1>4. ConnsStay /\ TickOK(tick', session') /\ tick' = tick
  BY <1>2, SameConnsStay DEF PolicyInv
<1> QED
  BY <1>2, <1>3, <1>4, StaysStep DEF Pointers

LEMMA StartStep ==
  ASSUME PolicyInv, StartTick
  PROVE  PolicyInv' /\ Kept
<1>1. tick' = [Idle EXCEPT !.at = "pump", !.todo = session] /\ UNCHANGED <<conns, session, policy>>
  BY DEF StartTick
<1>2. TickOK(tick', session') /\ tick'.peer = Nil
  BY <1>1, IdleOK
<1> QED
  BY <1>1, <1>2, SameConnsStay, AloneStep

LEMMA TickTransferStep ==
  ASSUME PolicyInv, TickTransfer
  PROVE  PolicyInv' /\ Kept
<1>1. /\ \E late : conns' = [c \in Conns |-> IF c \in late THEN Closed(c, FALSE) ELSE conns[c]]
      /\ tick' = [Idle EXCEPT !.at = "connect", !.more = ConnectsPerTick] \/ tick' = Idle
      /\ UNCHANGED <<policy, session>>
  BY DEF TickTransfer
<1>2. PICK late : conns' = [c \in Conns |-> IF c \in late THEN Closed(c, FALSE) ELSE conns[c]]
  BY <1>1
<1>3. ConnsStay
  BY <1>2, ClosedConnsStay
<1>4. TickOK(tick', session') /\ tick'.peer = Nil
  BY <1>1, IdleOK
<1> QED
  BY <1>1, <1>3, <1>4, AloneStep

LEMMA FindStep ==
  ASSUME PolicyInv, FindConnectCandidate
  PROVE  PolicyInv' /\ Kept
<1>1. UNCHANGED <<policy, conns, session>>
  BY DEF FindConnectCandidate
<1>2. \/ \E i \in Candidates(policy) : tick' = [tick EXCEPT !.at = "found", !.peer = <<policy.live, i>>]
      \/ EndStep(FALSE)
      \/ tick' = Idle
  BY Zenon DEF FindConnectCandidate
<1>3. ConnsStay
  BY <1>1, SameConnsStay
<1>4. CASE \E i \in Candidates(policy) : tick' = [tick EXCEPT !.at = "found", !.peer = <<policy.live, i>>]
  <2>0. PICK i \in Candidates(policy) :
          tick' = [tick EXCEPT !.at = "found", !.peer = <<policy.live, i>>]
    BY <1>4
  <2>1. PICK ptr : ptr = <<policy.live, i>> /\ tick' = [tick EXCEPT !.at = "found", !.peer = ptr]
    BY <2>0
  <2>2. Holds(policy, ptr)
    <3>1. Shaped(policy) /\ i \in 1..policy.len
      BY DEF PolicyInv, ListOK, Candidates
    <3>2. i \in 1..Len(policy.arrays[policy.live]) /\ policy.live \in 1..Len(policy.arrays)
      BY <3>1, ShapedIs DEF Shaped, Room
    <3>3. ptr = <<ptr[1], ptr[2]>> /\ ptr[1] = policy.live /\ ptr[2] = i
      BY <2>1
    <3> QED
      BY <3>2, <3>3 DEF Holds
  <2>3. ptr # Nil
    BY <2>2, NotNil
  <2>4. TickOK(tick', session) /\ tick'.peer = ptr
    <3>1. tick' = [tick EXCEPT !.at = "found", !.peer = ptr] /\ TickOK(tick, session)
      BY <2>1 DEF PolicyInv
    <3>2. TickOK(tick, session)
      BY <3>1
    <3> QED
      BY ONLY <2>3, <3>1, <3>2 DEF TickOK
  <2>5. PICK m : m = policy'
    OBVIOUS
  <2>6. ListOK(m) /\ m = policy /\ Stays(policy, m) /\ Taken(policy, m, {})
    BY <1>1, <2>5, GoesNowhere DEF PolicyInv, Goes
  <2>7. TickOK(tick', session') /\ PtrOK(m, tick'.peer)
    BY <1>1, <2>2, <2>4, <2>6 DEF PtrOK
  <2>8. \A c \in Conns : ConnOK(conns'[c]) /\ PtrOK(m, conns'[c].peer)
    BY <1>1, <2>6 DEF PolicyInv
  <2>9. PolicyInv'
    BY <1>3, <2>5, <2>6, <2>7, <2>8, PolicyInvNext DEF ConnsStay
  <2>10. Kept
    BY <1>1, <2>5, <2>6, KeptByTaken
  <2> QED
    BY <2>9, <2>10
<1>5. CASE EndStep(FALSE) \/ tick' = Idle
  <2>1. TickOK(tick', session') /\ tick'.peer = Nil
    BY <1>5, EndStepOK, IdleOK
  <2> QED
    BY <1>1, <1>3, <2>1, AloneStep
<1> QED
  BY <1>2, <1>4, <1>5

LEMMA ConnectStep ==
  ASSUME PolicyInv, ListsInv, ConnectToPeer
  PROVE  PolicyInv' /\ Kept
<1>1. PICK ptr, c, p, k : /\ ptr = tick.peer /\ c = Min(Unused)
                          /\ p = [At(policy, ptr) EXCEPT !.conn = c, !.tried = TRUE]
                          /\ k = [NewConnection(At(policy, ptr).ep, TRUE) EXCEPT !.peer = ptr]
  OBVIOUS
<1>2. /\ tick.at = "found" /\ SetPolicy(Set(policy, ptr, p), Pointers)
      /\ conns' = [conns EXCEPT ![c] = k] /\ session' = session \cup {c}
      /\ tick' = [tick EXCEPT !.at = "dialing", !.conn = c]
  BY <1>1 DEF ConnectToPeer
<1>3. c \in Conns
  BY <1>1, <1>2, LeastUnused DEF ListsInv, Unused
<1>4. ptr # Nil /\ Holds(policy, ptr) /\ TickOK(tick, session)
  BY <1>1, <1>2 DEF PolicyInv, TickOK, PtrOK
<1>5. PICK n : n = Set(policy, ptr, p)
  OBVIOUS
<1>6. Goes(policy, n, {c})
  <2>1. ListOK(policy) /\ Goes(policy, policy, {})
    BY GoesNowhere DEF PolicyInv
  <2> QED
    BY <1>1, <1>3, <1>4, <1>5, <2>1, StoresConn
<1>7. PICK m : m = policy'
  OBVIOUS
<1>8. /\ ListOK(m) /\ Stays(policy, m) /\ Taken(policy, m, {c})
      /\ \A q \in Pointers : Holds(policy, q) => Holds(m, q)
  BY <1>2, <1>5, <1>6, <1>7, GoesCollected DEF PolicyInv
<1>9. ptr \in Pointers
  BY <1>1 DEF Pointers
<1>10. ConnOK(k) /\ k.peer = ptr
  <2>1. PICK e : e = At(policy, ptr).ep
    OBVIOUS
  <2>2. k = [NewConnection(e, TRUE) EXCEPT !.peer = ptr]
    BY <1>1, <2>1
  <2>3. /\ ConnOK([NewConnection(e, TRUE) EXCEPT !.peer = ptr])
        /\ [NewConnection(e, TRUE) EXCEPT !.peer = ptr].peer = ptr
    BY ONLY NewConnOK
  <2> QED
    BY ONLY <2>2, <2>3
<1>11. /\ conns' = [d \in Conns |-> conns'[d]] /\ conns'[c] = k
       /\ \A d \in Conns : ConnOK(conns'[d]) /\ (d # c => conns'[d] = conns[d])
  BY <1>2, <1>3, <1>10, PutConns
<1>12. \A d \in Conns : conns'[d].peer \in Pointers \cap Pointers
  BY <1>9, <1>10, <1>11 DEF Pointers
<1>13. TickOK(tick', session') /\ tick'.peer = ptr
  <2>1. c \in session'
    BY <1>2
  <2>2. tick'.peer = ptr /\ TickOK(tick', session')
    BY ONLY <1>1, <1>2, <1>4, <2>1 DEF TickOK
  <2> QED
    BY <2>2
<1>14. PolicyInv'
  BY <1>7, <1>8, <1>9, <1>11, <1>12, <1>13, PolicyInvNext
<1>15. {c} \subseteq session' /\ session \subseteq session'
  BY <1>2
<1>16. Kept
  BY <1>7, <1>8, <1>15, KeptByTaken
<1> QED
  BY <1>14, <1>16

\* Steps in which no connection gets or loses a pointer, and the tick has none then
LEMMA Pointerless ==
  ASSUME PolicyInv, NEW m, m = policy', NEW F, NEW n, Goes(policy, n, F),
         SetPolicy(n, {conns[c].peer : c \in Conns}), ConnsStay, session' = session, F \subseteq session,
         TickOK(tick', session), tick'.peer = Nil
  PROVE  PolicyInv' /\ Kept
<1>1. PICK P : P = {conns[c].peer : c \in Conns}
  OBVIOUS
<1>2. /\ ListOK(m) /\ Stays(policy, m) /\ Taken(policy, m, F)
      /\ \A q \in P : Holds(policy, q) => Holds(m, q)
  BY <1>1, GoesCollected DEF PolicyInv
<1>3. \A c \in Conns : ConnOK(conns'[c]) /\ conns'[c].peer \in P \cap Pointers
  BY <1>1 DEF ConnsStay, Pointers
<1>4. PtrOK(m, tick'.peer) /\ TickOK(tick', session')
  BY DEF PtrOK
<1>5. PolicyInv'
  BY <1>2, <1>3, <1>4, PolicyInvNext DEF ConnsStay
<1>6. Kept
  BY <1>2, KeptByTaken
<1> QED
  BY <1>5, <1>6

LEMMA DialedStep ==
  ASSUME PolicyInv, ListsInv, Dialed
  PROVE  PolicyInv' /\ Kept
<1>1. PICK ptr, c, p : ptr = tick.peer /\ c = tick.conn /\ p = [At(policy, ptr) EXCEPT !.conn = c]
  OBVIOUS
<1>2. /\ tick.at = "dialing" /\ SetPolicy(Set(policy, ptr, p), {conns[d].peer : d \in Conns})
      /\ EndStep(TRUE) /\ UNCHANGED <<conns, session>>
  BY <1>1 DEF Dialed
<1>3. c \in session /\ c \in Conns /\ Holds(policy, ptr)
  BY <1>1, <1>2 DEF PolicyInv, TickOK, PtrOK, ListsInv, AliveSet
<1>4. PICK n : n = Set(policy, ptr, p)
  OBVIOUS
<1>5. Goes(policy, n, {c})
  <2>1. ListOK(policy) /\ Goes(policy, policy, {})
    BY GoesNowhere DEF PolicyInv
  <2> QED
    BY <1>1, <1>3, <1>4, <2>1, StoresConn
<1>6. TickOK(tick', session) /\ tick'.peer = Nil
  BY <1>2, EndStepOK
<1>7. {c} \subseteq session /\ ConnsStay
  BY <1>2, <1>3, SameConnsStay
<1> QED
  BY <1>2, <1>4, <1>5, <1>6, <1>7, Pointerless

LEMMA DialFailedStep ==
  ASSUME PolicyInv, ListsInv, DialFailed
  PROVE  PolicyInv' /\ Kept
<1>1. /\ tick.at = "dialing" /\ SetPolicy(policy, {conns[d].peer : d \in Conns})
      /\ EndStep(FALSE) /\ session' = session
      /\ conns' = [conns EXCEPT ![tick.conn] = Closed(tick.conn, FALSE)]
  BY DEF DialFailed
<1>2. tick.conn \in Conns
  BY <1>1 DEF PolicyInv, TickOK, ListsInv, AliveSet
<1>3. conns' = [c \in Conns |-> IF c \in {tick.conn} THEN Closed(c, FALSE) ELSE conns[c]]
  BY <1>1, <1>2 DEF PolicyInv
<1>4. ConnsStay
  BY <1>3, ClosedConnsStay
<1>5. Goes(policy, policy, {})
  BY GoesNowhere DEF PolicyInv
<1>6. TickOK(tick', session) /\ tick'.peer = Nil
  BY <1>1, EndStepOK
<1> QED
  BY <1>1, <1>4, <1>5, <1>6, Pointerless

\* The end of a connection
LEMMA EndStepOf ==
  ASSUME PolicyInv, ListsInv, NEW c \in Conns, Turn(c), conns[c].state \in Alive,
         NEW byPause \in BOOLEAN, HandleDisconnect(c, byPause)
  PROVE  PolicyInv' /\ Kept
<1>1. PICK k, P, ptr : /\ k = NoConnection("gone") /\ P = {conns[d].peer : d \in Conns \ {c}}
                       /\ ptr = conns[c].peer
  OBVIOUS
<1>2. /\ conns' = [conns EXCEPT ![c] = k] /\ session' = session \ {c} /\ EndTurn
      /\ \/ policy' = policy /\ ~conns[c].of
         \/ SetPolicy(policy, P) /\ ptr = Nil
         \/ /\ \E failed \in BOOLEAN :
                  SetPolicy(ConnectionClosed(policy, ptr, byPause, failed), P)
            /\ ptr # Nil
  BY <1>1 DEF HandleDisconnect, OnDisconnect, RemovePeerConnection
<1>3. ConnOK(k) /\ k.peer = Nil /\ k.state = "gone"
  BY <1>1, NewConnOK
<1>4. /\ conns' = [d \in Conns |-> conns'[d]] /\ conns'[c] = k
      /\ \A d \in Conns : ConnOK(conns'[d]) /\ (d # c => conns'[d] = conns[d])
  BY <1>2, <1>3, PutConns
<1>5. TickOK(tick', session') /\ tick'.peer = Nil
  BY <1>2, EndTurnOK
<1>6. PICK m : m = policy'
  OBVIOUS
<1>7. /\ ListOK(m)
      /\ \A q \in P : Holds(policy, q) => Holds(m, q)
      /\ \A j \in 1..m.len :
           \/ Entry(m, j).conn = NoConn
           \/ \E i \in 1..policy.len : /\ ptr # <<policy.live, i>>
                                       /\ Entry(m, j).conn = Entry(policy, i).conn
  <2>0. ListOK(policy) /\ Goes(policy, policy, {}) /\ (~conns[c].of => ptr = Nil)
    BY <1>1, GoesNowhere DEF PolicyInv, ConnOK
  <2>1. ASSUME ptr = Nil, ListOK(m), Taken(policy, m, {})
        PROVE  \A j \in 1..m.len :
                 \/ Entry(m, j).conn = NoConn
                 \/ \E i \in 1..policy.len : /\ ptr # <<policy.live, i>>
                                             /\ Entry(m, j).conn = Entry(policy, i).conn
    <3>1. \A i : ptr # <<policy.live, i>>
      BY <2>1 DEF Nil
    <3> QED
      BY <2>1, <3>1 DEF Taken
  <2>2. CASE policy' = policy /\ ~conns[c].of
    <3>1. m = policy /\ ptr = Nil /\ Taken(policy, m, {})
      BY <1>6, <2>0, <2>2 DEF Goes
    <3> QED
      BY <2>0, <2>1, <3>1
  <2>3. CASE SetPolicy(policy, P) /\ ptr = Nil
    <3>1. ListOK(m) /\ Taken(policy, m, {}) /\ \A q \in P : Holds(policy, q) => Holds(m, q)
      BY <1>6, <2>0, <2>3, GoesCollected
    <3> QED
      BY <2>1, <2>3, <3>1
  <2>4. CASE /\ \E failed \in BOOLEAN :
                  SetPolicy(ConnectionClosed(policy, ptr, byPause, failed), P)
             /\ ptr # Nil
    <3>1. Holds(policy, ptr)
      BY <1>1, <2>4 DEF PolicyInv, PtrOK
    <3>2. PICK failed \in BOOLEAN : SetPolicy(ConnectionClosed(policy, ptr, byPause, failed), P)
      BY <2>4
    <3>3. PICK n : n = ConnectionClosed(policy, ptr, byPause, failed)
      OBVIOUS
    <3>4. /\ ListOK(n) /\ Keeps(policy, n)
          /\ \A j \in 1..n.len :
               \/ Entry(n, j).conn = NoConn
               \/ \E i \in 1..policy.len : ptr # <<policy.live, i>> /\ Entry(n, j).conn = Entry(policy, i).conn
      <4>1. Leaves(policy, ConnectionClosed(policy, ptr, byPause, failed), ptr)
        BY <2>0, <3>1, ConnectionClosedOK, Zenon
      <4> QED
        BY <3>3, <4>1 DEF Leaves
    <3>5. m = Collected(n, P)
      BY <1>6, <3>2, <3>3 DEF SetPolicy
    <3>6. /\ ListOK(m) /\ m.len = n.len /\ \A q \in P : Holds(n, q) => Holds(m, q)
          /\ \A j \in 1..n.len : Entry(m, j) = Entry(n, j)
      BY <3>4, <3>5, CollectedOK
    <3>7. \A q \in P : Holds(policy, q) => Holds(n, q)
      BY <2>0, <3>4, HoldsKept DEF ListOK
    <3> QED
      BY <3>4, <3>6, <3>7
  <2> QED
    BY <1>2, <2>2, <2>3, <2>4
<1>8. ASSUME NEW d \in Conns
      PROVE  PtrOK(m, conns'[d].peer) \/ conns'[d].peer \in P \cap Pointers
  <2>1. CASE d = c
    BY <1>3, <1>4, <2>1 DEF PtrOK
  <2>2. CASE d # c
    BY <1>1, <1>4, <2>2 DEF Pointers
  <2> QED
    BY <2>1, <2>2
<1>9. PtrOK(m, tick'.peer)
  BY <1>5 DEF PtrOK
<1>10. PolicyInv'
  BY <1>4, <1>5, <1>6, <1>7, <1>8, <1>9, PolicyInvNext
<1>11. c \in session /\ conns[c].state # "gone" /\ conns'[c].state = "gone"
  BY <1>3, <1>4 DEF ListsInv, AliveSet, Alive
<1>12. Kept
  BY <1>1, <1>2, <1>6, <1>7, <1>11, KeptByEnd
<1> QED
  BY <1>10, <1>12

\* What Attach does with r, what AddPeer returned, and at, where the peer is
\* in the list
Attaches(c, r, at) ==
  IF r.panic
  THEN policy' = r.m /\ UNCHANGED <<conns, session, transfer, tick>>
  ELSE /\ EndTurn
       /\ IF at = {}
          THEN /\ SetPolicy(r.m, Pointers)
               /\ conns' = [conns EXCEPT ![c] = NoConnection("gone")]
               /\ session' = session \ {c}
               /\ UNCHANGED transfer
          ELSE \E ptr \in at :
               /\ SetPolicy(Set(r.m, ptr, [At(r.m, ptr) EXCEPT !.conn = c]),
                            Pointers \cup {ptr})
               /\ conns' = [conns EXCEPT ![c].of = TRUE, ![c].peer = ptr]
               /\ transfer' = transfer \cup {c}
               /\ UNCHANGED session

\* A request of the file over a connection that was accepted
LEMMA AttachStep ==
  ASSUME PolicyInv, ListsInv, NEW c \in Conns, Attach(c)
  PROVE  PolicyInv' /\ Kept
<1>1. PICK e, known : e = conns[c].ep /\ known = (Find(policy, e) # {})
  OBVIOUS
<1>start. PICK start \in Starts :
            LET r  == IF Find(policy, conns[c].ep) # {} THEN [m |-> policy, panic |-> FALSE]
                      ELSE AddPeer(policy, NewPeer(conns[c].ep, FALSE, FALSE), start)
                at == {<<r.m.live, i>> :
                         i \in {j \in Find(r.m, conns[c].ep) : Peers(r.m)[j].conn = NoConn}}
            IN Attaches(c, r, at)
  BY DEF Attach, Attaches
<1>r. PICK r, at :
        /\ r = IF Find(policy, conns[c].ep) # {} THEN [m |-> policy, panic |-> FALSE]
               ELSE AddPeer(policy, NewPeer(conns[c].ep, FALSE, FALSE), start)
        /\ at = {<<r.m.live, i>> :
                   i \in {j \in Find(r.m, conns[c].ep) : Peers(r.m)[j].conn = NoConn}}
  OBVIOUS
<1>2. /\ r = IF known THEN [m |-> policy, panic |-> FALSE]
             ELSE AddPeer(policy, NewPeer(e, FALSE, FALSE), start)
      /\ at = {<<r.m.live, i>> : i \in {j \in Find(r.m, e) : Peers(r.m)[j].conn = NoConn}}
      /\ Attaches(c, r, at)
  <2>1. Attaches(c, r, at)
    BY <1>start, <1>r
  <2> QED
    BY ONLY <1>1, <1>r, <2>1
<1>3. Turn(c) /\ conns[c].state = "open" /\ ~conns[c].of /\ c \in session
  BY DEF Attach, ListsInv, AliveSet, Alive
<1>4. /\ ListOK(policy) /\ ConnOK(conns[c]) /\ conns[c].peer = Nil /\ e \in Endpoints
  BY <1>1, <1>3 DEF PolicyInv, ConnOK
<1>5. PICK k : k = r.m
  OBVIOUS
<1>6. Goes(policy, k, {})
  <2>1. CASE known
    <3>1. k = policy
      BY <1>2, <1>5, <2>1
    <3> QED
      BY <1>4, <3>1, GoesNowhere
  <2>2. CASE ~known
    <3>1. PICK p : p = NewPeer(e, FALSE, FALSE)
      OBVIOUS
    <3>2. p \in Peer /\ p.ep # NoEndpoint /\ p.conn = NoConn
      BY <1>4, <3>1, ZeroIsPeer, PeerPolicyAssumption DEF NoEndpoint
    <3>3. k = AddPeer(policy, p, start).m
      BY <1>2, <1>5, <2>2, <3>1
    <3> QED
      BY <3>2, <3>3, AddGoes
  <2> QED
    BY <2>1, <2>2
<1>7. CASE r.panic
  <2>1. policy' = k /\ UNCHANGED <<conns, session, tick>>
    BY <1>2, <1>5, <1>7 DEF Attaches
  <2>2. ConnsStay /\ TickOK(tick', session')
    BY <2>1, SameConnsStay DEF PolicyInv
  <2>3. {conns[d].peer : d \in Conns} \subseteq Pointers /\ tick.peer \in Pointers /\ tick'.peer = tick.peer
    BY <2>1 DEF Pointers
  <2> QED
    BY <1>6, <2>1, <2>2, <2>3, StaysStep
<1>8. CASE ~r.panic /\ at = {}
  <2>1. PICK none, m : none = NoConnection("gone") /\ m = policy'
    OBVIOUS
  <2>2. /\ SetPolicy(k, Pointers) /\ conns' = [conns EXCEPT ![c] = none] /\ session' = session \ {c}
        /\ EndTurn
    BY <1>2, <1>5, <1>8, <2>1 DEF Attaches
  <2>3. /\ ListOK(m) /\ Taken(policy, m, {}) /\ \A q \in Pointers : Holds(policy, q) => Holds(m, q)
    BY <1>4, <1>6, <2>1, <2>2, GoesCollected
  <2>4. ConnOK(none) /\ none.peer = Nil /\ none.state = "gone"
    BY <2>1, NewConnOK
  <2>5. /\ conns' = [d \in Conns |-> conns'[d]] /\ conns'[c] = none
        /\ \A d \in Conns : ConnOK(conns'[d]) /\ (d # c => conns'[d] = conns[d])
    BY <2>2, <2>4, PutConns
  <2>6. \A d \in Conns : PtrOK(m, conns'[d].peer) \/ conns'[d].peer \in Pointers \cap Pointers
    BY <2>4, <2>5 DEF PtrOK, Pointers
  <2>7. TickOK(tick', session') /\ PtrOK(m, tick'.peer)
    BY <1>3, <2>2, EndTurnOK DEF PtrOK
  <2>8. PolicyInv'
    BY <2>1, <2>3, <2>5, <2>6, <2>7, PolicyInvNext
  <2>9. \A i : conns[c].peer # <<policy.live, i>>
    BY <1>4 DEF Nil
  <2>10. \A j \in 1..m.len :
           \/ Entry(m, j).conn = NoConn
           \/ \E i \in 1..policy.len : /\ conns[c].peer # <<policy.live, i>>
                                       /\ Entry(m, j).conn = Entry(policy, i).conn
    BY <2>3, <2>9 DEF Taken
  <2>11. conns'[c].state = "gone" /\ conns[c].state # "gone"
    BY <1>3, <2>4, <2>5
  <2>12. Kept
    BY <1>3, <2>1, <2>2, <2>3, <2>10, <2>11, KeptByEnd
  <2> QED
    BY <2>8, <2>12
<1>9. CASE ~r.panic /\ at # {}
  <2>1. PICK ptr \in at :
          /\ SetPolicy(Set(k, ptr, [At(k, ptr) EXCEPT !.conn = c]), Pointers \cup {ptr})
          /\ conns' = [conns EXCEPT ![c].of = TRUE, ![c].peer = ptr]
          /\ session' = session /\ EndTurn
    BY <1>2, <1>5, <1>9 DEF Attaches
  <2>2. PICK n, p, m, P : /\ n = Set(k, ptr, p) /\ p = [At(k, ptr) EXCEPT !.conn = c] /\ m = policy'
                          /\ P = Pointers \cup {ptr}
    OBVIOUS
  <2>3. Holds(k, ptr)
    <3>1. PICK i \in Find(k, e) : ptr = <<k.live, i>>
      BY <1>2, <1>5
    <3>2. Shaped(k) /\ i \in 1..k.len
      BY <1>6, <3>1 DEF Goes, ListOK, Find
    <3>3. i \in 1..Len(k.arrays[k.live]) /\ k.live \in 1..Len(k.arrays)
      BY <3>2, ShapedIs DEF Shaped, Room
    <3>4. ptr = <<ptr[1], ptr[2]>> /\ ptr[1] = k.live /\ ptr[2] = i
      BY <3>1
    <3> QED
      BY <3>3, <3>4 DEF Holds
  <2>4. Goes(policy, n, {c})
    BY <1>4, <1>6, <2>2, <2>3, StoresConn
  <2>5. SetPolicy(n, P)
    BY <2>1, <2>2
  <2>6. /\ ListOK(m) /\ Stays(policy, m) /\ Taken(policy, m, {c})
        /\ \A q \in P : Holds(policy, q) \/ Holds(n, q) => Holds(m, q)
    BY <1>4, <2>2, <2>4, <2>5, GoesCollected
  <2>7. Holds(m, ptr)
    <3>1. Shaped(k)
      BY <1>6 DEF Goes, ListOK
    <3>2. p \in Peer
      <4>1. k.arrays \in Seq(Seq(Peer)) /\ ptr[1] \in 1..Len(k.arrays) /\ ptr[2] \in 1..Len(k.arrays[ptr[1]])
        BY <2>3, <3>1 DEF Shaped, Holds
      <4>2. At(k, ptr) \in Peer
        BY <4>1, ElementOfSeq DEF At
      <4> QED
        BY <2>2, <4>2, PeerFields
    <3>3. Holds(n, ptr)
      BY <2>2, <2>3, <3>1, <3>2, SetIs, HoldsKept
    <3> QED
      BY <2>2, <2>6, <3>3
  <2>8. PICK new : new = [conns[c] EXCEPT !.of = TRUE, !.peer = ptr]
    OBVIOUS
  <2>9. conns' = [conns EXCEPT ![c] = new]
    BY <2>1, <2>8 DEF PolicyInv
  <2>10. ConnOK(new) /\ new.peer = ptr /\ new.state = "open"
    <3>1. PICK old : old = conns[c]
      OBVIOUS
    <3>2. ConnOK(old) /\ new = [old EXCEPT !.of = TRUE, !.peer = ptr] /\ old.state = "open"
      BY <1>3, <1>4, <2>8, <3>1
    <3> QED
      BY ONLY <3>2 DEF ConnOK
  <2>11. /\ conns' = [d \in Conns |-> conns'[d]] /\ conns'[c] = new
         /\ \A d \in Conns : ConnOK(conns'[d]) /\ (d # c => conns'[d] = conns[d])
    BY <2>9, <2>10, PutConns
  <2>12. \A d \in Conns : PtrOK(m, conns'[d].peer) \/ conns'[d].peer \in P \cap Pointers
    BY <2>2, <2>7, <2>10, <2>11 DEF PtrOK, Pointers
  <2>13. TickOK(tick', session') /\ PtrOK(m, tick'.peer)
    BY <1>3, <2>1, EndTurnOK DEF PtrOK
  <2>14. PolicyInv'
    BY <2>2, <2>6, <2>11, <2>12, <2>13, PolicyInvNext
  <2>15. {c} \subseteq session' /\ session \subseteq session'
    BY <1>3, <2>1
  <2>16. Kept
    BY <2>2, <2>6, <2>15, KeptByTaken
  <2> QED
    BY <2>14, <2>16
<1> QED
  BY <1>7, <1>8, <1>9

\* Every step keeps the list and its pointers, and the peers that are of use.
LEMMA PolicyInvStep ==
  ASSUME PolicyInv, ListsInv, [Next]_vars
  PROVE  PolicyInv' /\ Kept
<1>1. CASE UNCHANGED vars
  <2>1. UNCHANGED <<policy, conns, session, tick>>
    BY <1>1 DEF vars
  <2>2. ConnsStay /\ TickOK(tick', session') /\ tick'.peer \in {Nil, tick.peer}
    BY <2>1, SameConnsStay DEF PolicyInv
  <2> QED
    BY <2>1, <2>2, AloneStep
<1>2. CASE \E e \in Endpoints : Add(e) \/ Accept(e)
  BY <1>2, AddStep, AcceptStep
<1>3. CASE PauseWithDisconnect \/ ResumeWithState
  BY <1>3, PauseStep, ResumeStep
<1>4. CASE StartTick \/ TickTransfer \/ FindConnectCandidate \/ ConnectToPeer \/ Dialed \/ DialFailed
  BY <1>4, StartStep, TickTransferStep, FindStep, ConnectStep, DialedStep, DialFailedStep
<1>5. ASSUME NEW c \in Conns, Disconnect(c) \/ Fail(c) PROVE PolicyInv' /\ Kept
  <2>1. conns[c].paused \in BOOLEAN
    BY DEF PolicyInv, ConnOK
  <2>2. CASE Disconnect(c)
    BY <2>1, <2>2, EndStepOf DEF Disconnect, Alive
  <2>3. CASE Fail(c)
    BY <2>3, EndStepOf DEF Fail, Alive
  <2> QED
    BY <1>5, <2>2, <2>3
<1>6. ASSUME NEW c \in Conns, Stay(c) PROVE PolicyInv' /\ Kept
  <2>1. Turn(c) /\ EndTurn /\ UNCHANGED <<policy, conns, session>>
    BY <1>6 DEF Stay
  <2>2. TickOK(tick', session') /\ tick'.peer \in {Nil, tick.peer}
    BY <2>1, EndTurnOK
  <2> QED
    BY <2>1, <2>2, SameConnsStay, AloneStep
<1>7. ASSUME NEW c \in Conns, ProcessIncoming(c) \/ \E n \in 1..MaxRead : Read(c, n)
      PROVE  PolicyInv' /\ Kept
  <2>1. UNCHANGED <<policy, session, tick>> /\ \E f : conns' = [conns EXCEPT ![c].in = f]
    BY <1>7 DEF ProcessIncoming, Read, PolicyInv
  <2>2. ConnsStay
    BY <2>1, ReadConnsStay
  <2>3. TickOK(tick', session') /\ tick'.peer \in {Nil, tick.peer}
    BY <2>1 DEF PolicyInv
  <2> QED
    BY <2>1, <2>2, <2>3, AloneStep
<1>8. CASE Tick
  BY <1>4, <1>5, <1>6, <1>7, <1>8, AttachStep DEF Tick
<1> QED
  BY <1>1, <1>2, <1>3, <1>8 DEF Next

LEMMA PolicyInvInit == Init => PolicyInv
<1>1. SUFFICES ASSUME Init PROVE PolicyInv
  OBVIOUS
<1>2. PICK eps, m, new : /\ eps = left.restored /\ m = Restore(eps) /\ new = NoConnection("new")
  OBVIOUS
<1>3. /\ left \in Budgets /\ policy = Collected(m, {}) /\ conns = [c \in Conns |-> new] /\ tick = Idle
  BY <1>1, <1>2 DEF Init
<1>4. /\ eps \in Seq(Endpoints) /\ Len(eps) <= MaxPeerListSize
      /\ \A i, j \in 1..Len(eps) : i < j => eps[i] < eps[j]
  BY <1>2, <1>3, PeersAssumption
<1>5. ListOK(m)
  BY <1>2, <1>4, RestoreOK
<1>6. ListOK(policy)
  BY <1>3, <1>5, CollectedOK
<1>7. ConnOK(new) /\ new.peer = Nil
  BY <1>2, NewConnOK
<1>8. TickOK(tick, session) /\ tick.peer = Nil
  BY <1>3, IdleOK
<1>9. conns = [c \in Conns |-> conns[c]] /\ \A c \in Conns : conns[c] = new
  BY <1>3
<1> QED
  BY <1>6, <1>7, <1>8, <1>9 DEF PolicyInv, PtrOK

LEMMA PolicyInvHolds == Spec => [](ListsInv /\ PolicyInv)
<1>1. Init => ListsInv /\ PolicyInv
  BY ListsInvInit, PolicyInvInit
<1>2. ListsInv /\ PolicyInv /\ [Next]_vars => ListsInv' /\ PolicyInv'
  BY NextLists, PolicyInvStep
<1> QED
  BY <1>1, <1>2, PTL DEF Spec

\* The list of peers (policy.go:50) stays sorted, without duplicates and within its
\* size, and every pointer that is kept leads to an element of its array, for every
\* number of peers and connections and every size of the list.
THEOREM PeerListIsSorted == Spec => []TypeOK
<1>1. PolicyInv => TypeOK
  <2>1. SUFFICES ASSUME PolicyInv PROVE TypeOK
    OBVIOUS
  <2>2. Shaped(policy) /\ Sorted(policy)
    BY <2>1 DEF PolicyInv, ListOK
  <2>3. /\ DOMAIN policy.arrays = 1..Len(policy.arrays) /\ policy.live \in 1..Len(policy.arrays)
        /\ policy.len \in Nat /\ policy.len <= MaxPeerListSize /\ MaxPeerListSize \in Nat
        /\ \A a \in 1..Len(policy.arrays) : policy.arrays[a] \in Seq(Peer)
    BY <2>2, ShapedIs, ElementOfSeq, PeerPolicyAssumption DEF Shaped
  <2>4. /\ \A i, j \in 1..policy.len : i < j => Peers(policy)[i].ep < Peers(policy)[j].ep
        /\ \A i \in 1..policy.len : Peers(policy)[i].ep # NoEndpoint
    BY <2>2, PeersAre DEF Sorted
  <2>5. ASSUME NEW p \in Pointers, p # Nil PROVE p[2] \in DOMAIN policy.arrays[p[1]]
    <3>1. Holds(policy, p)
      BY <2>1, <2>5 DEF PolicyInv, Pointers, PtrOK
    <3>2. p[1] \in 1..Len(policy.arrays) /\ p[2] \in 1..Len(policy.arrays[p[1]])
      BY <3>1 DEF Holds
    <3> QED
      BY <2>3, <3>2, LenProperties
  <2> QED
    BY <2>3, <2>4, <2>5 DEF TypeOK
<1> QED
  BY <1>1, PolicyInvHolds, PTL

\* ErasePeers makes room at the cost of peers that have failed only (policy.go:66),
\* for every size of the list, wherever it starts and whatever is shifted under
\* the pointers of connections.
THEOREM UsefulPeersStay == Spec => CandidatesStay
<1>1. PolicyInv /\ ListsInv /\ [Next]_vars =>
        [(\A c \in Conns : conns'[c].state = "gone" => conns[c].state = "gone") =>
           \A i \in 1..policy.len :
             LET p == Peers(policy)[i] IN
             p.conn # NoConn \/ IsConnectCandidate(p) => Find(policy', p.ep) # {}]_vars
  <2>1. SUFFICES ASSUME PolicyInv, ListsInv, [Next]_vars,
                        \A c \in Conns : conns'[c].state = "gone" => conns[c].state = "gone",
                        NEW i \in 1..policy.len, Useful(Peers(policy)[i])
                 PROVE  Find(policy', Peers(policy)[i].ep) # {}
    BY DEF Useful
  <2>2. PolicyInv' /\ Stays(policy, policy')
    BY <2>1, PolicyInvStep DEF Kept
  <2>3. PICK m, p : m = policy' /\ p = Entry(policy, i)
    OBVIOUS
  <2>4. Shaped(m) /\ Shaped(policy)
    BY <2>1, <2>2, <2>3 DEF PolicyInv, ListOK
  <2>5. Peers(policy)[i] = p
    BY <2>3, <2>4, PeersAre
  <2>6. \E j \in 1..m.len : Entry(m, j).ep = p.ep
    BY <2>1, <2>2, <2>3, <2>5 DEF Stays
  <2>7. Find(m, p.ep) # {}
    BY <2>4, <2>6, FindIs
  <2> QED
    BY <2>3, <2>5, <2>7
<1> QED
  BY <1>1, PolicyInvHolds, PTL DEF Spec, CandidatesStay

\* While the pointers of connections lead to the entries that have them, no entry
\* keeps a connection that was removed (transfer_test.go:111, policy.go:205), for
\* every number of peers and connections.
THEOREM NoneIsLost == Spec => LostByShiftsOnly
<1>1. PolicyInv /\ ListsInv /\ [Next]_vars =>
        [(\A c \in session : OwnEntry(c)) /\ Lost = {} => Lost' = {}]_vars
  BY PolicyInvStep DEF Kept
<1> QED
  BY <1>1, PolicyInvHolds, PTL DEF Spec, LostByShiftsOnly

\* Both: what the list promises of its peers
THEOREM PeersAreKept == Spec => ListKeepsPeers
  BY UsefulPeersStay, NoneIsLost DEF ListKeepsPeers

=============================================================================
