--------------------------- MODULE ExchangeProofs ---------------------------
(***************************************************************************)
(* Proofs about UploadQueue for any number of clients, files and slots: the*)
(* lists and what the connections say of themselves agree after every      *)
(* step, and the queue is a pool of slots.                                 *)
(*                                                                         *)
(* Then about Exchange, for every number of ranges and packets, and all    *)
(* faults: data is sent for the blocks that are waited for, and once       *)
(* (PartsAreAwaited), and a block that is waited for has a reason to come, *)
(* or there is one why it does not (UnansweredIsExplained). The invariant, *)
(* Linked, is about the two ends of one connection that reach each other   *)
(* and the packets between them: which of the stages of a conversation -   *)
(* greeting, request, ranges that are asked for, their data - they are in. *)
(* A step of the session changes one client's Side at most, which is what  *)
(* the lemmas about the queue are used for.                                *)
(***************************************************************************)
EXTENDS Exchange, FiniteSetTheorems, SequenceTheorems, TLAPS

Distinct(w) == \A i, j \in DOMAIN w : w[i] = w[j] => i = j

-----------------------------------------------------------------------------
(* Lemmas about lists without duplicates.                                  *)

\* The set of a sequence.
LEMMA SetOfSeq ==
  ASSUME NEW S, NEW w \in Seq(S)
  PROVE  /\ ToSet(w) \in SUBSET S
         /\ DOMAIN w = 1..Len(w)
         /\ Len(w) \in Nat
         /\ \A c : c \in ToSet(w) <=> \E i \in 1..Len(w) : w[i] = c
  BY DEF ToSet

\* A client that comes to the end of a list (append).
LEMMA AppendToList ==
  ASSUME NEW S, NEW w \in Seq(S), NEW c \in S
  PROVE  /\ Append(w, c) \in Seq(S)
         /\ ToSet(Append(w, c)) = ToSet(w) \union {c}
         /\ Distinct(w) /\ c \notin ToSet(w) => Distinct(Append(w, c))
<1> DEFINE t == Append(w, c)
<1>1. /\ t \in Seq(S) /\ Len(t) = Len(w) + 1 /\ Len(w) \in Nat
      /\ \A i \in 1..Len(w) : t[i] = w[i]
      /\ t[Len(w) + 1] = c
      /\ DOMAIN t = 1..Len(w) + 1 /\ DOMAIN w = 1..Len(w)
  OBVIOUS
<1>2. ToSet(t) = ToSet(w) \union {c}
  <2> HIDE DEF t
  <2>1. ASSUME NEW d \in ToSet(t) PROVE d \in ToSet(w) \union {c}
    BY <1>1 DEF ToSet
  <2>2. ASSUME NEW d \in ToSet(w) \union {c} PROVE d \in ToSet(t)
    <3>1. Len(w) + 1 \in DOMAIN t /\ \A i \in DOMAIN w : i \in DOMAIN t
      BY <1>1
    <3> QED BY <1>1, <3>1 DEF ToSet
  <2> QED BY <2>1, <2>2
<1>3. Distinct(w) /\ c \notin ToSet(w) => Distinct(t)
  <2> HIDE DEF t
  <2> QED BY <1>1 DEF Distinct, ToSet
<1> QED BY <1>1, <1>2, <1>3

\* A client that is taken out of a list (append of what is before and behind).
LEMMA RemoveFromList ==
  ASSUME NEW S, NEW w \in Seq(S), NEW k \in 1..Len(w)
  PROVE  /\ RemoveAt(w, k) \in Seq(S)
         /\ Distinct(w) => /\ ToSet(RemoveAt(w, k)) = ToSet(w) \ {w[k]}
                           /\ Distinct(RemoveAt(w, k))
<1> DEFINE t == RemoveAt(w, k)
           At(i) == IF i < k THEN i ELSE i + 1
<1>1. /\ t \in Seq(S) /\ Len(t) = Len(w) - 1 /\ Len(w) \in Nat
      /\ DOMAIN t = 1..Len(t) /\ DOMAIN w = 1..Len(w)
      /\ \A i \in 1..Len(t) : t[i] = w[At(i)]
  <2>1. \A i \in 1..k - 1 : w[i] \in S
    OBVIOUS
  <2>2. \A i \in k + 1..Len(w) : w[i] \in S
    OBVIOUS
  <2>3. /\ SubSeq(w, 1, k - 1) \in Seq(S) /\ Len(SubSeq(w, 1, k - 1)) = k - 1
        /\ \A i \in 1..k - 1 : SubSeq(w, 1, k - 1)[i] = w[i]
    BY <2>1, SubSeqProperties, k - 1 \in Int
  <2>4. /\ SubSeq(w, k + 1, Len(w)) \in Seq(S) /\ Len(SubSeq(w, k + 1, Len(w))) = Len(w) - k
        /\ \A i \in 1..Len(w) - k : SubSeq(w, k + 1, Len(w))[i] = w[k + i]
    <3>1. /\ SubSeq(w, k + 1, Len(w)) \in Seq(S)
          /\ Len(SubSeq(w, k + 1, Len(w))) = IF k + 1 <= Len(w) THEN Len(w) - (k + 1) + 1 ELSE 0
          /\ \A i \in 1..Len(w) - (k + 1) + 1 : SubSeq(w, k + 1, Len(w))[i] = w[(k + 1) + i - 1]
      BY <2>2, SubSeqProperties, k + 1 \in Int
    <3> QED BY <3>1
  <2>5. /\ t \in Seq(S) /\ Len(t) = Len(w) - 1
        /\ \A i \in 1..Len(w) - 1 :
             t[i] = IF i <= k - 1 THEN SubSeq(w, 1, k - 1)[i]
                                  ELSE SubSeq(w, k + 1, Len(w))[i - (k - 1)]
    <3> DEFINE before == SubSeq(w, 1, k - 1)
               behind == SubSeq(w, k + 1, Len(w))
    <3>1. t = before \o behind
      BY DEF RemoveAt
    <3>2. /\ before \in Seq(S) /\ Len(before) = k - 1
          /\ behind \in Seq(S) /\ Len(behind) = Len(w) - k
      BY <2>3, <2>4
    <3> HIDE DEF t, before, behind
    <3>3. /\ before \o behind \in Seq(S)
          /\ Len(before \o behind) = Len(before) + Len(behind)
          /\ \A i \in 1..Len(before) + Len(behind) :
               (before \o behind)[i] =
                 IF i <= Len(before) THEN before[i] ELSE behind[i - Len(before)]
      BY <3>2, ConcatProperties
    <3>4. Len(before) + Len(behind) = Len(w) - 1
      BY <3>2
    <3> QED BY <3>1, <3>2, <3>3, <3>4 DEF before, behind
  <2>6. ASSUME NEW i \in 1..Len(w) - 1 PROVE t[i] = w[At(i)]
    <3>1. CASE i < k
      <4>1. i \in 1..k - 1
        BY <3>1
      <4> QED BY <2>3, <2>5, <3>1, <4>1
    <3>2. CASE ~(i < k)
      <4>1. i - (k - 1) \in 1..Len(w) - k /\ k + (i - (k - 1)) = i + 1 /\ ~(i <= k - 1)
        BY <3>2
      <4>2. SubSeq(w, k + 1, Len(w))[i - (k - 1)] = w[k + (i - (k - 1))]
        BY <2>4, <4>1
      <4>3. t[i] = SubSeq(w, k + 1, Len(w))[i - (k - 1)]
        BY <2>5, <4>1
      <4> QED BY <3>2, <4>1, <4>2, <4>3
    <3> QED BY <3>1, <3>2
  <2> HIDE DEF t
  <2> QED BY <2>5, <2>6
<1> HIDE DEF t
<1>2. \A i \in 1..Len(t) : At(i) \in 1..Len(w) /\ At(i) # k
  BY <1>1
<1>3. \A j \in 1..Len(w) : j # k => \E i \in 1..Len(t) : At(i) = j
  <2> SUFFICES ASSUME NEW j \in 1..Len(w), j # k PROVE \E i \in 1..Len(t) : At(i) = j
    OBVIOUS
  <2>1. CASE j < k
    BY <1>1, <2>1
  <2>2. CASE ~(j < k)
    <3>1. j - 1 \in 1..Len(t) /\ At(j - 1) = j
      BY <1>1, <2>2
    <3> QED BY <3>1
  <2> QED BY <2>1, <2>2
<1>4. \A i, j \in 1..Len(t) : At(i) = At(j) => i = j
  BY <1>1
<1> HIDE DEF At
<1>5. ASSUME Distinct(w) PROVE ToSet(t) = ToSet(w) \ {w[k]}
  <2>1. ASSUME NEW c \in ToSet(t) PROVE c \in ToSet(w) \ {w[k]}
    BY <1>1, <1>2, <1>5 DEF ToSet, Distinct
  <2>2. ASSUME NEW c \in ToSet(w) \ {w[k]} PROVE c \in ToSet(t)
    <3>1. PICK j \in 1..Len(w) : w[j] = c
      BY <1>1 DEF ToSet
    <3>2. PICK i \in 1..Len(t) : At(i) = j
      BY <1>3, <3>1
    <3> QED BY <1>1, <3>1, <3>2 DEF ToSet
  <2> QED BY <2>1, <2>2
<1>6. Distinct(w) => Distinct(t)
  BY <1>1, <1>2, <1>4 DEF Distinct
<1> QED BY <1>1, <1>5, <1>6 DEF t

\* slices.Index finds a client that is in the list.
LEMMA IndexInList ==
  ASSUME NEW S, NEW w \in Seq(S), NEW c \in ToSet(w)
  PROVE  Index(w, c) \in 1..Len(w) /\ w[Index(w, c)] = c
  BY DEF Index, ToSet

LEMMA WithoutInList ==
  ASSUME NEW S, NEW w \in Seq(S), NEW c
  PROVE  /\ Without(w, c) \in Seq(S)
         /\ Distinct(w) => /\ ToSet(Without(w, c)) = ToSet(w) \ {c}
                           /\ Distinct(Without(w, c))
<1>1. CASE c \in ToSet(w)
  <2>1. Index(w, c) \in 1..Len(w) /\ w[Index(w, c)] = c
    BY <1>1, IndexInList
  <2>2. Without(w, c) = RemoveAt(w, Index(w, c))
    BY <1>1 DEF Without
  <2> QED BY <2>1, <2>2, RemoveFromList
<1>2. CASE c \notin ToSet(w)
  BY <1>2 DEF Without
<1> QED BY <1>1, <1>2

\* The number of clients in a list is its length.
LEMMA LengthOfList ==
  ASSUME NEW S, NEW w \in Seq(S), Distinct(w)
  PROVE  IsFiniteSet(ToSet(w)) /\ Cardinality(ToSet(w)) = Len(w)
<1>1. w \in [1..Len(w) -> ToSet(w)] /\ Len(w) \in Nat /\ DOMAIN w = 1..Len(w)
  BY DEF ToSet
<1>2. w \in Bijection(1..Len(w), ToSet(w))
  BY <1>1 DEF ToSet, Distinct, Bijection, Injection, Surjection, IsInjective
<1>3. ExistsBijection(1..Len(w), ToSet(w))
  BY <1>2 DEF ExistsBijection
<1> QED BY <1>1, <1>3, FS_NatBijection, FS_CountingElements

\* Sorting keeps the clients of a list, each once (sortWaiting).
LEMMA SortedList ==
  ASSUME NEW S, NEW w \in Seq(S), Distinct(w), NEW t \in Orders(w)
  PROVE  t \in Seq(S) /\ ToSet(t) = ToSet(w) /\ Distinct(t)
<1> DEFINE D == DOMAIN w
<1>1. D = 1..Len(w) /\ Len(w) \in Nat
  OBVIOUS
<1>2. PICK p \in Injection(D, D) : t = [i \in D |-> w[p[i]]]
  BY DEF Orders
<1>3. p \in [D -> D] /\ \A i, j \in D : p[i] = p[j] => i = j
  BY <1>2 DEF Injection, IsInjective
<1>4. \A j \in D : \E i \in D : p[i] = j
  <2>1. IsFiniteSet(D)
    BY <1>1, FS_Interval
  <2>2. p \in Surjection(D, D)
    BY <1>2, <2>1, FS_Injection
  <2> QED BY <2>2 DEF Surjection
<1>5. t \in Seq(S) /\ DOMAIN t = D /\ \A i \in D : t[i] = w[p[i]]
  BY <1>1, <1>2, <1>3
<1> QED BY <1>3, <1>4, <1>5 DEF ToSet, Distinct

-----------------------------------------------------------------------------
(* What holds of a queue between the steps.                                *)

QueueType ==
  [waiting : Seq(Clients), uploading : Seq(Clients),
   state : [Clients -> UploadStates], rank : [Clients -> Nat],
   addNext : [Clients -> BOOLEAN], asked : [Clients -> SUBSET Parts],
   sent : [Clients -> SUBSET Parts], over : [Clients -> BOOLEAN],
   kicking : BOOLEAN, lastHighID : BOOLEAN, recent : BOOLEAN]

\* The lists have no duplicates, and the ranks are the places in `waiting`.
Lists(r) ==
  /\ Distinct(r.waiting) /\ Distinct(r.uploading)
  /\ \A i \in 1..Len(r.waiting) : r.rank[r.waiting[i]] = i

\* What the connection of c says is where c is; who goes next when it connects
\* has a low identifier.
Placed(r, c) ==
  /\ r.state[c] = "Uploading" <=> c \in Uploading(r)
  /\ r.state[c] = "OnQueue" <=> c \in Waiting(r)
  /\ c \notin Waiting(r) => r.rank[c] = 0
  /\ r.asked[c] \union r.sent[c] # {} => c \in Uploading(r)
  /\ r.addNext[c] => c \in LowIDs

Sound(r) == r \in QueueType /\ Lists(r) /\ \A c \in Clients : Placed(r, c)

\* c is in neither list, on its way from one to the other, whatever its
\* connection says of state and rank.
Aside(r, c) ==
  /\ r \in QueueType /\ Lists(r)
  /\ \A d \in Clients \ {c} : Placed(r, d)
  /\ c \notin Waiting(r) \union Uploading(r)
  /\ r.asked[c] \union r.sent[c] = {}
  /\ r.addNext[c] => c \in LowIDs

Same(t, r) == Waiting(t) = Waiting(r) /\ Uploading(t) = Uploading(r)

-----------------------------------------------------------------------------
(* The operators on the queue.                                             *)

\* recomputeRanks: the ranks follow the list.
LEMMA RankedQueue ==
  ASSUME NEW r \in QueueType, NEW w \in Seq(Clients), Distinct(w)
  PROVE  /\ Ranked(r, w) \in QueueType
         /\ Ranked(r, w) = [r EXCEPT !.waiting = w, !.rank = Ranked(r, w).rank]
         /\ \A i \in 1..Len(w) : Ranked(r, w).rank[w[i]] = i
         /\ \A c \in Clients \ ToSet(w) : Ranked(r, w).rank[c] = r.rank[c]
<1> DEFINE rank == [c \in Clients |-> IF c \in ToSet(w) THEN Index(w, c) ELSE r.rank[c]]
<1>1. rank \in [Clients -> Nat]
  <2>1. \A c \in ToSet(w) : Index(w, c) \in Nat
    BY IndexInList, SetOfSeq
  <2>2. r.rank \in [Clients -> Nat]
    BY DEF QueueType
  <2> QED BY <2>1, <2>2
<1>2. Ranked(r, w) = [r EXCEPT !.waiting = w, !.rank = rank]
  BY DEF Ranked, QueueType
<1>3. \A i \in 1..Len(w) : w[i] \in Clients /\ w[i] \in ToSet(w) /\ Index(w, w[i]) = i
  BY IndexInList DEF Distinct, ToSet
<1>4. \A i \in 1..Len(w) : rank[w[i]] = i
  BY <1>3
<1>5. \A c \in Clients \ ToSet(w) : rank[c] = r.rank[c]
  OBVIOUS
<1> HIDE DEF rank
<1>6. Ranked(r, w).rank = rank
  BY <1>2 DEF QueueType
<1> QED BY <1>1, <1>2, <1>4, <1>5, <1>6 DEF QueueType


\* GiveSlot of a client that is in neither list: it uploads.
LEMMA SlotGiven ==
  ASSUME NEW r, NEW c \in Clients, Aside(r, c)
  PROVE  /\ Sound(GiveSlot(r, c))
         /\ Waiting(GiveSlot(r, c)) = Waiting(r)
         /\ Uploading(GiveSlot(r, c)) = Uploading(r) \union {c}
<1> DEFINE t == GiveSlot(r, c)
<1>1. /\ r \in QueueType /\ Lists(r) /\ c \notin Waiting(r) /\ c \notin Uploading(r)
      /\ \A d \in Clients \ {c} : Placed(r, d)
      /\ r.asked[c] \union r.sent[c] = {}
  BY DEF Aside
<1>2. t = [r EXCEPT !.uploading = Append(@, c), !.state[c] = "Uploading",
                    !.rank[c] = 0, !.addNext[c] = FALSE, !.over[c] = FALSE,
                    !.lastHighID = c \notin LowIDs]
  BY <1>1 DEF GiveSlot
<1>3. /\ Append(r.uploading, c) \in Seq(Clients)
      /\ ToSet(Append(r.uploading, c)) = Uploading(r) \union {c}
      /\ Distinct(Append(r.uploading, c))
  BY <1>1, AppendToList DEF QueueType, Lists, Uploading
<1> DEFINE u == Append(r.uploading, c)
<1> HIDE DEF u
<1>4. /\ t \in QueueType
      /\ t.waiting = r.waiting /\ t.uploading = u
      /\ t.state = [r.state EXCEPT ![c] = "Uploading"]
      /\ t.rank = [r.rank EXCEPT ![c] = 0]
      /\ t.addNext = [r.addNext EXCEPT ![c] = FALSE]
      /\ t.asked = r.asked /\ t.sent = r.sent
  <2> DEFINE state == [r.state EXCEPT ![c] = "Uploading"]
             rank == [r.rank EXCEPT ![c] = 0]
             addNext == [r.addNext EXCEPT ![c] = FALSE]
             over == [r.over EXCEPT ![c] = FALSE]
             high == c \notin LowIDs
  <2>1. t = [r EXCEPT !.uploading = u, !.state = state, !.rank = rank,
                      !.addNext = addNext, !.over = over, !.lastHighID = high]
    BY <1>2 DEF u
  <2>2. /\ u \in Seq(Clients) /\ state \in [Clients -> UploadStates]
        /\ rank \in [Clients -> Nat] /\ addNext \in [Clients -> BOOLEAN]
        /\ over \in [Clients -> BOOLEAN] /\ high \in BOOLEAN
    BY <1>1, <1>3 DEF QueueType, UploadStates, u
  <2> HIDE DEF t, state, rank, addNext, over, high
  <2>3. t \in QueueType
    BY <1>1, <2>1, <2>2 DEF QueueType
  <2>4. /\ t.waiting = r.waiting /\ t.uploading = u /\ t.state = state
        /\ t.rank = rank /\ t.addNext = addNext
        /\ t.asked = r.asked /\ t.sent = r.sent
    BY <1>1, <2>1 DEF QueueType
  <2> QED BY <2>3, <2>4 DEF state, rank, addNext
<1> HIDE DEF t
<1>5. Waiting(t) = Waiting(r) /\ Uploading(t) = Uploading(r) \union {c}
  BY <1>3, <1>4 DEF Waiting, Uploading, u
<1>6. Lists(t)
  <2>1. \A i \in 1..Len(r.waiting) : r.waiting[i] \in Clients /\ r.waiting[i] # c
    BY <1>1 DEF QueueType, Waiting, ToSet
  <2> QED BY <1>1, <1>3, <1>4, <2>1 DEF Lists, QueueType, u
<1>7. \A d \in Clients : Placed(t, d)
  BY <1>1, <1>4, <1>5 DEF Placed, QueueType
<1> QED BY <1>4, <1>5, <1>6, <1>7 DEF Sound, t

\* A client in neither list that gets the state OnQueue and goes to the waiting
\* list, which is sorted.
LEMMA WaitingAdded ==
  ASSUME NEW r, NEW c \in Clients, Aside(r, c),
         NEW t \in Sorted([r EXCEPT !.state[c] = "OnQueue"], Append(r.waiting, c))
  PROVE  /\ Sound(t)
         /\ Waiting(t) = Waiting(r) \union {c}
         /\ Uploading(t) = Uploading(r)
<1> DEFINE m == [r EXCEPT !.state[c] = "OnQueue"]
<1>1. /\ r \in QueueType /\ Lists(r) /\ c \notin Waiting(r) /\ c \notin Uploading(r)
      /\ \A d \in Clients \ {c} : Placed(r, d)
      /\ r.asked[c] \union r.sent[c] = {}
      /\ r.addNext[c] => c \in LowIDs
  BY DEF Aside
<1>2. PICK w \in Orders(Append(r.waiting, c)) : t = Ranked(m, w)
  BY DEF Sorted
<1>3. w \in Seq(Clients) /\ ToSet(w) = Waiting(r) \union {c} /\ Distinct(w)
  <2>1. /\ Append(r.waiting, c) \in Seq(Clients)
        /\ ToSet(Append(r.waiting, c)) = Waiting(r) \union {c}
        /\ Distinct(Append(r.waiting, c))
    BY <1>1, AppendToList DEF QueueType, Lists, Waiting
  <2> QED BY <1>2, <2>1, SortedList
<1>4. /\ m \in QueueType
      /\ m = [r EXCEPT !.state = [r.state EXCEPT ![c] = "OnQueue"]]
      /\ m.rank = r.rank
  BY <1>1 DEF QueueType, UploadStates
<1> HIDE DEF m
<1>5. /\ t \in QueueType
      /\ t = [m EXCEPT !.waiting = w, !.rank = t.rank]
      /\ \A i \in 1..Len(w) : t.rank[w[i]] = i
      /\ \A d \in Clients \ ToSet(w) : t.rank[d] = m.rank[d]
  <2>1. m \in QueueType /\ w \in Seq(Clients) /\ Distinct(w)
    BY <1>3, <1>4
  <2>2. /\ Ranked(m, w) \in QueueType
        /\ Ranked(m, w) = [m EXCEPT !.waiting = w, !.rank = Ranked(m, w).rank]
        /\ \A i \in 1..Len(w) : Ranked(m, w).rank[w[i]] = i
        /\ \A d \in Clients \ ToSet(w) : Ranked(m, w).rank[d] = m.rank[d]
    BY <2>1, RankedQueue, Zenon
  <2> QED BY <1>2, <2>2, Zenon
<1>6. /\ t.waiting = w /\ t.uploading = r.uploading
      /\ t.state = [r.state EXCEPT ![c] = "OnQueue"]
      /\ t.addNext = r.addNext /\ t.asked = r.asked /\ t.sent = r.sent
  <2>1. /\ t.waiting = w /\ t.uploading = m.uploading /\ t.state = m.state
        /\ t.addNext = m.addNext /\ t.asked = m.asked /\ t.sent = m.sent
    BY <1>4, <1>5 DEF QueueType
  <2>2. /\ m.uploading = r.uploading /\ m.state = [r.state EXCEPT ![c] = "OnQueue"]
        /\ m.addNext = r.addNext /\ m.asked = r.asked /\ m.sent = r.sent
    BY <1>1, <1>4 DEF QueueType
  <2> QED BY <2>1, <2>2
<1>7. Waiting(t) = Waiting(r) \union {c} /\ Uploading(t) = Uploading(r)
  BY <1>3, <1>6 DEF Waiting, Uploading
<1>8. Lists(t)
  BY <1>1, <1>3, <1>5, <1>6 DEF Lists
<1>9. \A d \in Clients : Placed(t, d)
  BY <1>1, <1>3, <1>4, <1>5, <1>6, <1>7 DEF Placed, QueueType
<1> QED BY <1>5, <1>7, <1>8, <1>9 DEF Sound


\* sortWaiting leaves every client where it is.
LEMMA SortedAgain ==
  ASSUME NEW r, Sound(r), NEW t \in Sorted(r, r.waiting)
  PROVE  Sound(t) /\ Same(t, r)
<1>1. /\ r \in QueueType /\ Lists(r) /\ \A c \in Clients : Placed(r, c)
      /\ r.waiting \in Seq(Clients) /\ Distinct(r.waiting)
  BY DEF Sound, Lists, QueueType
<1>2. PICK w \in Orders(r.waiting) : t = Ranked(r, w)
  BY DEF Sorted
<1>3. w \in Seq(Clients) /\ ToSet(w) = Waiting(r) /\ Distinct(w)
  BY <1>1, <1>2, SortedList DEF Waiting
<1>4. /\ t \in QueueType
      /\ t = [r EXCEPT !.waiting = w, !.rank = t.rank]
      /\ \A i \in 1..Len(w) : t.rank[w[i]] = i
      /\ \A c \in Clients \ ToSet(w) : t.rank[c] = r.rank[c]
  BY <1>1, <1>2, <1>3, RankedQueue
<1>5. /\ t.waiting = w /\ t.uploading = r.uploading /\ t.state = r.state
      /\ t.addNext = r.addNext /\ t.asked = r.asked /\ t.sent = r.sent
  BY <1>1, <1>4 DEF QueueType
<1>6. Same(t, r)
  BY <1>3, <1>5 DEF Same, Waiting, Uploading
<1>7. Lists(t)
  BY <1>1, <1>3, <1>4, <1>5 DEF Lists
<1>8. \A c \in Clients : Placed(t, c)
  BY <1>1, <1>3, <1>4, <1>5, <1>6 DEF Placed, Same
<1> QED BY <1>4, <1>6, <1>7, <1>8 DEF Sound

\* A client is taken out of the waiting list at its place: it is in neither.
LEMMA WaitingTaken ==
  ASSUME NEW r, Sound(r), NEW w \in Seq(Clients), NEW c \in Waiting(r),
         Distinct(w), ToSet(w) = Waiting(r) \ {c}
  PROVE  /\ Aside(Ranked(r, w), c)
         /\ Waiting(Ranked(r, w)) = Waiting(r) \ {c}
         /\ Uploading(Ranked(r, w)) = Uploading(r)
<1> DEFINE t == Ranked(r, w)
<1>1. /\ r \in QueueType /\ Lists(r) /\ \A d \in Clients : Placed(r, d)
      /\ c \in Clients
  BY SetOfSeq DEF Sound, QueueType, Waiting
<1>2. /\ t \in QueueType
      /\ t = [r EXCEPT !.waiting = w, !.rank = t.rank]
      /\ \A i \in 1..Len(w) : t.rank[w[i]] = i
      /\ \A d \in Clients \ ToSet(w) : t.rank[d] = r.rank[d]
  BY <1>1, RankedQueue
<1> HIDE DEF t
<1>3. /\ t.waiting = w /\ t.uploading = r.uploading /\ t.state = r.state
      /\ t.addNext = r.addNext /\ t.asked = r.asked /\ t.sent = r.sent
  BY <1>1, <1>2 DEF QueueType
<1>4. Waiting(t) = Waiting(r) \ {c} /\ Uploading(t) = Uploading(r)
  BY <1>3 DEF Waiting, Uploading
<1>5. Lists(t)
  BY <1>1, <1>2, <1>3 DEF Lists
<1>6. \A d \in Clients \ {c} : Placed(t, d)
  BY <1>1, <1>2, <1>3, <1>4 DEF Placed
<1>7. c \notin Uploading(r)
  BY <1>1 DEF Placed
<1> QED BY <1>1, <1>2, <1>3, <1>4, <1>5, <1>6, <1>7 DEF Aside, Placed, t

\* A client in neither list, with nothing left in its connection.
LEMMA AsideSettled ==
  ASSUME NEW r, NEW c \in Clients, Aside(r, c)
  PROVE  /\ Sound([r EXCEPT !.state[c] = "None", !.rank[c] = 0])
         /\ Same([r EXCEPT !.state[c] = "None", !.rank[c] = 0], r)
<1> DEFINE t == [r EXCEPT !.state[c] = "None", !.rank[c] = 0]
<1>1. /\ r \in QueueType /\ Lists(r) /\ c \notin Waiting(r) /\ c \notin Uploading(r)
      /\ \A d \in Clients \ {c} : Placed(r, d)
      /\ r.asked[c] \union r.sent[c] = {}
      /\ r.addNext[c] => c \in LowIDs
  BY DEF Aside
<1>2. /\ t \in QueueType
      /\ t.waiting = r.waiting /\ t.uploading = r.uploading
      /\ t.state = [r.state EXCEPT ![c] = "None"]
      /\ t.rank = [r.rank EXCEPT ![c] = 0]
      /\ t.addNext = r.addNext /\ t.asked = r.asked /\ t.sent = r.sent
  BY <1>1 DEF QueueType, UploadStates
<1> HIDE DEF t
<1>3. Same(t, r)
  BY <1>2 DEF Same, Waiting, Uploading
<1>4. Lists(t)
  <2>1. \A i \in 1..Len(r.waiting) : r.waiting[i] \in Clients /\ r.waiting[i] # c
    BY <1>1 DEF QueueType, Waiting, ToSet
  <2> QED BY <1>1, <1>2, <2>1 DEF Lists, QueueType
<1>5. \A d \in Clients : Placed(t, d)
  <2>1. /\ t.state[c] = "None" /\ t.rank[c] = 0
        /\ \A d \in Clients \ {c} : t.state[d] = r.state[d] /\ t.rank[d] = r.rank[d]
    BY <1>1, <1>2 DEF QueueType
  <2>2. Placed(t, c)
    BY <1>1, <1>2, <1>3, <2>1 DEF Placed, Same
  <2>3. ASSUME NEW d \in Clients \ {c} PROVE Placed(t, d)
    BY <1>1, <1>2, <1>3, <2>1 DEF Placed, Same
  <2> QED BY <2>2, <2>3
<1> QED BY <1>2, <1>3, <1>4, <1>5 DEF Sound, t

\* RemoveFromWaitingQueue.
LEMMA WaitingRemoved ==
  ASSUME NEW r, Sound(r), NEW c \in Clients
  PROVE  /\ Sound(RemoveFromWaitingQueue(r, c))
         /\ Waiting(RemoveFromWaitingQueue(r, c)) = Waiting(r) \ {c}
         /\ Uploading(RemoveFromWaitingQueue(r, c)) = Uploading(r)
<1>1. CASE c \notin Waiting(r)
  BY <1>1 DEF RemoveFromWaitingQueue
<1>2. CASE c \in Waiting(r)
  <2> DEFINE w == Without(r.waiting, c)
             m == Ranked(r, w)
             t == RemoveFromWaitingQueue(r, c)
  <2>1. w \in Seq(Clients) /\ Distinct(w) /\ ToSet(w) = Waiting(r) \ {c}
    BY WithoutInList DEF Sound, QueueType, Lists, Waiting
  <2>2. /\ Aside(m, c) /\ Waiting(m) = Waiting(r) \ {c}
        /\ Uploading(m) = Uploading(r)
    BY <1>2, <2>1, WaitingTaken
  <2>3. t = [m EXCEPT !.state[c] = "None", !.rank[c] = 0]
    BY <1>2 DEF RemoveFromWaitingQueue
  <2> HIDE DEF m, t
  <2>4. Sound(t) /\ Same(t, m)
    BY <2>2, <2>3, AsideSettled
  <2> QED BY <2>2, <2>4 DEF Same, t
<1> QED BY <1>1, <1>2


\* RemoveFromUploadQueue.
LEMMA ClientRemoved ==
  ASSUME NEW r, Sound(r), NEW c \in Clients
  PROVE  /\ Sound(RemoveFromUploadQueue(r, c))
         /\ Waiting(RemoveFromUploadQueue(r, c)) = Waiting(r) \ {c}
         /\ Uploading(RemoveFromUploadQueue(r, c)) = Uploading(r) \ {c}
<1> DEFINE t == RemoveFromUploadQueue(r, c)
<1>1. /\ r \in QueueType /\ Lists(r) /\ \A d \in Clients : Placed(r, d)
  BY DEF Sound
<1>2. CASE c \notin Waiting(r) \union Uploading(r)
  BY <1>2 DEF RemoveFromUploadQueue
<1>3. CASE c \in Uploading(r)
  <2> DEFINE u == Without(r.uploading, c)
             m == [r EXCEPT !.uploading = u]
             a == [m EXCEPT !.asked[c] = {}, !.sent[c] = {}]
  <2>1. u \in Seq(Clients) /\ Distinct(u) /\ ToSet(u) = Uploading(r) \ {c}
    BY <1>1, WithoutInList DEF QueueType, Lists, Uploading
  <2>2. c \notin Waiting(r)
    BY <1>1, <1>3 DEF Placed
  <2>3. RemoveFromWaitingQueue(m, c) = m
    BY <1>1, <2>2 DEF RemoveFromWaitingQueue, Waiting, QueueType
  <2>4. t = [m EXCEPT !.state[c] = "None", !.asked[c] = {}, !.sent[c] = {}]
    BY <1>3, <2>3 DEF RemoveFromUploadQueue
  <2> HIDE DEF u
  <2>5. /\ m \in QueueType /\ m.waiting = r.waiting /\ m.uploading = u
        /\ m.state = r.state /\ m.rank = r.rank /\ m.addNext = r.addNext
        /\ m.asked = r.asked /\ m.sent = r.sent
    BY <1>1, <2>1 DEF QueueType
  <2> HIDE DEF m
  <2>6. /\ a \in QueueType /\ a.waiting = r.waiting /\ a.uploading = u
        /\ a.state = r.state /\ a.rank = r.rank /\ a.addNext = r.addNext
        /\ a.asked = [r.asked EXCEPT ![c] = {}] /\ a.sent = [r.sent EXCEPT ![c] = {}]
    BY <2>5 DEF QueueType
  <2>7. r.rank[c] = 0 /\ r.rank \in [Clients -> Nat] /\ r.state \in [Clients -> UploadStates]
    BY <1>1, <2>2 DEF Placed, QueueType
  <2>8. t = [a EXCEPT !.state[c] = "None", !.rank[c] = 0]
    <3>1. [a.rank EXCEPT ![c] = 0] = a.rank
      BY <2>6, <2>7
    <3>2. [a EXCEPT !.rank[c] = 0] = a
      BY <2>6, <3>1 DEF QueueType
    <3>3. t = [a EXCEPT !.state[c] = "None"]
      BY <2>4, <2>5 DEF QueueType
    <3>4. [a EXCEPT !.state[c] = "None", !.rank[c] = 0]
            = [[a EXCEPT !.rank[c] = 0] EXCEPT !.state[c] = "None"]
      BY <2>6 DEF QueueType
    <3> QED BY <3>2, <3>3, <3>4
  <2> HIDE DEF a, t
  <2>9. Waiting(a) = Waiting(r) /\ Uploading(a) = Uploading(r) \ {c}
    BY <2>1, <2>6 DEF Waiting, Uploading
  <2>10. Aside(a, c)
    <3>1. Lists(a)
      BY <1>1, <2>1, <2>6 DEF Lists
    <3>2. ASSUME NEW d \in Clients \ {c} PROVE Placed(a, d)
      <4>1. a.asked[d] = r.asked[d] /\ a.sent[d] = r.sent[d]
        BY <1>1, <2>6 DEF QueueType
      <4> QED BY <1>1, <2>6, <2>9, <4>1 DEF Placed
    <3>3. a.asked[c] = {} /\ a.sent[c] = {} /\ (a.addNext[c] => c \in LowIDs)
      BY <1>1, <2>6 DEF Placed, QueueType
    <3> QED BY <2>2, <2>6, <2>9, <3>1, <3>2, <3>3 DEF Aside
  <2>11. Sound(t) /\ Same(t, a)
    BY <2>8, <2>10, AsideSettled
  <2> QED BY <2>2, <2>9, <2>11 DEF Same, t
<1>4. CASE c \in Waiting(r)
  <2> DEFINE m == RemoveFromWaitingQueue(r, c)
  <2>1. /\ Sound(m) /\ Waiting(m) = Waiting(r) \ {c} /\ Uploading(m) = Uploading(r)
    BY WaitingRemoved
  <2>2. c \notin Uploading(r)
    BY <1>1, <1>4 DEF Placed
  <2>3. [r EXCEPT !.uploading = Without(@, c)] = r
    <3>1. Without(r.uploading, c) = r.uploading
      BY <2>2 DEF Without, Uploading
    <3> QED BY <1>1, <3>1 DEF QueueType
  <2>4. t = [m EXCEPT !.state[c] = "None", !.asked[c] = {}, !.sent[c] = {}]
    BY <1>4, <2>3 DEF RemoveFromUploadQueue
  <2> HIDE DEF m
  <2>5. /\ m \in QueueType /\ \A d \in Clients : Placed(m, d)
        /\ c \notin Waiting(m) /\ c \notin Uploading(m)
    BY <2>1, <2>2 DEF Sound
  <2>6. /\ m.state[c] = "None" /\ m.asked[c] = {} /\ m.sent[c] = {}
    BY <2>5 DEF Placed, QueueType, UploadStates
  <2>7. t = m
    <3>1. /\ [m.state EXCEPT ![c] = "None"] = m.state
          /\ [m.asked EXCEPT ![c] = {}] = m.asked
          /\ [m.sent EXCEPT ![c] = {}] = m.sent
      BY <2>5, <2>6 DEF QueueType
    <3>2. t = [m EXCEPT !.state = [m.state EXCEPT ![c] = "None"],
                        !.asked = [m.asked EXCEPT ![c] = {}],
                        !.sent = [m.sent EXCEPT ![c] = {}]]
      BY <2>4, <2>5 DEF QueueType
    <3>3. t = [m EXCEPT !.state = m.state, !.asked = m.asked, !.sent = m.sent]
      BY <3>1, <3>2
    <3> HIDE DEF t
    <3> QED BY <2>5, <3>3 DEF QueueType
  <2> QED BY <2>1, <2>2, <2>7
<1> QED BY <1>2, <1>3, <1>4


\* A change of the other fields.
LEMMA SoundKept ==
  ASSUME NEW r, Sound(r), NEW t \in QueueType,
         t.waiting = r.waiting, t.uploading = r.uploading,
         t.state = r.state, t.rank = r.rank,
         \A c \in Clients :
           /\ t.asked[c] \union t.sent[c] # {} => c \in Uploading(r)
           /\ t.addNext[c] => c \in LowIDs
  PROVE  Sound(t) /\ Same(t, r)
<1>1. Same(t, r)
  BY DEF Same, Waiting, Uploading
<1> QED BY <1>1 DEF Same, Sound, Lists, Placed

LEMMA FlagsKept ==
  ASSUME NEW r, Sound(r), NEW b \in BOOLEAN
  PROVE  /\ Sound([r EXCEPT !.recent = b]) /\ Same([r EXCEPT !.recent = b], r)
         /\ Sound([r EXCEPT !.kicking = b]) /\ Same([r EXCEPT !.kicking = b], r)
         /\ Sound([r EXCEPT !.lastHighID = b]) /\ Same([r EXCEPT !.lastHighID = b], r)
<1>1. /\ r \in QueueType
      /\ \A c \in Clients :
           /\ r.asked[c] \union r.sent[c] # {} => c \in Uploading(r)
           /\ r.addNext[c] => c \in LowIDs
  BY DEF Sound, Placed
<1>2. ASSUME NEW t, t \in {[r EXCEPT !.recent = b], [r EXCEPT !.kicking = b],
                          [r EXCEPT !.lastHighID = b]}
      PROVE  Sound(t) /\ Same(t, r)
  <2>1. /\ t \in QueueType
        /\ t.waiting = r.waiting /\ t.uploading = r.uploading
        /\ t.state = r.state /\ t.rank = r.rank
        /\ t.asked = r.asked /\ t.sent = r.sent /\ t.addNext = r.addNext
    BY <1>1, <1>2 DEF QueueType
  <2> QED BY <1>1, <2>1, SoundKept
<1> QED BY <1>2

\* A client that waits gets a slot.
Starts(r, t, c) ==
  /\ c \in Waiting(r)
  /\ Waiting(t) = Waiting(r) \ {c} /\ Uploading(t) = Uploading(r) \union {c}

\* addUpNextClient(nil).
LEMMA NextClientAdded ==
  ASSUME NEW r, Sound(r)
  PROVE  /\ Sound(AddUpNextClient(r))
         /\ \/ Same(AddUpNextClient(r), r)
            \/ \E c \in Clients : Starts(r, AddUpNextClient(r), c)
<1> DEFINE passed == {i \in DOMAIN r.waiting :
                        \A j \in 1..i : r.waiting[j] \in LowIDs /\ ~Open(r.waiting[j])}
           n == Cardinality(passed) + 1
           addNext == [c \in Clients |-> r.addNext[c] \/ \E i \in passed : r.waiting[i] = c]
           marked == [r EXCEPT !.addNext =
                        [c \in Clients |-> @[c] \/ \E i \in passed : r.waiting[i] = c]]
           t == AddUpNextClient(r)
<1>1. r \in QueueType /\ Lists(r) /\ \A c \in Clients : Placed(r, c)
  BY DEF Sound
<1>2. Sound(marked) /\ Same(marked, r) /\ marked.waiting = r.waiting
  <2>1. addNext \in [Clients -> BOOLEAN]
    OBVIOUS
  <2>2. \A c \in Clients : addNext[c] => c \in LowIDs
    <3>1. \A i \in passed : r.waiting[i] \in LowIDs
      BY <1>1 DEF QueueType
    <3> QED BY <1>1, <3>1 DEF Placed
  <2>3. marked = [r EXCEPT !.addNext = addNext]
    BY DEF marked
  <2> HIDE DEF addNext, marked
  <2>4. /\ marked \in QueueType
        /\ marked.waiting = r.waiting /\ marked.uploading = r.uploading
        /\ marked.state = r.state /\ marked.rank = r.rank
        /\ marked.asked = r.asked /\ marked.sent = r.sent /\ marked.addNext = addNext
    BY <1>1, <2>1, <2>3 DEF QueueType
  <2>5. \A c \in Clients : r.asked[c] \union r.sent[c] # {} => c \in Uploading(r)
    BY <1>1 DEF Placed
  <2> QED BY <2>2, <2>4, <2>5, SoundKept
<1>3. n \in Nat /\ n >= 1
  <2>1. IsFiniteSet(passed)
    <3>1. IsFiniteSet(DOMAIN r.waiting)
      BY <1>1, FS_Interval DEF QueueType
    <3> QED BY <3>1, FS_Subset
  <2> QED BY <2>1, FS_CardinalityType
<1> HIDE DEF passed
<1>4. t = IF n > Len(r.waiting) THEN marked
          ELSE GiveSlot(Ranked(marked, RemoveAt(r.waiting, n)), r.waiting[n])
  BY DEF AddUpNextClient, passed
<1> HIDE DEF marked, n, t
<1>5. CASE n > Len(r.waiting)
  BY <1>2, <1>4, <1>5 DEF t
<1>6. CASE ~(n > Len(r.waiting))
  <2> DEFINE c == r.waiting[n]
             w == RemoveAt(r.waiting, n)
             m == Ranked(marked, w)
  <2>1. n \in 1..Len(r.waiting) /\ r.waiting \in Seq(Clients) /\ Distinct(r.waiting)
    BY <1>1, <1>3, <1>6 DEF QueueType, Lists
  <2>2. w \in Seq(Clients) /\ ToSet(w) = Waiting(r) \ {c} /\ Distinct(w)
    BY <2>1, RemoveFromList DEF Waiting
  <2>3. c \in Clients /\ c \in Waiting(r)
    BY <2>1 DEF Waiting, ToSet
  <2> HIDE DEF c, w
  <2>4. /\ Aside(m, c) /\ Waiting(m) = Waiting(marked) \ {c}
        /\ Uploading(m) = Uploading(marked)
    BY <1>2, <2>2, <2>3, WaitingTaken DEF Same
  <2>5. t = GiveSlot(m, c)
    BY <1>4, <1>6 DEF c, w
  <2> HIDE DEF m
  <2>6. /\ Sound(t) /\ Waiting(t) = Waiting(m)
        /\ Uploading(t) = Uploading(m) \union {c}
    BY <2>3, <2>4, <2>5, SlotGiven
  <2>7. Starts(r, t, c)
    BY <1>2, <2>3, <2>4, <2>6 DEF Starts, Same
  <2> QED BY <2>3, <2>6, <2>7 DEF t
<1> QED BY <1>5, <1>6


\* The number of clients that upload, as the code counts them.
Count(r) == Len(r.uploading)

LEMMA CountIsCardinality ==
  ASSUME NEW r, Sound(r)
  PROVE  /\ Count(r) \in Nat
         /\ IsFiniteSet(Uploading(r)) /\ Cardinality(Uploading(r)) = Count(r)
  BY LengthOfList DEF Sound, Lists, QueueType, Count, Uploading

\* The choice of the client that gets the next slot, at the start of Process.
LEMMA NextSlotSound ==
  ASSUME Sound(q)
  PROVE  /\ Sound(NextSlot(q))
         /\ \/ Same(NextSlot(q), q)
            \/ Count(q) < slots /\ \E c \in Clients : Starts(q, NextSlot(q), c)
<1>1. /\ \A b \in BOOLEAN : Sound([q EXCEPT !.kicking = b]) /\ Same([q EXCEPT !.kicking = b], q)
  BY FlagsKept
<1>2. CASE q.waiting = <<>> \/ q.recent \/ ~(Len(q.uploading) < slots)
  BY <1>1, <1>2 DEF NextSlot
<1>3. CASE ~(q.waiting = <<>> \/ q.recent \/ ~(Len(q.uploading) < slots))
  <2> DEFINE m == [q EXCEPT !.kicking = FALSE]
             k == [m EXCEPT !.recent = TRUE]
  <2>1. Sound(m) /\ Same(m, q)
    BY FlagsKept
  <2>2. Sound(k) /\ Same(k, m)
    BY <2>1, FlagsKept
  <2>3. [q EXCEPT !.kicking = FALSE, !.recent = TRUE] = k
    BY DEF Sound, QueueType
  <2>4. NextSlot(q) = AddUpNextClient(k)
    BY <1>3, <2>3 DEF NextSlot
  <2> HIDE DEF m, k
  <2>5. /\ Sound(AddUpNextClient(k))
        /\ \/ Same(AddUpNextClient(k), k)
           \/ \E c \in Clients : Starts(k, AddUpNextClient(k), c)
    BY <2>2, NextClientAdded
  <2>6. Count(q) < slots
    BY <1>3 DEF Count
  <2> QED BY <2>1, <2>2, <2>4, <2>5, <2>6 DEF Same, Starts
<1> QED BY <1>2, <1>3

\* The sort that is due.
LEMMA EndOfLoopSound ==
  ASSUME NEW r, Sound(r), NEW t \in EndOfLoop(r)
  PROVE  Sound(t) /\ Same(t, r)
  BY SortedAgain DEF EndOfLoop, Same

\* What AddClientToQueue does with the lists: nothing; a client that waited
\* gets a slot, with one more if it has a low identifier; a client gets a slot at
\* once; a client has to wait.
StartsDirectly(r, t, c) ==
  /\ Starts(r, t, c)
  /\ Count(r) < slots \/ (Count(r) = slots /\ c \in LowIDs)

StartsAtOnce(r, t, c) ==
  /\ Waiting(r) = {} /\ Waiting(t) = {} /\ Count(r) < slots
  /\ Uploading(t) = Uploading(r) \union {c}

Enqueues(r, t, c) ==
  /\ c \notin Waiting(r) \union Uploading(r)
  /\ Waiting(t) = Waiting(r) \union {c} /\ Uploading(t) = Uploading(r)

Added(r, t, c) ==
  \/ Same(t, r)
  \/ Open(c) /\ (StartsDirectly(r, t, c) \/ StartsAtOnce(r, t, c) \/ Enqueues(r, t, c))

LEMMA AddClientSound ==
  ASSUME NEW r, Sound(r), slots \in Nat,
         NEW c \in Clients, NEW f, NEW t \in AddClientToQueue(r, c, f)
  PROVE  Sound(t) /\ Added(r, t, c)
<1> DEFINE extra  == IF r.lastHighID THEN 1 ELSE 0
           isNext == r.addNext[c] /\ Len(r.uploading) < slots + extra
           refused == \/ f = NoFile
                      \/ f \in suspended
                      \/ Len(r.waiting) >= QueueSize
           atOnce == r.waiting = <<>> /\ ~r.recent /\ Len(r.uploading) < slots
           next == [GiveSlot(RemoveFromWaitingQueue(r, c), c) EXCEPT !.lastHighID = FALSE]
<1>1. /\ r \in QueueType /\ Lists(r) /\ \A d \in Clients : Placed(r, d)
      /\ Count(r) \in Nat
  BY CountIsCardinality DEF Sound
<1>2. CASE ~Open(c) \/ c \in Uploading(r)
  <2>1. ~(c \in Uploading(r) /\ c \in Waiting(r))
    BY <1>1 DEF Placed
  <2>2. t = r
    BY <1>2, <2>1 DEF AddClientToQueue
  <2> QED BY <2>2 DEF Added, Same
<1>3. CASE Open(c) /\ c \notin Uploading(r) /\ c \in Waiting(r)
  <2>1. t = IF isNext THEN next ELSE r
    BY <1>3 DEF AddClientToQueue
  <2>2. CASE ~isNext
    BY <2>1, <2>2 DEF Added, Same
  <2>3. CASE isNext
    <3> DEFINE m == RemoveFromWaitingQueue(r, c)
               k == GiveSlot(m, c)
    <3>1. /\ Sound(m) /\ Waiting(m) = Waiting(r) \ {c} /\ Uploading(m) = Uploading(r)
      BY WaitingRemoved
    <3>2. t = [k EXCEPT !.lastHighID = FALSE]
      BY <2>1, <2>3
    <3>3. c \in LowIDs /\ (Count(r) < slots \/ Count(r) = slots)
      BY <1>1, <2>3 DEF Placed, Count
    <3> HIDE DEF m
    <3>4. Aside(m, c)
      BY <1>3, <3>1 DEF Aside, Sound, Placed
    <3>5. /\ Sound(k) /\ Waiting(k) = Waiting(m)
          /\ Uploading(k) = Uploading(m) \union {c}
      BY <3>4, SlotGiven
    <3> HIDE DEF k
    <3>6. Sound(t) /\ Same(t, k)
      BY <3>2, <3>5, FlagsKept
    <3>7. StartsDirectly(r, t, c)
      BY <1>3, <3>1, <3>3, <3>5, <3>6 DEF StartsDirectly, Starts, Same
    <3> QED BY <1>3, <3>6, <3>7 DEF Added
  <2> QED BY <2>2, <2>3
<1>4. CASE Open(c) /\ c \notin Uploading(r) /\ c \notin Waiting(r)
  <2>1. t \in IF refused THEN {r}
              ELSE IF atOnce THEN {[GiveSlot(r, c) EXCEPT !.recent = TRUE]}
              ELSE Sorted([r EXCEPT !.state[c] = "OnQueue"], Append(r.waiting, c))
    BY <1>4 DEF AddClientToQueue
  <2>2. Aside(r, c)
    BY <1>1, <1>4 DEF Aside, Placed
  <2>3. CASE refused
    BY <2>1, <2>3 DEF Added, Same
  <2>4. CASE ~refused /\ atOnce
    <3> DEFINE k == GiveSlot(r, c)
    <3>1. t = [k EXCEPT !.recent = TRUE]
      BY <2>1, <2>4
    <3>2. /\ Sound(k) /\ Waiting(k) = Waiting(r)
          /\ Uploading(k) = Uploading(r) \union {c}
      BY <2>2, SlotGiven
    <3> HIDE DEF k
    <3>3. Sound(t) /\ Same(t, k)
      BY <3>1, <3>2, FlagsKept
    <3>4. Waiting(r) = {} /\ Count(r) < slots
      BY <2>4 DEF Waiting, ToSet, Count
    <3> QED BY <1>4, <3>2, <3>3, <3>4 DEF Added, StartsAtOnce, Same
  <2>5. CASE ~refused /\ ~atOnce
    <3>1. /\ Sound(t) /\ Waiting(t) = Waiting(r) \union {c}
          /\ Uploading(t) = Uploading(r)
      BY <2>1, <2>2, <2>5, WaitingAdded
    <3> QED BY <1>4, <3>1 DEF Added, Enqueues
  <2> QED BY <2>3, <2>4, <2>5
<1> QED BY <1>2, <1>3, <1>4


-----------------------------------------------------------------------------
(* The steps.                                                              *)

\* Clients move between the lists one at a time; a client that comes to a list
\* from outside is connected.
Leaves(r, t, c) ==
  Waiting(t) = Waiting(r) \ {c} /\ Uploading(t) = Uploading(r) \ {c}

Requeues(r, t, c) ==
  /\ c \in Uploading(r)
  /\ Waiting(t) = Waiting(r) \union {c} /\ Uploading(t) = Uploading(r) \ {c}

Moved(r, t) ==
  \/ Same(t, r)
  \/ \E c \in Clients :
       \/ Leaves(r, t, c) \/ Requeues(r, t, c) \/ StartsDirectly(r, t, c)
       \/ conn[c] # "Absent" /\ (StartsAtOnce(r, t, c) \/ Enqueues(r, t, c))

\* The invariant: besides the lists, a client that asked for a file has a
\* connection, and a call of SuspendUpload is about a file.
Connections ==
  /\ ListedAreConnected
  /\ \A c \in Clients : file[c] # NoFile => conn[c] # "Absent"
  /\ suspending # NoCall => suspending.file \in Files

IInv == TypeOK /\ Sound(q) /\ Connections

\* A step of the lists, and nothing else but the loops and the files.
QueueStep == Sound(q') /\ Moved(q, q') /\ UNCHANGED <<conn, slots>>

\* The other variables keep their types.
OthersOK ==
  /\ conn \in [Clients -> ConnStates]
  /\ file \in [Clients -> Files \union {NoFile}]
  /\ slots \in MinSlots..MaxSlots
  /\ serving \in Seq(Clients)
  /\ suspended \in SUBSET Files
  /\ suspending \in [file : Files \union {NoFile}, terminate : BOOLEAN, left : Seq(Clients)]

LEMMA TypeParts == TypeOK <=> q \in QueueType /\ OthersOK
  BY DEF TypeOK, QueueType, OthersOK

LEMMA SlotsAreNat ==
  ASSUME OthersOK PROVE slots \in Nat
  BY UploadAssumption DEF OthersOK

\* Who is in a list after such a step has a connection.
LEMMA ListedStay ==
  ASSUME IInv, QueueStep
  PROVE  ListedAreConnected'
<1>1. ASSUME NEW c \in Waiting(q') \union Uploading(q') PROVE conn[c] # "Absent"
  BY <1>1 DEF IInv, Connections, QueueStep, ListedAreConnected, Moved, Same,
              Leaves, Requeues, StartsDirectly, StartsAtOnce, Enqueues, Starts
<1> QED BY <1>1 DEF QueueStep, ListedAreConnected

\* The end of a turn of Process, with the sort that may be due.
LEMMA TurnMoves ==
  ASSUME NEW R, \A r \in R : Sound(r) /\ Moved(q, r),
         IInv, serving # <<>>, Served(R)
  PROVE  QueueStep /\ OthersOK' /\ Connections'
<1>1. PICK r \in R : q' = r \/ q' \in EndOfLoop(r)
  BY DEF Served
<1>2. Sound(r) /\ Moved(q, r)
  OBVIOUS
<1>3. Sound(q') /\ Same(q', r)
  BY <1>1, <1>2, EndOfLoopSound DEF Same
<1>4. Moved(q, q')
  BY <1>2, <1>3 DEF Moved, Same, Leaves, Requeues, StartsDirectly, StartsAtOnce,
                    Enqueues, Starts
<1>5. QueueStep
  BY <1>3, <1>4 DEF QueueStep, Served
<1>6. OthersOK'
  <2>1. Tail(serving) \in Seq(Clients)
    BY TypeParts DEF IInv, OthersOK
  <2> QED BY <2>1, TypeParts DEF Served, IInv, OthersOK
<1>7. Connections'
  BY <1>5, ListedStay DEF IInv, Connections, Served
<1> QED BY <1>5, <1>6, <1>7


\* A request of a client that has its slot, and other changes of what a
\* connection remembers.
LEMMA MemoryKept ==
  ASSUME NEW r, Sound(r), NEW c \in Clients, c \in Uploading(r),
         NEW A \in SUBSET Parts, NEW B \in SUBSET Parts
  PROVE  /\ Sound([r EXCEPT !.asked[c] = A, !.sent[c] = B])
         /\ Same([r EXCEPT !.asked[c] = A, !.sent[c] = B], r)
<1> DEFINE t == [r EXCEPT !.asked[c] = A, !.sent[c] = B]
<1>1. r \in QueueType /\ \A d \in Clients : Placed(r, d)
  BY DEF Sound
<1>2. /\ t \in QueueType
      /\ t.waiting = r.waiting /\ t.uploading = r.uploading
      /\ t.state = r.state /\ t.rank = r.rank /\ t.addNext = r.addNext
      /\ t.asked = [r.asked EXCEPT ![c] = A] /\ t.sent = [r.sent EXCEPT ![c] = B]
  BY <1>1 DEF QueueType
<1> HIDE DEF t
<1>3. \A d \in Clients :
        /\ t.asked[d] \union t.sent[d] # {} => d \in Uploading(r)
        /\ t.addNext[d] => d \in LowIDs
  BY <1>1, <1>2 DEF Placed, QueueType
<1> QED BY <1>2, <1>3, SoundKept DEF t

\* The client at the head of the loop that has its slot.
LEMMA HeadOfLoop ==
  ASSUME IInv, serving # <<>>
  PROVE  /\ Head(serving) \in Clients
         /\ q.state[Head(serving)] = "Uploading" =>
              Head(serving) \in Uploading(q) /\ Head(serving) \notin Waiting(q)
<1>1. Head(serving) \in Clients
  BY DEF IInv, TypeOK
<1>2. Placed(q, Head(serving))
  BY <1>1 DEF IInv, Sound
<1> QED BY <1>1, <1>2 DEF Placed

\* AddClientToQueue of a client that keeps its slot, in a turn of Process.
LEMMA RefusedMoves ==
  ASSUME NEW m, Sound(m), Same(m, q), slots \in Nat,
         NEW c \in Clients, c \in Uploading(q), c \notin Waiting(q),
         NEW f, NEW t \in AddClientToQueue(m, c, f)
  PROVE  Sound(t) /\ Moved(q, t)
<1>1. Sound(t) /\ Added(m, t, c)
  BY AddClientSound
<1>2. Same(t, q)
  BY <1>1 DEF Added, Same, StartsDirectly, StartsAtOnce, Enqueues, Starts
<1> QED BY <1>1, <1>2 DEF Moved

\* Kick: the client leaves its slot and asks for another.
LEMMA KickedMoves ==
  ASSUME IInv, NEW c \in Clients, c \in Uploading(q), c \notin Waiting(q), NEW f,
         NEW t \in AddClientToQueue(
                     [RemoveFromUploadQueue(q, c) EXCEPT !.kicking = FALSE], c, f)
  PROVE  Sound(t) /\ Moved(q, t)
<1> DEFINE m == RemoveFromUploadQueue(q, c)
           k == [m EXCEPT !.kicking = FALSE]
<1>1. /\ Sound(m) /\ Waiting(m) = Waiting(q) \ {c}
      /\ Uploading(m) = Uploading(q) \ {c}
  BY ClientRemoved DEF IInv
<1> HIDE DEF m
<1>2. Sound(k) /\ Same(k, m)
  BY <1>1, FlagsKept
<1>3. slots \in Nat
  BY SlotsAreNat, TypeParts DEF IInv
<1>4. t \in AddClientToQueue(k, c, f)
  BY DEF m
<1> HIDE DEF k
<1>5. Sound(t) /\ Added(k, t, c)
  BY <1>2, <1>3, <1>4, AddClientSound
<1>6. Same(t, q) \/ Leaves(q, t, c) \/ Requeues(q, t, c)
  BY <1>1, <1>2, <1>5 DEF Added, Same, StartsDirectly, StartsAtOnce, Enqueues, Starts,
                          Leaves, Requeues
<1> QED BY <1>5, <1>6 DEF Moved

LEMMA RemovedMoves ==
  ASSUME IInv, NEW c \in Clients
  PROVE  Sound(RemoveFromUploadQueue(q, c)) /\ Moved(q, RemoveFromUploadQueue(q, c))
  BY ClientRemoved DEF IInv, Moved, Leaves

\* A turn of the loop of Process.
LEMMA ServeStep ==
  ASSUME IInv, Serve
  PROVE  QueueStep /\ OthersOK' /\ Connections'
<1> DEFINE c == Head(serving)
<1>1. serving # <<>> /\ c \in Clients /\ slots \in Nat
  BY HeadOfLoop, SlotsAreNat, TypeParts DEF Serve, IInv
<1>2. q.state[c] = "Uploading" => c \in Uploading(q) /\ c \notin Waiting(q)
  BY <1>1, HeadOfLoop
<1>3. Sound(q) /\ Moved(q, q) /\ q \in QueueType
  BY DEF IInv, Moved, Same, Sound
<1> HIDE DEF c
<1>4. CASE ServeClosed(c)
  BY <1>1, <1>4, RemovedMoves, TurnMoves DEF ServeClosed
<1>5. CASE ServeNothing(c)
  BY <1>1, <1>3, <1>5, TurnMoves DEF ServeNothing
<1>6. CASE Kick(c)
  BY <1>1, <1>2, <1>6, KickedMoves, TurnMoves DEF Kick
<1>7. ASSUME NEW b \in Parts, SendRange(c, b) PROVE QueueStep /\ OthersOK' /\ Connections'
  <2> DEFINE A == q.asked[c] \ {b}
             B == q.sent[c] \union {b}
             t == [q EXCEPT !.asked[c] = A, !.sent[c] = B]
  <2>1. c \in Uploading(q) /\ A \in SUBSET Parts /\ B \in SUBSET Parts
    BY <1>1, <1>2, <1>3, <1>7 DEF SendRange, CanServe, QueueType
  <2>2. Sound(t) /\ Same(t, q)
    BY <1>1, <1>3, <2>1, MemoryKept
  <2>3. Served({t})
    BY <1>7 DEF SendRange
  <2> HIDE DEF t
  <2>4. Moved(q, t)
    BY <2>2 DEF Moved
  <2> QED BY <1>1, <2>2, <2>3, <2>4, TurnMoves
<1>8. ASSUME NEW b \in Parts, RefuseRange(c, b) PROVE QueueStep /\ OthersOK' /\ Connections'
  <2> DEFINE m == [q EXCEPT !.asked[c] = {}, !.sent[c] = {}]
  <2>1. c \in Uploading(q) /\ c \notin Waiting(q)
    BY <1>2, <1>8 DEF RefuseRange, CanServe
  <2>2. Sound(m) /\ Same(m, q)
    BY <1>1, <1>3, <2>1, MemoryKept
  <2>3. Served(AddClientToQueue(m, c, file[c]))
    BY <1>8 DEF RefuseRange
  <2> HIDE DEF m
  <2>4. \A t \in AddClientToQueue(m, c, file[c]) : Sound(t) /\ Moved(q, t)
    BY <1>1, <2>1, <2>2, RefusedMoves
  <2> QED BY <1>1, <2>3, <2>4, TurnMoves
<1>9. ASSUME NEW b \in Parts, FailRange(c, b) PROVE QueueStep /\ OthersOK' /\ Connections'
  BY <1>1, <1>9, RemovedMoves, TurnMoves DEF FailRange
<1> QED BY <1>4, <1>5, <1>6, <1>7, <1>8, <1>9 DEF Serve, ServeRange, c


\* Process, up to its loop.
LEMMA ProcessStep ==
  ASSUME IInv, Process
  PROVE  QueueStep /\ OthersOK' /\ Connections'
<1> DEFINE r == NextSlot(q)
<1>1. Sound(q) /\ slots \in Nat
  BY SlotsAreNat, TypeParts DEF IInv
<1>2. /\ Sound(r)
      /\ Same(r, q) \/ (Count(q) < slots /\ \E c \in Clients : Starts(q, r, c))
  BY <1>1, NextSlotSound
<1>3. /\ serving' = r.uploading
      /\ q' = r \/ q' \in EndOfLoop(r)
      /\ UNCHANGED <<conn, file, slots, suspended, suspending>>
  BY DEF Process
<1> HIDE DEF r
<1>4. Sound(q') /\ Same(q', r)
  BY <1>2, <1>3, EndOfLoopSound DEF Same
<1>5. Moved(q, q')
  BY <1>2, <1>4 DEF Moved, Same, StartsDirectly, Starts
<1>6. QueueStep
  BY <1>3, <1>4, <1>5 DEF QueueStep
<1>7. OthersOK'
  <2>1. r.uploading \in Seq(Clients)
    BY <1>2 DEF Sound, QueueType
  <2> QED BY <1>3, <2>1, TypeParts DEF IInv, OthersOK
<1>8. Connections'
  BY <1>3, <1>6, ListedStay DEF IInv, Connections
<1> QED BY <1>6, <1>7, <1>8

\* A request of a client for a file.
LEMMA AttachStep ==
  ASSUME IInv, NEW c \in Clients, NEW f \in Files, Attach(c, f), QueueStep
  PROVE  OthersOK' /\ Connections'
<1>1. /\ conn[c] # "Absent" /\ file' = [file EXCEPT ![c] = f]
      /\ UNCHANGED <<conn, slots, serving, suspended, suspending>>
  BY DEF Attach, Open
<1>2. OthersOK'
  BY <1>1, TypeParts DEF IInv, OthersOK
<1>3. Connections'
  BY <1>1, ListedStay, TypeParts DEF IInv, Connections, OthersOK
<1> QED BY <1>2, <1>3

LEMMA RequestsStep ==
  ASSUME IInv, NEW c \in Clients, NEW f \in Files,
         \/ HandleClientFileRequest(c, f) \/ HandleClientStartUpload(c, f)
         \/ \E b \in Parts : HandleClientRequestParts(c, f, b)
  PROVE  QueueStep /\ OthersOK' /\ Connections'
<1>1. Sound(q) /\ q \in QueueType /\ slots \in Nat
  BY SlotsAreNat, TypeParts DEF IInv
<1>2. Attach(c, f) /\ UNCHANGED <<conn, slots>> /\ conn[c] # "Absent"
  BY DEF HandleClientFileRequest, HandleClientStartUpload, HandleClientRequestParts,
         Attach, Open
<1>3. Sound(q') /\ Moved(q, q')
  <2>1. CASE HandleClientFileRequest(c, f)
    BY <1>1, <2>1 DEF HandleClientFileRequest, Moved, Same
  <2>2. CASE HandleClientStartUpload(c, f)
    <3>1. Sound(q') /\ Added(q, q', c)
      BY <1>1, <2>2, AddClientSound DEF HandleClientStartUpload
    <3> QED BY <1>2, <3>1 DEF Added, Moved
  <2>3. ASSUME NEW b \in Parts, HandleClientRequestParts(c, f, b)
        PROVE  Sound(q') /\ Moved(q, q')
    <3> DEFINE A == q.asked[c] \union {b}
               B == q.sent[c]
               t == [q EXCEPT !.asked[c] = A, !.sent[c] = B]
    <3>1. c \in Uploading(q) /\ A \in SUBSET Parts /\ B \in SUBSET Parts
      BY <1>1, <2>3 DEF HandleClientRequestParts, QueueType, Sound, Placed
    <3>2. Sound(t) /\ Same(t, q)
      BY <1>1, <3>1, MemoryKept
    <3>3. q' = t
      <4>1. q' = [q EXCEPT !.asked[c] = A]
        BY <2>3 DEF HandleClientRequestParts
      <4>2. [q.sent EXCEPT ![c] = B] = q.sent
        BY <1>1 DEF QueueType
      <4>3. t = [[q EXCEPT !.asked[c] = A] EXCEPT !.sent = [q.sent EXCEPT ![c] = B]]
        BY <1>1 DEF QueueType
      <4> HIDE DEF A, B, t
      <4> QED BY <1>1, <4>1, <4>2, <4>3 DEF QueueType
    <3> QED BY <3>2, <3>3 DEF Moved
  <2> QED BY <2>1, <2>2, <2>3
<1>4. QueueStep
  BY <1>2, <1>3 DEF QueueStep
<1> QED BY <1>2, <1>4, AttachStep

\* A connection is accepted: nothing is left in it of an earlier one.
LEMMA AcceptStep ==
  ASSUME IInv, NEW c \in Clients, Accept(c)
  PROVE  Sound(q') /\ Same(q', q) /\ OthersOK' /\ Connections'
<1>1. Sound(q) /\ q \in QueueType /\ (\A d \in Clients : Placed(q, d)) /\ OthersOK
  BY TypeParts DEF IInv, Sound
<1>2. /\ q' = [q EXCEPT !.addNext[c] = FALSE]
      /\ conn' = [conn EXCEPT ![c] = "Open"]
      /\ UNCHANGED <<file, slots, serving, suspended, suspending>>
  BY DEF Accept
<1>3. Sound(q') /\ Same(q', q)
  <2>1. /\ q' \in QueueType
        /\ q'.waiting = q.waiting /\ q'.uploading = q.uploading
        /\ q'.state = q.state /\ q'.rank = q.rank
        /\ q'.asked = q.asked /\ q'.sent = q.sent
        /\ q'.addNext = [q.addNext EXCEPT ![c] = FALSE]
    BY <1>1, <1>2 DEF QueueType
  <2>2. \A d \in Clients :
          /\ q'.asked[d] \union q'.sent[d] # {} => d \in Uploading(q)
          /\ q'.addNext[d] => d \in LowIDs
    BY <1>1, <2>1 DEF Placed, QueueType
  <2> QED BY <1>1, <2>1, <2>2, SoundKept
<1>4. OthersOK'
  BY <1>1, <1>2 DEF OthersOK, ConnStates
<1>5. Connections'
  BY <1>1, <1>2, <1>3 DEF IInv, Connections, ListedAreConnected, Same, OthersOK
<1> QED BY <1>3, <1>4, <1>5

\* The end of a connection: its client is in no list.
LEMMA DisconnectStep ==
  ASSUME IInv, NEW c \in Clients, OnDisconnect(c)
  PROVE  Sound(q') /\ Leaves(q, q', c) /\ OthersOK' /\ Connections'
<1>1. Sound(q) /\ OthersOK
  BY TypeParts DEF IInv
<1>2. /\ q' = RemoveFromUploadQueue(q, c)
      /\ conn' = [conn EXCEPT ![c] = "Absent"]
      /\ file' = [file EXCEPT ![c] = NoFile]
      /\ suspending' = [suspending EXCEPT !.left = Without(@, c)]
      /\ UNCHANGED <<slots, serving, suspended>>
  BY DEF OnDisconnect
<1>3. Sound(q') /\ Leaves(q, q', c)
  BY <1>1, <1>2, ClientRemoved DEF Leaves
<1>4. Without(suspending.left, c) \in Seq(Clients)
  BY <1>1, WithoutInList DEF OthersOK
<1>5. OthersOK'
  BY <1>1, <1>2, <1>4 DEF OthersOK, ConnStates
<1>6. suspending' # NoCall => suspending'.file \in Files
  <2>1. suspending = NoCall => Without(suspending.left, c) = <<>>
    BY DEF NoCall, Without, ToSet
  <2>2. suspending'.file = suspending.file
    BY <1>1, <1>2 DEF OthersOK
  <2>3. suspending = NoCall => suspending' = NoCall
    <3>1. suspending' = [suspending EXCEPT !.left = Without(suspending.left, c)]
      BY <1>2
    <3>2. suspending = NoCall => suspending' = [NoCall EXCEPT !.left = <<>>]
      BY <2>1, <3>1
    <3> QED BY <3>2 DEF NoCall
  <2> QED BY <2>2, <2>3 DEF IInv, Connections
<1>7. Connections'
  BY <1>1, <1>2, <1>3, <1>6 DEF IInv, Connections, ListedAreConnected, Leaves, OthersOK
<1> QED BY <1>3, <1>5, <1>7


\* The time of a session ends; a rate changes; the API suspends and resumes;
\* connections close.
LEMMA OtherSteps ==
  ASSUME IInv,
         \/ Second \/ RateChanges \/ (\E c \in Clients : SessionIsOver(c) \/ Close(c))
         \/ (\E f \in Files : ResumeUpload(f))
         \/ (\E f \in Files, terminate \in BOOLEAN : SuspendUpload(f, terminate))
  PROVE  Sound(q') /\ Same(q', q) /\ OthersOK' /\ Connections'
<1>1. Sound(q) /\ q \in QueueType /\ (\A d \in Clients : Placed(q, d)) /\ OthersOK
  BY TypeParts DEF IInv, Sound
<1>2. Sound(q') /\ Same(q', q)
  <2>1. CASE Second
    BY <1>1, <2>1, FlagsKept DEF Second
  <2>2. ASSUME NEW c \in Clients, SessionIsOver(c) PROVE Sound(q') /\ Same(q', q)
    <3>1. /\ q' \in QueueType
          /\ q'.waiting = q.waiting /\ q'.uploading = q.uploading
          /\ q'.state = q.state /\ q'.rank = q.rank
          /\ q'.asked = q.asked /\ q'.sent = q.sent /\ q'.addNext = q.addNext
      BY <1>1, <2>2 DEF SessionIsOver, QueueType
    <3> QED BY <1>1, <3>1, SoundKept DEF Placed
  <2>3. CASE UNCHANGED q
    BY <1>1, <2>3 DEF Same
  <2> QED BY <2>1, <2>2, <2>3 DEF RateChanges, Close, ResumeUpload, SuspendUpload
<1>3. OthersOK' /\ Connections'
  <2>1. CASE UNCHANGED <<conn, file, slots, serving, suspended, suspending>>
    BY <1>1, <1>2, <2>1 DEF OthersOK, IInv, Connections, ListedAreConnected, Same
  <2>2. CASE RateChanges
    BY <1>1, <1>2, <2>2
       DEF RateChanges, OthersOK, IInv, Connections, ListedAreConnected, Same
  <2>3. ASSUME NEW c \in Clients, Close(c) PROVE OthersOK' /\ Connections'
    BY <1>1, <1>2, <2>3
       DEF Close, Open, OthersOK, ConnStates, IInv, Connections, ListedAreConnected, Same
  <2>4. ASSUME NEW f \in Files, ResumeUpload(f) PROVE OthersOK' /\ Connections'
    BY <1>1, <1>2, <2>4
       DEF ResumeUpload, OthersOK, IInv, Connections, ListedAreConnected, Same
  <2>5. ASSUME NEW f \in Files, NEW terminate \in BOOLEAN, SuspendUpload(f, terminate)
        PROVE  OthersOK' /\ Connections'
    <3>1. suspended' \in SUBSET Files
      BY <1>1, <2>5 DEF SuspendUpload, OthersOK
    <3>2. suspending' = NoCall
            \/ suspending' = [file |-> f, terminate |-> terminate, left |-> q.uploading]
      BY <2>5 DEF SuspendUpload
    <3>3. suspending' \in [file : Files \union {NoFile}, terminate : BOOLEAN,
                           left : Seq(Clients)]
      <4>1. q.uploading \in Seq(Clients) /\ terminate \in BOOLEAN
        BY <1>1 DEF QueueType
      <4>2. [file |-> f, terminate |-> terminate, left |-> q.uploading]
              \in [file : Files \union {NoFile}, terminate : BOOLEAN, left : Seq(Clients)]
        BY <4>1, Zenon
      <4>3. NoCall \in [file : Files \union {NoFile}, terminate : BOOLEAN,
                        left : Seq(Clients)]
        BY DEF NoCall
      <4> QED BY <3>2, <4>2, <4>3
    <3>4. suspending' # NoCall => suspending'.file \in Files
      BY <3>2
    <3> QED BY <1>1, <1>2, <2>5, <3>1, <3>3, <3>4
            DEF SuspendUpload, OthersOK, IInv, Connections, ListedAreConnected, Same
  <2> QED BY <2>1, <2>2, <2>3, <2>4, <2>5 DEF Second, SessionIsOver
<1> QED BY <1>2, <1>3

\* An iteration of the loop of SuspendUpload.
LEMMA SuspendStep ==
  ASSUME IInv, SuspendNext
  PROVE  QueueStep /\ OthersOK' /\ Connections'
<1> DEFINE c == Head(suspending.left)
           r == RemoveFromUploadQueue(q, c)
<1>1. Sound(q) /\ OthersOK
  BY TypeParts DEF IInv
<1>2. /\ suspending # NoCall /\ suspending.file \in Files
      /\ UNCHANGED <<conn, file, slots, serving, suspended>>
  BY DEF SuspendNext, IInv, Connections
<1>3. Sound(q') /\ Moved(q, q')
  <2>1. CASE UNCHANGED q
    BY <1>1, <2>1 DEF Moved, Same
  <2>2. CASE suspending.left # <<>> /\ file[c] = suspending.file
    <3>1. c \in Clients /\ conn[c] # "Absent"
      <4>1. c \in Clients
        BY <1>1, <2>2 DEF OthersOK
      <4>2. file[c] # NoFile
        BY <1>2, <2>2, UploadAssumption
      <4> QED BY <4>1, <4>2 DEF IInv, Connections
    <3>2. Sound(r) /\ Leaves(q, r, c)
      BY <1>1, <3>1, ClientRemoved DEF Leaves
    <3>3. q' = r \/ q' \in Sorted([r EXCEPT !.state[c] = "OnQueue"], Append(r.waiting, c))
      BY <2>2 DEF SuspendNext
    <3> HIDE DEF c, r
    <3>4. CASE q' = r
      BY <3>1, <3>2, <3>4 DEF Moved
    <3>5. CASE q' \in Sorted([r EXCEPT !.state[c] = "OnQueue"], Append(r.waiting, c))
      <4>1. Aside(r, c)
        BY <3>1, <3>2 DEF Leaves, Sound, Aside, Placed
      <4>2. /\ Sound(q') /\ Waiting(q') = Waiting(r) \union {c}
            /\ Uploading(q') = Uploading(r)
        BY <3>1, <3>5, <4>1, WaitingAdded
      <4>3. ~(c \in Waiting(q) /\ c \in Uploading(q))
        BY <1>1, <3>1 DEF Sound, Placed
      <4>4. Same(q', q) \/ Requeues(q, q', c) \/ Enqueues(q, q', c)
        BY <3>2, <4>2, <4>3 DEF Leaves, Same, Requeues, Enqueues
      <4> QED BY <3>1, <4>2, <4>4 DEF Moved
    <3> QED BY <3>3, <3>4, <3>5
  <2> QED BY <2>1, <2>2 DEF SuspendNext
<1>4. QueueStep
  BY <1>2, <1>3 DEF QueueStep
<1>5. /\ suspending' \in [file : Files \union {NoFile}, terminate : BOOLEAN, left : Seq(Clients)]
      /\ suspending' # NoCall => suspending'.file \in Files
  <2>1. CASE Len(suspending.left) <= 1
    <3>1. suspending' = NoCall
      BY <2>1 DEF SuspendNext
    <3> QED BY <3>1 DEF NoCall
  <2>2. CASE ~(Len(suspending.left) <= 1)
    <3>1. Tail(suspending.left) \in Seq(Clients)
      BY <1>1, <2>2 DEF OthersOK
    <3>2. suspending' = [suspending EXCEPT !.left = Tail(suspending.left)]
      BY <2>2 DEF SuspendNext
    <3> QED BY <1>1, <1>2, <3>1, <3>2 DEF OthersOK
  <2> QED BY <2>1, <2>2
<1>6. OthersOK' /\ Connections'
  BY <1>1, <1>2, <1>4, <1>5, ListedStay DEF OthersOK, IInv, Connections
<1> QED BY <1>4, <1>6


-----------------------------------------------------------------------------
(* The theorems.                                                           *)

LEMMA InitSound == Init => IInv
<1> SUFFICES ASSUME Init PROVE IInv
  OBVIOUS
<1>1. q = EmptyQueue /\ Waiting(q) = {} /\ Uploading(q) = {}
  BY DEF Init, EmptyQueue, Waiting, Uploading, ToSet
<1>2. Sound(q)
  <2>1. q \in QueueType
    <3>1. EmptyQueue \in QueueType
      BY DEF EmptyQueue, QueueType, UploadStates
    <3> QED BY <1>1, <3>1
  <2>2. /\ q.waiting = <<>> /\ q.uploading = <<>>
        /\ \A c \in Clients : /\ q.state[c] = "None" /\ q.rank[c] = 0
                              /\ q.asked[c] = {} /\ q.sent[c] = {} /\ q.addNext[c] = FALSE
    BY <1>1 DEF EmptyQueue
  <2>3. Lists(q)
    BY <2>2 DEF Lists, Distinct
  <2> QED BY <1>1, <2>1, <2>2, <2>3 DEF Sound, Placed
<1>3. OthersOK
  BY UploadAssumption DEF Init, OthersOK, ConnStates, NoCall
<1>4. Connections
  BY <1>1 DEF Init, Connections, ListedAreConnected
<1> QED BY <1>2, <1>3, <1>4, TypeParts DEF IInv, Sound

\* What a step does to the lists.
StepMoves == Moved(q, q') /\ (UNCHANGED slots \/ (Same(q', q) /\ slots' \in Nat))

LEMMA NextSound == IInv /\ [Next]_vars => IInv' /\ StepMoves
<1> SUFFICES ASSUME IInv, [Next]_vars
             PROVE  Sound(q') /\ OthersOK' /\ Connections' /\ StepMoves
  BY DEF IInv, Sound, TypeOK, QueueType, OthersOK
<1> USE DEF StepMoves
<1>1. ASSUME QueueStep /\ OthersOK' /\ Connections'
      PROVE  Sound(q') /\ OthersOK' /\ Connections' /\ StepMoves
  BY <1>1 DEF QueueStep
<1>2. ASSUME Sound(q') /\ Same(q', q) /\ OthersOK' /\ Connections'
      PROVE  Sound(q') /\ OthersOK' /\ Connections' /\ StepMoves
  BY <1>2, UploadAssumption DEF Moved, OthersOK
<1>3. ASSUME NEW c \in Clients, Accept(c)
      PROVE  Sound(q') /\ OthersOK' /\ Connections' /\ StepMoves
  BY <1>2, <1>3, AcceptStep
<1>4. ASSUME NEW c \in Clients, HandleClientCancelTransfer(c)
      PROVE  Sound(q') /\ OthersOK' /\ Connections' /\ StepMoves
  <2>1. QueueStep /\ UNCHANGED <<conn, file, slots, serving, suspended, suspending>>
    BY <1>4, RemovedMoves DEF HandleClientCancelTransfer, QueueStep
  <2>2. OthersOK' /\ Connections'
    BY <2>1, ListedStay, TypeParts DEF IInv, OthersOK, Connections
  <2> QED BY <1>1, <2>1, <2>2
<1>5. ASSUME NEW c \in Clients, OnDisconnect(c)
      PROVE  Sound(q') /\ OthersOK' /\ Connections' /\ StepMoves
  BY <1>5, DisconnectStep DEF Moved, OnDisconnect
<1>6. ASSUME NEW c \in Clients, NEW f \in Files,
             \/ HandleClientFileRequest(c, f) \/ HandleClientStartUpload(c, f)
             \/ \E b \in Parts : HandleClientRequestParts(c, f, b)
      PROVE  Sound(q') /\ OthersOK' /\ Connections' /\ StepMoves
  BY <1>1, <1>6, RequestsStep
<1>7. CASE Process
  BY <1>1, <1>7, ProcessStep
<1>8. CASE Serve
  BY <1>1, <1>8, ServeStep
<1>9. CASE Time \/ (\E c \in Clients : Close(c)) \/ (\E f \in Files : ResumeUpload(f))
           \/ (\E f \in Files, terminate \in BOOLEAN : SuspendUpload(f, terminate))
  BY <1>2, <1>9, OtherSteps DEF Time
<1>10. CASE SuspendNext
  BY <1>1, <1>10, SuspendStep
<1>11. CASE UNCHANGED vars
  <2>1. Sound(q') /\ Same(q', q)
    BY <1>11 DEF vars, IInv, Same
  <2>2. OthersOK' /\ Connections'
    BY <1>11, TypeParts
       DEF vars, IInv, OthersOK, Connections, ListedAreConnected
  <2> QED BY <1>2, <2>1, <2>2
<1> QED BY <1>3, <1>4, <1>5, <1>6, <1>7, <1>8, <1>9, <1>10, <1>11 DEF Next, Tick, API

\* The variables of the upload queue keep their types, among them the number of
\* slots within its bounds (maxSlots, upload_queue.go:258).
THEOREM UploadTypeCorrect == Spec => []TypeOK
<1>1. IInv => TypeOK
  BY DEF IInv
<1> QED BY <1>1, InitSound, NextSound, PTL DEF Spec

\* The lists and what the connections say of themselves agree after every step
\* of the tick, of time and of the API, also in the middle of Process
\* (upload_queue.go:96, 111; peer_connection.go:216).
THEOREM QueueAgreement == Spec => []QueueAgrees
<1>1. IInv => QueueAgrees
  <2> SUFFICES ASSUME IInv PROVE QueueAgrees
    OBVIOUS
  <2>1. Sound(q) /\ ListedAreConnected
    BY DEF IInv, Connections
  <2>2. Cardinality(Uploading(q)) = Len(q.uploading)
    BY <2>1, CountIsCardinality DEF Count
  <2>3. ListsMatchStates
    <3>1. DOMAIN q.waiting = 1..Len(q.waiting)
      BY <2>1 DEF Sound, QueueType
    <3> QED BY <2>1, <2>2, <3>1 DEF ListsMatchStates, Sound, Lists, Placed
  <2>4. RequestsEndWithSlot
    BY <2>1 DEF RequestsEndWithSlot, Sound, Placed
  <2> QED BY <2>1, <2>3, <2>4 DEF QueueAgrees
<1> QED BY <1>1, InitSound, NextSound, PTL DEF Spec

\* A step of the lists is a step of the pool of slots, or none.
LEMMA PoolStep ==
  ASSUME IInv, StepMoves
  PROVE  [PoolOfSlots!Next]_(PoolOfSlots!vars)
<1> USE DEF PoolOfSlots!Next, PoolOfSlots!vars
<1>1. Cardinality(Uploading(q)) = Count(q)
  BY CountIsCardinality DEF IInv
<1>4. PoolOfSlots!Cardinality(Uploading(q)) = Cardinality(Uploading(q))
  BY DEF PoolOfSlots!Cardinality, Cardinality
<1>2. ASSUME Same(q', q), slots' \in Nat \/ UNCHANGED slots
      PROVE  [PoolOfSlots!Next]_(PoolOfSlots!vars)
  BY <1>2 DEF Same, PoolOfSlots!Resize
<1>3. ASSUME NEW c \in Clients, UNCHANGED slots,
             \/ Leaves(q, q', c) \/ Requeues(q, q', c) \/ StartsDirectly(q, q', c)
             \/ StartsAtOnce(q, q', c) \/ Enqueues(q, q', c)
      PROVE  PoolOfSlots!Next
  <2>1. CASE Leaves(q, q', c)
    BY <1>3, <2>1 DEF Leaves, PoolOfSlots!Leave
  <2>2. CASE Requeues(q, q', c)
    BY <1>3, <2>2 DEF Requeues, PoolOfSlots!Requeue
  <2>3. CASE StartsDirectly(q, q', c)
    <3>1. PoolOfSlots!Start(c)
      BY <1>1, <1>4, <2>3 DEF StartsDirectly, Starts, PoolOfSlots!Start, PoolOfSlots!Free
    <3> QED BY <1>3, <3>1
  <2>4. CASE StartsAtOnce(q, q', c)
    <3>1. PoolOfSlots!StartAtOnce(c)
      BY <1>1, <1>4, <2>4 DEF StartsAtOnce, PoolOfSlots!StartAtOnce, PoolOfSlots!Free
    <3> QED BY <1>3, <3>1
  <2>5. CASE Enqueues(q, q', c)
    BY <1>3, <2>5 DEF Enqueues, PoolOfSlots!Enqueue
  <2> QED BY <1>3, <2>1, <2>2, <2>3, <2>4, <2>5
<1> QED BY <1>2, <1>3 DEF StepMoves, Moved

\* The queue is a pool of slots: slots are given within the limit of the moment
\* and clients move between the lists one at a time (upload_queue.go:46, 66, 89).
THEOREM QueueIsPool == Spec => Pool
<1>1. Init => PoolOfSlots!Init
  BY UploadAssumption DEF Init, EmptyQueue, PoolOfSlots!Init, Waiting, Uploading, ToSet
<1>2. IInv /\ [Next]_vars => [PoolOfSlots!Next]_(PoolOfSlots!vars)
  BY NextSound, PoolStep
<1> QED BY <1>1, <1>2, InitSound, NextSound, PTL DEF Spec, Pool, PoolOfSlots!Spec

-----------------------------------------------------------------------------
(* The packets between two clients.                                        *)

-----------------------------------------------------------------------------
(* What is in a pipe, as one sequence.                                     *)

All(pipe) == pipe.wire \o pipe.out

DataOf(b) == {Part(b), DamagedPart(b)}

\* How many packets of b are in s
Carried(s, b) == Cardinality({i \in DOMAIN s : s[i] \in DataOf(b)})

\* The number is one.
LEMMA CarriedIsNat ==
  ASSUME NEW X, NEW s \in Seq(X), NEW b
  PROVE  /\ Carried(s, b) \in Nat
         /\ IsFiniteSet({i \in DOMAIN s : s[i] \in DataOf(b)})
<1>1. IsFiniteSet(DOMAIN s)
  BY FS_Interval
<1>2. {i \in DOMAIN s : s[i] \in DataOf(b)} \subseteq DOMAIN s
  OBVIOUS
<1>3. IsFiniteSet({i \in DOMAIN s : s[i] \in DataOf(b)})
  BY <1>1, <1>2, FS_Subset
<1> QED BY <1>3, FS_CardinalityType DEF Carried

\* Behind one another
LEMMA CarriedByBoth ==
  ASSUME NEW X, NEW s \in Seq(X), NEW t \in Seq(X), NEW b
  PROVE  Carried(s \o t, b) = Carried(s, b) + Carried(t, b)
<1> DEFINE n == Len(s)
           S == {i \in DOMAIN s : s[i] \in DataOf(b)}
           T == {i \in DOMAIN t : t[i] \in DataOf(b)}
           B == {i \in n + 1..n + Len(t) : (s \o t)[i] \in DataOf(b)}
           f == [i \in T |-> i + n]
<1>1. IsFiniteSet(S) /\ IsFiniteSet(T) /\ Cardinality(S) \in Nat /\ Cardinality(T) \in Nat
  BY CarriedIsNat DEF Carried
<1>2. /\ n \in Nat /\ Len(t) \in Nat /\ DOMAIN s = 1..n /\ DOMAIN t = 1..Len(t)
      /\ DOMAIN (s \o t) = 1..n + Len(t)
      /\ \A i \in 1..n : (s \o t)[i] = s[i]
      /\ \A i \in n + 1..n + Len(t) : (s \o t)[i] = t[i - n]
  OBVIOUS
<1>3. f \in Bijection(T, B)
  <2>1. \A i \in T : f[i] \in B
    BY <1>2
  <2>2. \A i, j \in T : f[i] = f[j] => i = j
    BY <1>2
  <2>3. \A k \in B : k - n \in T /\ f[k - n] = k
    BY <1>2
  <2> HIDE DEF f, T, B
  <2>4. f \in [T -> B]
    BY <2>1 DEF f
  <2>5. f \in Surjection(T, B)
    BY <2>3, <2>4, Zenon DEF Surjection
  <2>6. f \in Injection(T, B)
    BY <2>2, <2>4, Zenon DEF Injection, IsInjective
  <2> QED BY <2>5, <2>6 DEF Bijection
<1> HIDE DEF f
<1>4. IsFiniteSet(B) /\ Cardinality(B) = Cardinality(T)
  BY <1>1, <1>3, FS_Bijection, Zenon DEF ExistsBijection
<1>5. /\ {i \in DOMAIN (s \o t) : (s \o t)[i] \in DataOf(b)} = S \cup B
      /\ S \cap B = {}
  BY <1>2
<1>6. Cardinality(S \cup B) = Cardinality(S) + Cardinality(B)
  <2>1. Cardinality(S \cap B) = 0
    BY <1>5, FS_EmptySet
  <2>2. IsFiniteSet(S) /\ IsFiniteSet(B) /\ Cardinality(S) \in Nat /\ Cardinality(B) \in Nat
    BY <1>1, <1>4
  <2> HIDE DEF S, B, T
  <2>3. Cardinality(S \cup B) = Cardinality(S) + Cardinality(B) - Cardinality(S \cap B)
    BY <2>2, FS_Union
  <2> QED BY <2>1, <2>2, <2>3
<1> QED BY <1>4, <1>5, <1>6 DEF Carried

\* Nothing, and one packet
LEMMA CarriedByOne ==
  ASSUME NEW X, NEW k \in X, NEW b
  PROVE  /\ Carried(<<>>, b) = 0
         /\ k \in DataOf(b) => Carried(<<k>>, b) = 1
         /\ k \notin DataOf(b) => Carried(<<k>>, b) = 0
<1>1. {i \in DOMAIN <<>> : (<<>>)[i] \in DataOf(b)} = {}
  OBVIOUS
<1>2. ASSUME k \in DataOf(b) PROVE {i \in DOMAIN <<k>> : <<k>>[i] \in DataOf(b)} = {1}
  BY <1>2
<1>3. ASSUME k \notin DataOf(b) PROVE {i \in DOMAIN <<k>> : <<k>>[i] \in DataOf(b)} = {}
  BY <1>3
<1> QED BY <1>1, <1>2, <1>3, FS_EmptySet, FS_Singleton DEF Carried

\* The first packet and the others
LEMMA CarriedByRest ==
  ASSUME NEW X, NEW s \in Seq(X), s # <<>>, NEW b
  PROVE  /\ Head(s) \in DataOf(b) => Carried(s, b) = Carried(Tail(s), b) + 1
         /\ Head(s) \notin DataOf(b) => Carried(s, b) = Carried(Tail(s), b)
<1>1. /\ Head(s) \in X /\ Tail(s) \in Seq(X) /\ <<Head(s)>> \in Seq(X)
      /\ s = <<Head(s)>> \o Tail(s)
  OBVIOUS
<1> DEFINE h == Head(s)
           t == Tail(s)
<1>2. s = <<h>> \o t /\ h \in X /\ t \in Seq(X) /\ <<h>> \in Seq(X)
  BY <1>1
<1> HIDE DEF h, t
<1>3. Carried(s, b) = Carried(<<h>>, b) + Carried(t, b) /\ Carried(t, b) \in Nat
  BY <1>2, CarriedByBoth, CarriedIsNat
<1>4. /\ h \in DataOf(b) => Carried(<<h>>, b) = 1
      /\ h \notin DataOf(b) => Carried(<<h>>, b) = 0
  BY <1>2, CarriedByOne
<1> QED BY <1>3, <1>4 DEF h, t

\* The packets of one range
LEMMA CarriedByRange ==
  ASSUME NEW b, NEW e
  PROVE  LET s == [i \in 1..PacketsPerRange |-> Part(e)]
         IN Carried(s, b) = IF b = e THEN PacketsPerRange ELSE 0
<1> DEFINE s == [i \in 1..PacketsPerRange |-> Part(e)]
<1>1. DOMAIN s = 1..PacketsPerRange /\ \A i \in DOMAIN s : s[i] = Part(e)
  OBVIOUS
<1> HIDE DEF s
<1>2. Part(e) \in DataOf(b) <=> b = e
  <2>1. Part(e) = Part(b) <=> b = e
    BY DEF Part
  <2>2. Part(e) # DamagedPart(b)
    BY DEF Part, DamagedPart
  <2> QED BY <2>1, <2>2 DEF DataOf
<1>3. PacketsPerRange \in Nat
  BY ExchangeAssumption
<1>4. CASE b = e
  <2>1. {i \in DOMAIN s : s[i] \in DataOf(b)} = 1..PacketsPerRange
    BY <1>1, <1>2, <1>4
  <2>2. Cardinality(1..PacketsPerRange) = PacketsPerRange
    BY <1>3, FS_Interval
  <2> QED BY <1>4, <2>1, <2>2 DEF Carried, s
<1>5. CASE b # e
  <2>1. {i \in DOMAIN s : s[i] \in DataOf(b)} = {}
    BY <1>1, <1>2, <1>5
  <2> QED BY <1>5, <2>1, FS_EmptySet DEF Carried, s
<1> QED BY <1>4, <1>5 DEF s

-----------------------------------------------------------------------------
(* Packets and what they are about.                                        *)

AskKinds == {"Hello", "FileRequest", "FileStatusRequest", "HashSetRequest", "StartUpload"}
AnswerKinds == {"HelloAnswer", "FileAnswer", "FileStatusAnswer", "HashSetAnswer"}
RefusalKinds == {"OutOfParts", "QueueRanking"}
DataKinds == {"SendingPart", "DamagedPart"}

UpPackets ==
  [kind : AskKinds, ranges : {{}}] \cup [kind : {"RequestParts"}, ranges : SUBSET Parts]
DownPackets ==
  [kind : AnswerKinds \cup RefusalKinds \cup {"AcceptUpload", "Garbage"}, ranges : {{}}]
  \cup [kind : DataKinds, ranges : {{b} : b \in Parts}]

PeerRec ==
  [on : PeerStates, want : SUBSET Parts, pending : SUBSET Parts, got : [Parts -> Nat],
   bad : SUBSET Parts, failed : SUBSET Parts, torn : BOOLEAN]
UpPipe == [out : Seq(UpPackets), wire : Seq(UpPackets)]
DownPipe == [out : Seq(DownPackets), wire : Seq(DownPackets)]

\* What the session has of a client
SideRec ==
  {l \in [asked : SUBSET Parts, sent : SUBSET Parts, slot : BOOLEAN, waits : BOOLEAN] :
     (l.asked \cup l.sent # {} => l.slot) /\ ~(l.slot /\ l.waits)}
Side(r, c) ==
  [asked |-> r.asked[c], sent |-> r.sent[c], slot |-> c \in Uploading(r),
   waits |-> c \in Waiting(r)]

Has(s, K) == \E i \in DOMAIN s : s[i].kind \in K

\* A client that still greets, or asks for a slot
Greeting(U, D) == Has(U, AskKinds) \/ Has(D, AnswerKinds)

\* What has come of b, and what is on its way
Due(p, D, b) == p.got[b] + Carried(D, b)

Explained(p, U, D, l, b) ==
  \/ U # <<>> \/ b \in l.asked \/ Due(p, D, b) = PacketsPerRange
  \/ Has(D, RefusalKinds) \/ ~l.slot \/ b \in p.failed \cap l.sent

\* The conversation: one packet at a time until there is a slot, then one
\* request at a time, for the blocks that the client waits for.
Orderly(p, U, D, l, left) ==
  /\ ~Has(D, {"Garbage"})
  /\ p.pending \subseteq p.want
  /\ Len(U) <= 1
  /\ Greeting(U, D) =>
       Len(U) + Len(D) = 1 /\ p.pending = {} /\ ~l.slot /\ ~l.waits /\ ~left
  /\ U # <<>> /\ Head(U).kind = "RequestParts" =>
       Head(U).ranges = p.pending /\ p.pending # {} /\ l.asked = {}
  /\ l.waits => Has(D, RefusalKinds)

\* A block is requested, or asked for in the session, or on its way. What was
\* sent and is wanted still is on its way, unless its hash failed.
Staged(p, U, D, l, b) ==
  /\ Due(p, D, b) <= PacketsPerRange
  /\ Due(p, D, b) > 0 => b \in p.pending /\ U = <<>>
  /\ b \in l.asked => b \in p.pending /\ Due(p, D, b) = 0
  /\ b \in (l.sent \cap p.want) \ p.failed => Due(p, D, b) = PacketsPerRange
  /\ b \in p.pending => Explained(p, U, D, l, b)

\* The two ends of a connection: p and U (on its way to the session) of the
\* client, l and D (on its way to the client) of the session. left: a call of
\* SuspendUpload has yet to look at the client.
Linked(p, U, D, l, left) ==
  Orderly(p, U, D, l, left) /\ \A b \in Parts : Staged(p, U, D, l, b)

Ends(p, U, D, l, left) ==
  /\ p \in PeerRec /\ U \in Seq(UpPackets) /\ D \in Seq(DownPackets)
  /\ l \in SideRec /\ left \in BOOLEAN

\* Kinds of packets in a sequence
LEMMA HasBoth ==
  ASSUME NEW X, NEW s \in Seq(X), NEW t \in Seq(X), NEW K
  PROVE  Has(s \o t, K) <=> Has(s, K) \/ Has(t, K)
<1>1. /\ DOMAIN s = 1..Len(s) /\ DOMAIN t = 1..Len(t) /\ Len(s) \in Nat /\ Len(t) \in Nat
      /\ DOMAIN (s \o t) = 1..Len(s) + Len(t)
      /\ \A i \in 1..Len(s) : (s \o t)[i] = s[i]
      /\ \A i \in Len(s) + 1..Len(s) + Len(t) : (s \o t)[i] = t[i - Len(s)]
  OBVIOUS
<1>2. ASSUME NEW i \in DOMAIN (s \o t), (s \o t)[i].kind \in K PROVE Has(s, K) \/ Has(t, K)
  <2>1. CASE i \in 1..Len(s)
    BY <1>1, <1>2, <2>1 DEF Has
  <2>2. CASE i \notin 1..Len(s)
    <3>1. i - Len(s) \in DOMAIN t /\ (s \o t)[i] = t[i - Len(s)]
      BY <1>1, <2>2
    <3> QED BY <1>2, <3>1 DEF Has
  <2> QED BY <2>1, <2>2
<1>3. ASSUME NEW i \in DOMAIN s, s[i].kind \in K PROVE Has(s \o t, K)
  BY <1>1, <1>3 DEF Has
<1>4. ASSUME NEW i \in DOMAIN t, t[i].kind \in K PROVE Has(s \o t, K)
  <2>1. i + Len(s) \in DOMAIN (s \o t) /\ (s \o t)[i + Len(s)] = t[i]
    BY <1>1
  <2> QED BY <1>4, <2>1 DEF Has
<1> QED BY <1>2, <1>3, <1>4 DEF Has

\* No packet, and one
LEMMA HasOne ==
  ASSUME NEW X, NEW k \in X, NEW K
  PROVE  ~Has(<<>>, K) /\ (Has(<<k>>, K) <=> k.kind \in K)
  BY DEF Has

\* The first packet and the others
LEMMA HasRest ==
  ASSUME NEW X, NEW s \in Seq(X), s # <<>>, NEW K
  PROVE  Has(s, K) <=> Head(s).kind \in K \/ Has(Tail(s), K)
<1> DEFINE h == Head(s)
           t == Tail(s)
<1>1. s = <<h>> \o t /\ h \in X /\ t \in Seq(X) /\ <<h>> \in Seq(X)
  OBVIOUS
<1> HIDE DEF h, t
<1>2. Has(s, K) <=> Has(<<h>>, K) \/ Has(t, K)
  BY <1>1, HasBoth
<1>3. Has(<<h>>, K) <=> h.kind \in K
  BY <1>1, HasOne
<1> QED BY <1>2, <1>3 DEF h, t

\* Packets that are not data of a block
LEMMA NotData ==
  ASSUME NEW k \in DownPackets, NEW b \in Parts
  PROVE  /\ k \in DataOf(b) <=> k.kind \in DataKinds /\ k.ranges = {b}
         /\ b \in k.ranges => k \in DataOf(b)
<1>1. CASE k \in [kind : DataKinds, ranges : {{e} : e \in Parts}]
  BY <1>1 DEF DataKinds, DataOf, Part, DamagedPart
<1>2. CASE k \in [kind : AnswerKinds \cup RefusalKinds \cup {"AcceptUpload", "Garbage"}, ranges : {{}}]
  <2>1. k.kind \notin DataKinds /\ k.ranges = {}
    BY <1>2 DEF AnswerKinds, RefusalKinds, DataKinds
  <2>2. k \notin DataOf(b)
    BY <2>1 DEF DataKinds, DataOf, Part, DamagedPart
  <2> QED BY <2>1, <2>2
<1> QED BY <1>1, <1>2 DEF DownPackets

\* A packet with data has it of one block.
LEMMA DataIsOfOne ==
  ASSUME NEW k \in DownPackets, k.kind \in DataKinds
  PROVE  \E b \in Parts : k.ranges = {b} /\ k \in DataOf(b)
<1>1. PICK b \in Parts : k.ranges = {b}
  BY DEF DownPackets, DataKinds, AnswerKinds, RefusalKinds
<1> QED BY <1>1, NotData

-----------------------------------------------------------------------------
(* What happens to two ends that are linked.                               *)

\* Data that has come or is on its way is a number.
LEMMA DueIsNat ==
  ASSUME NEW p \in PeerRec, NEW D \in Seq(DownPackets), NEW b \in Parts
  PROVE  p.got[b] \in Nat /\ Carried(D, b) \in Nat /\ Due(p, D, b) \in Nat
<1>1. p.got[b] \in Nat
  BY DEF PeerRec
<1>2. Carried(D, b) \in Nat
  BY CarriedIsNat
<1> QED BY <1>1, <1>2 DEF Due

\* Nothing is asked for or sent while a client greets.
LEMMA NothingBeforeSlot ==
  ASSUME NEW p, NEW U, NEW D, NEW l, NEW left,
         Ends(p, U, D, l, left), Linked(p, U, D, l, left), p.pending = {}
  PROVE  /\ l.asked = {}
         /\ \A b \in Parts : p.got[b] = 0 /\ Carried(D, b) = 0 /\ b \notin l.asked
         /\ U # <<>> => Greeting(U, D)
         /\ Greeting(U, D) => l.sent = {}
<1>1. \A b \in Parts : Staged(p, U, D, l, b)
  BY DEF Linked
<1>2. ASSUME NEW b \in Parts
      PROVE  p.got[b] = 0 /\ Carried(D, b) = 0 /\ b \notin l.asked
  BY <1>1, DueIsNat DEF Staged, Due, Ends
<1>3. l.asked = {}
  BY <1>2 DEF Ends, SideRec
<1>4. ASSUME Greeting(U, D) PROVE l.sent = {}
  BY <1>4 DEF Linked, Orderly, Ends, SideRec
<1>5. ASSUME U # <<>> PROVE Greeting(U, D)
  <2>1. Head(U) \in UpPackets /\ 1 \in DOMAIN U /\ U[1] = Head(U)
    BY <1>5 DEF Ends
  <2>2. Head(U).kind # "RequestParts"
    BY <1>5 DEF Linked, Orderly
  <2>3. Head(U).kind \in AskKinds
    BY <2>1, <2>2 DEF UpPackets
  <2> QED BY <2>1, <2>3 DEF Greeting, Has
<1> QED BY <1>2, <1>3, <1>4, <1>5

\* The beginning of a conversation: at most one packet, and no data
LEMMA Begun ==
  ASSUME NEW p, NEW U, NEW D, NEW l, NEW left, Ends(p, U, D, l, left),
         p.pending = {}, \A b \in Parts : p.got[b] = 0 /\ Carried(D, b) = 0,
         l.asked = {}, l.sent = {},
         Len(U) + Len(D) <= 1, U # <<>> => Head(U).kind \in AskKinds,
         ~Has(D, {"Garbage"}), l.waits => Has(D, RefusalKinds),
         Greeting(U, D) => ~l.slot /\ ~l.waits /\ ~left
  PROVE  Linked(p, U, D, l, left)
<1>1. Len(U) \in Nat /\ Len(D) \in Nat
  BY DEF Ends
<1>2. U # <<>> => Head(U).kind # "RequestParts"
  BY DEF AskKinds
<1>3. Greeting(U, D) => Len(U) + Len(D) = 1
  <2>1. Greeting(U, D) => Len(U) # 0 \/ Len(D) # 0
    BY DEF Greeting, Has, Ends
  <2> QED BY <1>1, <2>1
<1>4. Orderly(p, U, D, l, left)
  BY <1>1, <1>2, <1>3 DEF Orderly
<1>5. ASSUME NEW b \in Parts PROVE Staged(p, U, D, l, b)
  <2>1. Due(p, D, b) = 0 /\ PacketsPerRange \in Nat
    BY ExchangeAssumption DEF Due
  <2> QED BY <2>1 DEF Staged
<1> QED BY <1>4, <1>5 DEF Linked

\* The session takes a request, of S.
LEMMA RequestTaken ==
  ASSUME NEW p, NEW U, NEW D, NEW l, NEW left,
         Ends(p, U, D, l, left), Linked(p, U, D, l, left),
         U # <<>>, Head(U).kind = "RequestParts",
         NEW m \in SideRec, m.slot = l.slot, m.waits = l.waits, m.sent = l.sent,
         m.asked = IF l.slot THEN l.asked \cup (Head(U).ranges \ l.sent) ELSE l.asked
  PROVE  Linked(p, <<>>, D, m, left)
<1>1. /\ Head(U).ranges = p.pending /\ p.pending # {} /\ l.asked = {}
      /\ ~Greeting(U, D)
  BY DEF Linked, Orderly
<1>2. ~Greeting(<<>>, D)
  BY <1>1 DEF Greeting, Has
<1>3. Orderly(p, <<>>, D, m, left)
  BY <1>2 DEF Linked, Orderly
<1>4. ASSUME NEW b \in Parts PROVE Staged(p, <<>>, D, m, b)
  <2>1. Staged(p, U, D, l, b) /\ p.pending \subseteq p.want
    BY DEF Linked, Orderly
  <2>2. Due(p, D, b) = 0
    BY <2>1, DueIsNat DEF Staged, Ends
  <2>3. b \in m.asked => b \in p.pending
    BY <1>1
  <2>4. ASSUME b \in p.pending PROVE Explained(p, <<>>, D, m, b)
    <3>1. CASE ~l.slot
      BY <3>1 DEF Explained
    <3>2. CASE l.slot /\ b \notin l.sent
      BY <1>1, <2>4, <3>2 DEF Explained
    <3>3. CASE l.slot /\ b \in l.sent
      BY <2>1, <2>4, <3>3 DEF Explained, Staged
    <3> QED BY <3>1, <3>2, <3>3
  <2> QED BY <2>1, <2>2, <2>3, <2>4 DEF Staged
<1> QED BY <1>3, <1>4 DEF Linked

\* The client requests S.
LEMMA BlocksRequested ==
  ASSUME NEW p, NEW U, NEW D, NEW l, NEW left,
         Ends(p, U, D, l, left), Linked(p, U, D, l, left),
         p.pending = {}, ~Greeting(U, D),
         NEW S \in SUBSET p.want, S # {},
         NEW r \in PeerRec, r.want = p.want, r.pending = S, r.got = p.got, r.failed = p.failed
  PROVE  Linked(r, U \o <<Request(S)>>, D, l, left)
<1> DEFINE V == <<Request(S)>>
<1>1. U = <<>> /\ l.asked = {}
  BY NothingBeforeSlot
<1>2. U \o V = V
  BY <1>1
<1>3. /\ V # <<>> /\ Len(V) = 1 /\ Head(V).kind = "RequestParts" /\ Head(V).ranges = S
      /\ ~Has(V, AskKinds)
  BY DEF Request, Has, AskKinds
<1> HIDE DEF V
<1>4. ~Greeting(V, D)
  BY <1>3 DEF Greeting
<1>5. Orderly(r, V, D, l, left)
  BY <1>1, <1>3, <1>4 DEF Linked, Orderly
<1>6. ASSUME NEW b \in Parts PROVE Staged(r, V, D, l, b)
  <2>1. Staged(p, U, D, l, b) /\ Due(p, D, b) \in Nat
    BY DueIsNat DEF Linked, Ends
  <2>2. Due(r, D, b) = Due(p, D, b) /\ Due(p, D, b) = 0
    BY <2>1 DEF Staged, Due
  <2>3. Explained(r, V, D, l, b)
    BY <1>3 DEF Explained
  <2> QED BY <1>1, <2>1, <2>2, <2>3 DEF Staged
<1> QED BY <1>2, <1>5, <1>6 DEF Linked, V

\* The client reads AcceptUpload.
LEMMA AcceptTaken ==
  ASSUME NEW p, NEW U, NEW D, NEW l, NEW left,
         Ends(p, U, D, l, left), Linked(p, U, D, l, left),
         D # <<>>, Head(D).kind = "AcceptUpload"
  PROVE  Linked(p, U, Tail(D), l, left) /\ ~Greeting(U, Tail(D))
<1> DEFINE T == Tail(D)
<1>1. D \in Seq(DownPackets) /\ T \in Seq(DownPackets) /\ Len(D) = Len(T) + 1 /\ Len(T) \in Nat
      /\ Head(D) \in DownPackets
  BY DEF Ends
<1>2. \A K : "AcceptUpload" \notin K => (Has(D, K) <=> Has(T, K))
  BY <1>1, HasRest
<1>3. ASSUME NEW b \in Parts PROVE Carried(D, b) = Carried(T, b)
  <2>1. Head(D) \notin DataOf(b)
    BY <1>1, NotData DEF DataKinds
  <2> QED BY <1>1, <2>1, CarriedByRest
<1> HIDE DEF T
<1>4. /\ Has(D, AnswerKinds) <=> Has(T, AnswerKinds)
      /\ Has(D, RefusalKinds) <=> Has(T, RefusalKinds)
      /\ Has(D, {"Garbage"}) <=> Has(T, {"Garbage"})
  BY <1>2 DEF AnswerKinds, RefusalKinds
<1>5. ~Greeting(U, D)
  <2>1. ASSUME Greeting(U, D) PROVE FALSE
    <3>1. Len(U) + Len(D) = 1 /\ Len(U) \in Nat
      BY <2>1 DEF Linked, Orderly, Ends
    <3>2. U = <<>> /\ T = <<>>
      BY <1>1, <3>1 DEF Ends
    <3>3. ~Has(U, AskKinds) /\ ~Has(T, AnswerKinds)
      BY <3>2 DEF Has
    <3> QED BY <1>4, <2>1, <3>3 DEF Greeting
  <2> QED BY <2>1
<1>6. ~Greeting(U, T)
  BY <1>4, <1>5 DEF Greeting
<1>7. Orderly(p, U, T, l, left)
  BY <1>4, <1>6 DEF Linked, Orderly
<1>8. ASSUME NEW b \in Parts PROVE Staged(p, U, T, l, b)
  <2>1. Due(p, T, b) = Due(p, D, b)
    BY <1>3 DEF Due
  <2> QED BY <1>4, <2>1 DEF Linked, Staged, Explained
<1> QED BY <1>6, <1>7, <1>8 DEF Linked, T

\* The client reads data of b, which may be the last.
Receives(r, p, b) ==
  /\ r.failed = p.failed
  /\ \/ /\ r.got = [p.got EXCEPT ![b] = p.got[b] + 1]
        /\ r.want = p.want /\ r.pending = p.pending
     \/ /\ r.got = [p.got EXCEPT ![b] = 0] /\ p.got[b] + 1 >= PacketsPerRange
        /\ r.want = p.want \ {b} /\ r.pending = p.pending \ {b}

\* The client reads a packet with data of b.
LEMMA DataTaken ==
  ASSUME NEW p, NEW U, NEW D, NEW l, NEW left,
         Ends(p, U, D, l, left), Linked(p, U, D, l, left),
         NEW b \in Parts, D # <<>>, Head(D) \in DataOf(b),
         NEW r \in PeerRec, Receives(r, p, b)
  PROVE  Linked(r, U, Tail(D), l, left) /\ ~Greeting(U, Tail(D))
<1> USE DEF Receives
<1> DEFINE T == Tail(D)
<1>1. D \in Seq(DownPackets) /\ T \in Seq(DownPackets) /\ Head(D) \in DownPackets
  BY DEF Ends
<1>2. Head(D).kind \in DataKinds /\ Head(D).ranges = {b}
  BY <1>1, NotData
<1>3. \A K : DataKinds \cap K = {} => (Has(D, K) <=> Has(T, K))
  BY <1>1, <1>2, HasRest
<1>4. Carried(D, b) = Carried(T, b) + 1 /\ Carried(T, b) \in Nat
  BY <1>1, CarriedByRest, CarriedIsNat
<1>5. ASSUME NEW d \in Parts, d # b PROVE Carried(D, d) = Carried(T, d)
  <2>1. Head(D) \notin DataOf(d)
    BY <1>1, <1>2, <1>5, NotData
  <2> QED BY <1>1, <2>1, CarriedByRest
<1> HIDE DEF T
<1>6. /\ Has(D, AnswerKinds) <=> Has(T, AnswerKinds)
      /\ Has(D, RefusalKinds) <=> Has(T, RefusalKinds)
      /\ Has(D, {"Garbage"}) <=> Has(T, {"Garbage"})
  BY <1>3 DEF AnswerKinds, RefusalKinds, DataKinds
<1>7. p.got[b] \in Nat /\ PacketsPerRange \in Nat \ {0}
  BY DueIsNat, ExchangeAssumption DEF Ends
<1>8. b \in p.pending /\ U = <<>> /\ Due(p, D, b) <= PacketsPerRange
      /\ Due(p, D, b) = p.got[b] + Carried(T, b) + 1
  <2>1. Due(p, D, b) = p.got[b] + Carried(T, b) + 1
    BY <1>4, <1>7 DEF Due
  <2> QED BY <1>4, <1>7, <2>1 DEF Linked, Staged
<1>9. ~Greeting(U, D) /\ ~Greeting(U, T)
  BY <1>6, <1>8 DEF Linked, Orderly, Greeting
<1>10. r.pending \subseteq r.want
  BY DEF Linked, Orderly
<1>11. Orderly(r, U, T, l, left)
  BY <1>6, <1>8, <1>9, <1>10 DEF Linked, Orderly
<1>12. ASSUME NEW d \in Parts, d # b PROVE Staged(r, U, T, l, d)
  <2>1. r.got[d] = p.got[d] /\ (d \in r.want <=> d \in p.want) /\ (d \in r.pending <=> d \in p.pending)
    BY <1>12 DEF Ends, PeerRec
  <2>2. Due(r, T, d) = Due(p, D, d)
    BY <1>5, <1>12, <2>1 DEF Due
  <2>3. Staged(p, U, D, l, d)
    BY DEF Linked
  <2>4. Explained(p, U, D, l, d) => Explained(r, U, T, l, d)
    BY <1>6, <2>2 DEF Explained
  <2> QED BY <2>1, <2>2, <2>3, <2>4 DEF Staged
<1>13. Staged(r, U, T, l, b)
  <2>1. Staged(p, U, D, l, b)
    BY DEF Linked
  <2>2. b \notin l.asked
    BY <1>4, <1>7, <1>8, <2>1 DEF Staged
  <2>3. CASE r.got = [p.got EXCEPT ![b] = p.got[b] + 1] /\ r.want = p.want /\ r.pending = p.pending
    <3>1. r.got[b] = p.got[b] + 1
      BY <2>3 DEF Ends, PeerRec
    <3>2. Due(r, T, b) = Due(p, D, b)
      BY <1>4, <1>7, <1>8, <3>1 DEF Due
    <3>3. Explained(p, U, D, l, b) => Explained(r, U, T, l, b)
      BY <1>6, <3>2 DEF Explained
    <3> QED BY <2>1, <2>3, <3>2, <3>3, <1>8 DEF Staged
  <2>4. CASE /\ r.got = [p.got EXCEPT ![b] = 0] /\ p.got[b] + 1 >= PacketsPerRange
             /\ r.want = p.want \ {b} /\ r.pending = p.pending \ {b}
    <3>1. r.got[b] = 0
      BY <2>4 DEF Ends, PeerRec
    <3>2. Due(r, T, b) = 0
      BY <1>4, <1>7, <1>8, <2>4, <3>1 DEF Due
    <3> QED BY <1>7, <2>2, <2>4, <3>2 DEF Staged
  <2> QED BY <2>3, <2>4
<1> QED BY <1>9, <1>11, <1>12, <1>13 DEF Linked, T

\* The hash of b fails: it is wanted again.
LEMMA BlockFailed ==
  ASSUME NEW p, NEW U, NEW D, NEW l, NEW left,
         Ends(p, U, D, l, left), Linked(p, U, D, l, left), NEW b \in Parts, b \notin p.want,
         NEW r \in PeerRec, r.want = p.want \cup {b}, r.failed = p.failed \cup {b},
         r.pending = p.pending, r.got = p.got
  PROVE  Linked(r, U, D, l, left)
<1>1. Orderly(r, U, D, l, left)
  BY DEF Linked, Orderly
<1>2. ASSUME NEW d \in Parts PROVE Staged(r, U, D, l, d)
  <2>1. Staged(p, U, D, l, d) /\ Due(r, D, d) = Due(p, D, d)
    BY DEF Linked, Due
  <2>2. Explained(p, U, D, l, d) => Explained(r, U, D, l, d)
    BY <2>1 DEF Explained
  <2> QED BY <2>1, <2>2 DEF Staged
<1> QED BY <1>1, <1>2 DEF Linked

\* What a step of the session may do to a client it sends E: nothing, to give
\* it a slot it waits for, or to forget what it asked for; and with a refusal
\* anything else.
Turn(l, left, E, m, stays) ==
  /\ E \in Seq(DownPackets) /\ m \in SideRec /\ stays \in BOOLEAN
  /\ \A i \in DOMAIN E : E[i].kind \in RefusalKinds \cup {"AcceptUpload"}
  /\ E # <<>> \/ m.slot \/ m.waits \/ stays => l.slot \/ l.waits \/ left
  /\ m.waits => l.waits \/ Has(E, RefusalKinds)
  /\ (m.asked = l.asked /\ m.sent = l.sent) \/ (m.asked = {} /\ m.sent = {})
  /\ m.slot => (l.slot /\ m.asked = l.asked /\ m.sent = l.sent) \/ l.waits \/ Has(E, RefusalKinds)

\* Such a step keeps the two ends in order.
LEMMA Turned ==
  ASSUME NEW p, NEW U, NEW D, NEW l, NEW left,
         Ends(p, U, D, l, left), Linked(p, U, D, l, left),
         NEW E, NEW m, NEW stays, Turn(l, left, E, m, stays)
  PROVE  Linked(p, U, D \o E, m, stays)
<1> DEFINE T == D \o E
<1>1. /\ D \in Seq(DownPackets) /\ E \in Seq(DownPackets)
      /\ Len(T) = Len(D) + Len(E) /\ Len(D) \in Nat /\ Len(E) \in Nat /\ T \in Seq(DownPackets)
  BY DEF Ends, Turn
<1>2. \A K : Has(T, K) <=> Has(D, K) \/ Has(E, K)
  BY <1>1, HasBoth
<1>3. ~Has(E, AnswerKinds) /\ ~Has(E, {"Garbage"})
  BY DEF Turn, Has, RefusalKinds, AnswerKinds
<1>4. ASSUME NEW b \in Parts PROVE Carried(T, b) = Carried(D, b)
  <2>1. \A i \in DOMAIN E : E[i] \notin DataOf(b)
    <3>1. ASSUME NEW i \in DOMAIN E PROVE E[i] \notin DataOf(b)
      <4>1. E[i] \in DownPackets /\ E[i].kind \notin DataKinds
        BY <1>1, <3>1 DEF Turn, RefusalKinds, DataKinds
      <4> QED BY <4>1, NotData
    <3> QED BY <3>1
  <2>2. {i \in DOMAIN E : E[i] \in DataOf(b)} = {}
    BY <2>1
  <2>3. Carried(E, b) = 0
    BY <2>2, FS_EmptySet DEF Carried
  <2>4. Carried(T, b) = Carried(D, b) + Carried(E, b) /\ Carried(D, b) \in Nat
    BY <1>1, CarriedByBoth, CarriedIsNat
  <2> QED BY <2>3, <2>4
<1>5. E = <<>> => T = D
  BY <1>1
<1> HIDE DEF T
<1>6. /\ Has(T, AnswerKinds) <=> Has(D, AnswerKinds)
      /\ Has(T, {"Garbage"}) <=> Has(D, {"Garbage"})
      /\ Has(T, RefusalKinds) <=> Has(D, RefusalKinds) \/ Has(E, RefusalKinds)
  BY <1>2, <1>3
<1>7. Greeting(U, T) <=> Greeting(U, D)
  BY <1>6 DEF Greeting
<1>8. Greeting(U, D) => T = D /\ ~m.slot /\ ~m.waits /\ ~stays
  BY <1>5 DEF Linked, Orderly, Turn
<1>9. Orderly(p, U, T, m, stays)
  <2>1. Greeting(U, T) =>
          Len(U) + Len(T) = 1 /\ p.pending = {} /\ ~m.slot /\ ~m.waits /\ ~stays
    BY <1>7, <1>8 DEF Linked, Orderly
  <2>2. m.waits => Has(T, RefusalKinds)
    BY <1>6 DEF Linked, Orderly, Turn
  <2>3. l.asked = {} => m.asked = {}
    BY DEF Turn
  <2> QED BY <1>6, <2>1, <2>2, <2>3 DEF Linked, Orderly
<1>10. ASSUME NEW b \in Parts PROVE Staged(p, U, T, m, b)
  <2>1. Staged(p, U, D, l, b) /\ Due(p, T, b) = Due(p, D, b)
    BY <1>4 DEF Linked, Due
  <2>2. ASSUME Explained(p, U, D, l, b) PROVE Explained(p, U, T, m, b)
    <3>1. CASE ~m.slot
      BY <3>1 DEF Explained
    <3>2. CASE l.waits \/ Has(E, RefusalKinds)
      BY <1>6, <3>2 DEF Linked, Orderly, Explained
    <3>3. CASE l.slot /\ m.asked = l.asked /\ m.sent = l.sent
      BY <1>6, <2>1, <2>2, <3>3 DEF Explained
    <3> QED BY <3>1, <3>2, <3>3 DEF Turn
  <2>3. (b \in m.asked => b \in l.asked) /\ (b \in m.sent => b \in l.sent)
    BY DEF Turn
  <2> QED BY <2>1, <2>2, <2>3 DEF Staged
<1> QED BY <1>9, <1>10 DEF Linked, T

\* The session sends the data of b.
RangeData(b) == [i \in 1..PacketsPerRange |-> Part(b)]

\* Everything of the block is on its way then.
LEMMA RangeSent ==
  ASSUME NEW p, NEW U, NEW D, NEW l, NEW left,
         Ends(p, U, D, l, left), Linked(p, U, D, l, left), NEW b \in Parts, b \in l.asked,
         NEW m \in SideRec, m.asked = l.asked \ {b}, m.sent = l.sent \cup {b},
         m.slot = l.slot, m.waits = l.waits
  PROVE  Linked(p, U, D \o RangeData(b), m, left)
<1> DEFINE E == [i \in 1..PacketsPerRange |-> Part(b)]
           T == D \o E
<1>1. PacketsPerRange \in Nat \ {0} /\ Part(b) \in DownPackets
  BY ExchangeAssumption DEF Part, DownPackets, DataKinds
<1>2. D \in Seq(DownPackets) /\ E \in Seq(DownPackets) /\ \A i \in DOMAIN E : E[i] = Part(b)
  BY <1>1 DEF Ends
<1>3. ASSUME NEW d \in Parts
      PROVE  Carried(T, d) = Carried(D, d) + (IF d = b THEN PacketsPerRange ELSE 0)
  <2>1. Carried(E, d) = IF d = b THEN PacketsPerRange ELSE 0
    BY CarriedByRange
  <2> QED BY <1>2, <2>1, CarriedByBoth
<1>4. \A K : Has(T, K) <=> Has(D, K) \/ Has(E, K)
  BY <1>2, HasBoth
<1>5. ~Has(E, AnswerKinds) /\ ~Has(E, RefusalKinds) /\ ~Has(E, {"Garbage"})
  BY <1>2 DEF Has, Part, AnswerKinds, RefusalKinds
<1> HIDE DEF E, T
<1>6. /\ Has(T, AnswerKinds) <=> Has(D, AnswerKinds)
      /\ Has(T, RefusalKinds) <=> Has(D, RefusalKinds)
      /\ Has(T, {"Garbage"}) <=> Has(D, {"Garbage"})
  BY <1>4, <1>5
<1>7. ~Greeting(U, D) /\ ~Greeting(U, T)
  BY <1>6 DEF Linked, Orderly, Greeting, Ends, SideRec
<1>8. U = <<>>
  <2>1. ASSUME U # <<>> PROVE Head(U).kind \in AskKinds
    <3>1. Head(U) \in UpPackets /\ Head(U).kind # "RequestParts"
      BY <2>1 DEF Ends, Linked, Orderly
    <3> QED BY <3>1 DEF UpPackets
  <2>2. ASSUME U # <<>> PROVE FALSE
    <3>1. 1 \in DOMAIN U /\ U[1].kind \in AskKinds
      BY <2>1, <2>2 DEF Ends
    <3> QED BY <1>7, <3>1 DEF Greeting, Has
  <2> QED BY <2>2
<1>9. Orderly(p, U, T, m, left)
  BY <1>6, <1>7, <1>8 DEF Linked, Orderly
<1>10. ASSUME NEW d \in Parts PROVE Staged(p, U, T, m, d)
  <2>1. Staged(p, U, D, l, d) /\ Carried(D, d) \in Nat /\ p.got[d] \in Nat
    BY DueIsNat DEF Linked, Ends
  <2>2. CASE d = b
    <3>1. d \in p.pending /\ Due(p, D, d) = 0
      BY <2>1, <2>2 DEF Staged
    <3>2. Due(p, T, d) = PacketsPerRange
      BY <1>1, <1>3, <2>1, <2>2, <3>1 DEF Due
    <3> QED BY <1>1, <1>8, <2>2, <3>1, <3>2 DEF Staged, Explained
  <2>3. CASE d # b
    <3>1. Due(p, T, d) = Due(p, D, d)
      BY <1>3, <2>1, <2>3 DEF Due
    <3>2. Explained(p, U, D, l, d) => Explained(p, U, T, m, d)
      BY <1>6, <2>3, <3>1 DEF Explained
    <3> QED BY <2>1, <2>3, <3>1, <3>2 DEF Staged
  <2> QED BY <2>2, <2>3
<1>11. Linked(p, U, T, m, left)
  BY <1>9, <1>10 DEF Linked
<1> QED BY <1>11 DEF T, E, RangeData

\* The first packet behind A is data, and is damaged.
LEMMA PacketDamaged ==
  ASSUME NEW p, NEW U, NEW A \in Seq(DownPackets), NEW B \in Seq(DownPackets), NEW l, NEW left,
         NEW b \in Parts, B # <<>>, Head(B) = Part(b),
         Ends(p, U, A \o B, l, left), Linked(p, U, A \o B, l, left)
  PROVE  Linked(p, U, (A \o <<DamagedPart(b)>>) \o Tail(B), l, left)
<1> DEFINE C == A \o <<DamagedPart(b)>>
           T == C \o Tail(B)
           D == A \o B
<1>1. /\ DamagedPart(b) \in DownPackets /\ <<DamagedPart(b)>> \in Seq(DownPackets)
      /\ C \in Seq(DownPackets) /\ Tail(B) \in Seq(DownPackets) /\ Head(B) \in DownPackets
      /\ T \in Seq(DownPackets) /\ Len(T) = Len(D)
  BY DEF DamagedPart, DownPackets, DataKinds
<1>2. Head(B).kind \in DataKinds /\ DamagedPart(b).kind \in DataKinds
  BY DEF Part, DamagedPart, DataKinds
<1>3. ASSUME NEW K, DataKinds \cap K = {} PROVE Has(T, K) <=> Has(D, K)
  <2>1. Has(C, K) <=> Has(A, K) \/ Has(<<DamagedPart(b)>>, K)
    BY <1>1, HasBoth
  <2>2. Has(T, K) <=> Has(C, K) \/ Has(Tail(B), K)
    BY <1>1, HasBoth
  <2>3. Has(D, K) <=> Has(A, K) \/ Has(B, K)
    BY HasBoth
  <2>4. Has(B, K) <=> Head(B).kind \in K \/ Has(Tail(B), K)
    BY HasRest
  <2>5. ~Has(<<DamagedPart(b)>>, K) /\ Head(B).kind \notin K
    BY <1>1, <1>2, <1>3, HasOne
  <2> HIDE DEF C, T, D
  <2> QED BY <2>1, <2>2, <2>3, <2>4, <2>5
<1>4. ASSUME NEW d \in Parts PROVE Carried(T, d) = Carried(D, d)
  <2>1. Carried(C, d) = Carried(A, d) + Carried(<<DamagedPart(b)>>, d)
    BY <1>1, CarriedByBoth
  <2>2. Carried(T, d) = Carried(C, d) + Carried(Tail(B), d)
    BY <1>1, CarriedByBoth
  <2>3. Carried(D, d) = Carried(A, d) + Carried(B, d)
    BY CarriedByBoth
  <2>4. /\ Head(B) \in DataOf(d) => Carried(B, d) = Carried(Tail(B), d) + 1
        /\ Head(B) \notin DataOf(d) => Carried(B, d) = Carried(Tail(B), d)
    BY CarriedByRest
  <2>5. /\ DamagedPart(b) \in DataOf(d) => Carried(<<DamagedPart(b)>>, d) = 1
        /\ DamagedPart(b) \notin DataOf(d) => Carried(<<DamagedPart(b)>>, d) = 0
    BY <1>1, CarriedByOne
  <2>6. Head(B) \in DataOf(d) <=> DamagedPart(b) \in DataOf(d)
    <3>1. Part(b).ranges = {b} /\ DamagedPart(b).ranges = {b}
      BY DEF Part, DamagedPart
    <3>2. (Part(b) \in DataOf(d) <=> d = b) /\ (DamagedPart(b) \in DataOf(d) <=> d = b)
      BY <1>1, <1>2, <3>1, NotData
    <3> QED BY <3>2
  <2>7. Carried(A, d) \in Nat /\ Carried(Tail(B), d) \in Nat
    BY <1>1, CarriedIsNat
  <2> HIDE DEF C, T, D
  <2> QED BY <2>1, <2>2, <2>3, <2>4, <2>5, <2>6, <2>7
<1> HIDE DEF T, C
<1>5. /\ Has(T, AnswerKinds) <=> Has(D, AnswerKinds)
      /\ Has(T, RefusalKinds) <=> Has(D, RefusalKinds)
      /\ Has(T, {"Garbage"}) <=> Has(D, {"Garbage"})
  BY <1>3 DEF AnswerKinds, RefusalKinds, DataKinds
<1> HIDE DEF D
<1>6. Linked(p, U, D, l, left)
  BY DEF D
<1>7. Orderly(p, U, T, l, left)
  BY <1>1, <1>5, <1>6 DEF Linked, Orderly, Greeting
<1>8. ASSUME NEW d \in Parts PROVE Staged(p, U, T, l, d)
  <2>1. Staged(p, U, D, l, d) /\ Due(p, T, d) = Due(p, D, d)
    BY <1>4, <1>6 DEF Linked, Due
  <2>2. Explained(p, U, D, l, d) => Explained(p, U, T, l, d)
    BY <1>5, <2>1 DEF Explained
  <2> QED BY <2>1, <2>2 DEF Staged
<1>9. Linked(p, U, T, l, left)
  BY <1>7, <1>8 DEF Linked
<1> QED BY <1>9 DEF T, C

-----------------------------------------------------------------------------
(* What the queue remembers of its clients: uploadBlocks and uploadDone.   *)

Fields(r) == {"asked", "sent"} \subseteq DOMAIN r
Remembers(t, r) == Fields(t) /\ t.asked = r.asked /\ t.sent = r.sent

\* recomputeRanks
LEMMA RankedRemembers ==
  ASSUME NEW r, Fields(r), NEW w
  PROVE  Remembers(Ranked(r, w), r)
  BY DEF Ranked, Fields, Remembers

\* addUpNextClient(c)
LEMMA SlotRemembers ==
  ASSUME NEW r, Fields(r), NEW c
  PROVE  Remembers(GiveSlot(r, c), r)
  BY DEF GiveSlot, Fields, Remembers

\* RemoveFromWaitingQueue
LEMMA WaitingRemembers ==
  ASSUME NEW r, Fields(r), NEW c
  PROVE  Remembers(RemoveFromWaitingQueue(r, c), r)
<1> DEFINE t == Ranked(r, Without(r.waiting, c))
<1>1. Remembers(t, r)
  BY RankedRemembers
<1> HIDE DEF t
<1>2. Remembers([t EXCEPT !.state[c] = "None", !.rank[c] = 0], r)
  BY <1>1 DEF Remembers, Fields
<1>3. Remembers(r, r)
  BY DEF Remembers
<1> QED BY <1>2, <1>3 DEF RemoveFromWaitingQueue, t

\* AddClientToQueue
LEMMA AddingRemembers ==
  ASSUME NEW r, Fields(r), NEW c, c \notin Waiting(r) \/ c \notin Uploading(r),
         NEW f, NEW t \in AddClientToQueue(r, c, f)
  PROVE  Remembers(t, r)
<1> DEFINE m == RemoveFromWaitingQueue(r, c)
           n == GiveSlot(m, c)
           k == GiveSlot(r, c)
           o == [r EXCEPT !.state[c] = "OnQueue"]
<1>1. \/ t = r \/ t = [n EXCEPT !.lastHighID = FALSE] \/ t = [k EXCEPT !.recent = TRUE]
      \/ t \in Sorted(o, Append(r.waiting, c))
  <2>1. AddClientToQueue(r, c, f) \subseteq
          {r, [n EXCEPT !.lastHighID = FALSE], [k EXCEPT !.recent = TRUE]}
          \cup Sorted(o, Append(r.waiting, c))
    <3> HIDE DEF n, k, o
    <3>1. AddClientToQueue(r, c, f) \in
            {{r}, {[n EXCEPT !.lastHighID = FALSE]}, {[k EXCEPT !.recent = TRUE]},
             Sorted(o, Append(r.waiting, c))}
      <4>1. CASE ~Open(c) \/ c \in Uploading(r)
        <5>1. AddClientToQueue(r, c, f) = {r}
          BY <4>1 DEF AddClientToQueue
        <5> QED BY <5>1
      <4>2. CASE Open(c) /\ c \notin Uploading(r) /\ c \in Waiting(r)
        BY <4>2 DEF AddClientToQueue, n, m
      <4>3. CASE Open(c) /\ c \notin Uploading(r) /\ c \notin Waiting(r)
        BY <4>3 DEF AddClientToQueue, k, o
      <4> QED BY <4>1, <4>2, <4>3
    <3> QED BY <3>1
  <2> HIDE DEF n, k, o
  <2> QED BY <2>1
<1>2. Remembers(m, r)
  BY WaitingRemembers
<1>3. Remembers(n, r)
  <2>1. Remembers(n, m)
    BY <1>2, SlotRemembers DEF Remembers
  <2> QED BY <1>2, <2>1 DEF Remembers
<1>4. Remembers(k, r)
  BY SlotRemembers
<1>5. Remembers(o, r)
  BY DEF Remembers, Fields
<1> HIDE DEF m, n, k, o
<1>6. CASE t = r
  BY <1>6 DEF Remembers
<1>7. CASE t = [n EXCEPT !.lastHighID = FALSE]
  BY <1>3, <1>7 DEF Remembers, Fields
<1>8. CASE t = [k EXCEPT !.recent = TRUE]
  BY <1>4, <1>8 DEF Remembers, Fields
<1>9. CASE t \in Sorted(o, Append(r.waiting, c))
  <2>1. PICK s : t = Ranked(o, s)
    BY <1>9 DEF Sorted
  <2>2. Remembers(t, o)
    BY <1>5, <2>1, RankedRemembers DEF Remembers
  <2> QED BY <1>5, <2>2 DEF Remembers
<1> QED BY <1>1, <1>6, <1>7, <1>8, <1>9

\* sortWaiting at the end of Process
LEMMA EndRemembers ==
  ASSUME NEW r, Fields(r), NEW t \in EndOfLoop(r)
  PROVE  Remembers(t, r)
<1>1. CASE t = r
  BY <1>1 DEF Remembers
<1>2. CASE t \in Sorted(r, r.waiting)
  BY <1>2, RankedRemembers DEF Sorted
<1> QED BY <1>1, <1>2 DEF EndOfLoop

\* addUpNextClient(nil)
LEMMA NextRemembers ==
  ASSUME NEW r, Fields(r)
  PROVE  Remembers(AddUpNextClient(r), r)
<1>1. PICK F, w, c :
        \/ AddUpNextClient(r) = [r EXCEPT !.addNext = F]
        \/ AddUpNextClient(r) = GiveSlot(Ranked([r EXCEPT !.addNext = F], w), c)
  <2> DEFINE passed == {i \in DOMAIN r.waiting :
                          \A j \in 1..i : r.waiting[j] \in LowIDs /\ ~Open(r.waiting[j])}
             F == [c \in Clients |-> r.addNext[c] \/ \E i \in passed : r.waiting[i] = c]
             n == Cardinality(passed) + 1
  <2>1. AddUpNextClient(r) = IF n > Len(r.waiting) THEN [r EXCEPT !.addNext = F]
          ELSE GiveSlot(Ranked([r EXCEPT !.addNext = F], RemoveAt(r.waiting, n)), r.waiting[n])
    BY Zenon DEF AddUpNextClient
  <2> HIDE DEF passed, F, n
  <2> QED BY <2>1
<1> DEFINE m == [r EXCEPT !.addNext = F]
<1>2. Remembers(m, r)
  BY DEF Remembers, Fields
<1> HIDE DEF m
<1>3. CASE AddUpNextClient(r) = m
  BY <1>2, <1>3
<1>4. CASE AddUpNextClient(r) = GiveSlot(Ranked(m, w), c)
  <2>1. Remembers(Ranked(m, w), m)
    BY <1>2, RankedRemembers DEF Remembers
  <2>2. Remembers(GiveSlot(Ranked(m, w), c), Ranked(m, w))
    BY <2>1, SlotRemembers DEF Remembers
  <2> QED BY <1>2, <1>4, <2>1, <2>2 DEF Remembers
<1> QED BY <1>1, <1>3, <1>4 DEF m

\* RemoveFromUploadQueue
LEMMA RemovedRemembers ==
  ASSUME NEW r, Sound(r), NEW c \in Clients, NEW d \in Clients
  PROVE  /\ d # c => /\ RemoveFromUploadQueue(r, c).asked[d] = r.asked[d]
                     /\ RemoveFromUploadQueue(r, c).sent[d] = r.sent[d]
         /\ RemoveFromUploadQueue(r, c).asked[c] = {}
         /\ RemoveFromUploadQueue(r, c).sent[c] = {}
<1>1. r \in QueueType /\ Placed(r, c) /\ Fields(r)
  BY DEF Sound, QueueType, Fields
<1>2. CASE c \notin Waiting(r) \union Uploading(r)
  BY <1>1, <1>2 DEF RemoveFromUploadQueue, Placed
<1>3. CASE c \in Waiting(r) \union Uploading(r)
  <2> DEFINE m == [r EXCEPT !.uploading = Without(@, c)]
             n == RemoveFromWaitingQueue(m, c)
             t == [n EXCEPT !.state[c] = "None", !.asked[c] = {}, !.sent[c] = {}]
  <2>1. Remembers(m, r)
    BY <1>1 DEF Remembers, Fields
  <2>2. RemoveFromUploadQueue(r, c) = t
    BY <1>3, Zenon DEF RemoveFromUploadQueue
  <2> HIDE DEF m
  <2>3. Remembers(n, m)
    BY <2>1, WaitingRemembers DEF Remembers
  <2> HIDE DEF n
  <2>4. Fields(n) /\ n.asked = r.asked /\ n.sent = r.sent
    BY <2>1, <2>3 DEF Remembers
  <2>5. t.asked = [r.asked EXCEPT ![c] = {}] /\ t.sent = [r.sent EXCEPT ![c] = {}]
    BY <2>4 DEF Fields
  <2>6. r.asked \in [Clients -> SUBSET Parts] /\ r.sent \in [Clients -> SUBSET Parts]
    BY <1>1 DEF QueueType
  <2> HIDE DEF t
  <2> QED BY <2>2, <2>5, <2>6
<1> QED BY <1>2, <1>3

-----------------------------------------------------------------------------
(* The invariant.                                                          *)

\* The call of SuspendUpload has yet to look at c.
Leaving(c) == c \in ToSet(suspending.left)

EndsOK ==
  /\ peer \in [Clients -> PeerRec]
  /\ up \in [Clients -> UpPipe]
  /\ down \in [Clients -> DownPipe]

LoopOK ==
  /\ Distinct(suspending.left)
  /\ \A c \in Clients : Leaving(c) => conn[c] # "Absent"

Fresh(p) == p.on = "None" => p.pending = {} /\ \A b \in Parts : p.got[b] = 0

Talking(c) ==
  Reached(c) /\ ~peer[c].torn =>
    Linked(peer[c], All(up[c]), All(down[c]), Side(q, c), Leaving(c))

ExInv == IInv /\ EndsOK /\ LoopOK /\ \A c \in Clients : Fresh(peer[c]) /\ Talking(c)

\* Pipes
LEMMA PipeParts ==
  ASSUME NEW X, NEW pipe \in [out : Seq(X), wire : Seq(X)]
  PROVE  /\ pipe.out \in Seq(X) /\ pipe.wire \in Seq(X) /\ All(pipe) \in Seq(X)
         /\ pipe.wire # <<>> =>
              /\ [pipe EXCEPT !.wire = Tail(@)] \in [out : Seq(X), wire : Seq(X)]
              /\ All([pipe EXCEPT !.wire = Tail(@)]) = Tail(All(pipe))
              /\ Head(pipe.wire) \in X
              /\ All(pipe) # <<>> /\ Head(All(pipe)) = Head(pipe.wire)
         /\ pipe.out # <<>> =>
              LET f == [out |-> Tail(pipe.out), wire |-> pipe.wire \o <<Head(pipe.out)>>]
              IN  f \in [out : Seq(X), wire : Seq(X)] /\ All(f) = All(pipe)
<1> DEFINE o == pipe.out
           w == pipe.wire
           P == [out : Seq(X), wire : Seq(X)]
           k == [pipe EXCEPT !.wire = Tail(@)]
           f == [out |-> Tail(o), wire |-> w \o <<Head(o)>>]
<1>1. o \in Seq(X) /\ w \in Seq(X) /\ w \o o \in Seq(X)
  OBVIOUS
<1>2. ASSUME w # <<>>
      PROVE  /\ k \in P /\ All(k) = Tail(w \o o) /\ Head(w) \in X
             /\ w \o o # <<>> /\ Head(w \o o) = Head(w)
  <2>1. Tail(w) \in Seq(X)
    <3> HIDE DEF w
    <3> QED BY <1>1, <1>2
  <2>2. k.out = o /\ k.wire = Tail(w)
    OBVIOUS
  <2>3. k \in P
    <3> DEFINE x == Tail(w)
    <3>1. x \in Seq(X)
      BY <2>1
    <3> HIDE DEF x
    <3>2. [pipe EXCEPT !.wire = x] \in P
      BY <3>1
    <3> QED BY <3>2 DEF x
  <2> HIDE DEF o, w, k
  <2>4. /\ Head(w) \in X /\ w \o o # <<>> /\ Head(w \o o) = Head(w)
        /\ Tail(w) \o o = Tail(w \o o)
    BY <1>1, <1>2
  <2> QED BY <2>2, <2>3, <2>4 DEF All
<1>3. ASSUME o # <<>>
      PROVE  f \in P /\ All(f) = w \o o
  <2>1. f \in P /\ f.out = Tail(o) /\ f.wire = w \o <<Head(o)>>
    BY <1>3
  <2> HIDE DEF o, w, f
  <2>2. (w \o <<Head(o)>>) \o Tail(o) = w \o o
    BY <1>1, <1>3
  <2> QED BY <2>1, <2>2 DEF All
<1> QED BY <1>1, <1>2, <1>3 DEF All

\* QueuePacket
LEMMA PipeLonger ==
  ASSUME NEW X, NEW pipe \in [out : Seq(X), wire : Seq(X)], NEW E \in Seq(X)
  PROVE  /\ [pipe EXCEPT !.out = @ \o E] \in [out : Seq(X), wire : Seq(X)]
         /\ All([pipe EXCEPT !.out = @ \o E]) = All(pipe) \o E
<1> DEFINE o == pipe.out
           w == pipe.wire
           k == [pipe EXCEPT !.out = @ \o E]
<1>1. o \in Seq(X) /\ w \in Seq(X)
  OBVIOUS
<1>2. k.out = o \o E /\ k.wire = w
  OBVIOUS
<1>3. o \o E \in Seq(X)
  OBVIOUS
<1>4. k \in [out : Seq(X), wire : Seq(X)]
  <2> DEFINE x == o \o E
  <2>1. x \in Seq(X)
    BY <1>3
  <2> HIDE DEF x
  <2>2. [pipe EXCEPT !.out = x] \in [out : Seq(X), wire : Seq(X)]
    BY <2>1
  <2> QED BY <2>2 DEF x
<1> HIDE DEF o, w, k
<1>5. w \o (o \o E) = (w \o o) \o E /\ o \o E \in Seq(X)
  BY <1>1
<1> QED BY <1>2, <1>4, <1>5 DEF All, o, w, k

\* What the session has of a client
LEMMA SideOK ==
  ASSUME NEW r, Sound(r), NEW c \in Clients
  PROVE  Side(r, c) \in SideRec
<1>1. Placed(r, c) /\ r.asked[c] \in SUBSET Parts /\ r.sent[c] \in SUBSET Parts
  BY DEF Sound, QueueType
<1>2. r.asked[c] \cup r.sent[c] # {} => c \in Uploading(r)
  BY <1>1 DEF Placed
<1>3. ~(c \in Uploading(r) /\ c \in Waiting(r))
  BY <1>1 DEF Placed
<1> DEFINE l == Side(r, c)
<1>4. /\ l \in [asked : SUBSET Parts, sent : SUBSET Parts, slot : BOOLEAN, waits : BOOLEAN]
      /\ l.asked = r.asked[c] /\ l.sent = r.sent[c]
      /\ l.slot = (c \in Uploading(r)) /\ l.waits = (c \in Waiting(r))
  BY <1>1 DEF Side
<1> HIDE DEF l
<1>5. l \in SideRec
  BY <1>2, <1>3, <1>4 DEF SideRec
<1> QED BY <1>5 DEF l

\* The same lists and the same memory
LEMMA SideKept ==
  ASSUME NEW r, NEW t, Same(t, r), Remembers(t, r), NEW c
  PROVE  Side(t, c) = Side(r, c)
  BY DEF Side, Same, Remembers

\* Two ends that reach each other
LEMMA TalkingEnds ==
  ASSUME ExInv, NEW c \in Clients
  PROVE  /\ peer[c] \in PeerRec /\ up[c] \in UpPipe /\ down[c] \in DownPipe
         /\ Side(q, c) \in SideRec
         /\ Ends(peer[c], All(up[c]), All(down[c]), Side(q, c), Leaving(c))
         /\ Reached(c) /\ ~peer[c].torn =>
              Linked(peer[c], All(up[c]), All(down[c]), Side(q, c), Leaving(c))
<1>1. /\ peer[c] \in PeerRec /\ up[c] \in UpPipe /\ down[c] \in DownPipe
      /\ Sound(q) /\ Talking(c)
  BY DEF ExInv, EndsOK, IInv
<1>2. All(up[c]) \in Seq(UpPackets) /\ All(down[c]) \in Seq(DownPackets)
  BY <1>1, PipeParts DEF UpPipe, DownPipe
<1>3. Side(q, c) \in SideRec
  BY <1>1, SideOK
<1>4. Leaving(c) \in BOOLEAN
  BY DEF Leaving
<1> QED BY <1>1, <1>2, <1>3, <1>4 DEF Ends, Talking

\* A step of c, or for it: what the session has of the others stays.
LEMMA OwnStep ==
  ASSUME ExInv, IInv', LoopOK', NEW c \in Clients,
         NEW p \in PeerRec, NEW u \in UpPipe, NEW d \in DownPipe,
         peer' = [peer EXCEPT ![c] = p], up' = [up EXCEPT ![c] = u],
         down' = [down EXCEPT ![c] = d],
         \A e \in Clients \ {c} :
           Side(q', e) = Side(q, e) /\ conn'[e] = conn[e] /\ (Leaving(e)' <=> Leaving(e)),
         Fresh(p),
         conn'[c] = "Open" /\ p.on = "Open" /\ ~p.torn =>
           Linked(p, All(u), All(d), Side(q', c), Leaving(c)')
  PROVE  ExInv'
<1>1. EndsOK'
  BY DEF EndsOK, ExInv
<1>2. peer'[c] = p /\ up'[c] = u /\ down'[c] = d
  BY DEF EndsOK, ExInv
<1>3. Fresh(peer'[c]) /\ Talking(c)'
  BY <1>2 DEF Talking, Reached, Open
<1>4. ASSUME NEW e \in Clients, e # c
      PROVE  Fresh(peer'[e]) /\ Talking(e)'
  <2>1. /\ peer'[e] = peer[e] /\ up'[e] = up[e] /\ down'[e] = down[e]
        /\ Side(q', e) = Side(q, e) /\ conn'[e] = conn[e] /\ (Leaving(e)' <=> Leaving(e))
    BY <1>4 DEF EndsOK, ExInv
  <2>2. Fresh(peer[e]) /\ Talking(e)
    BY DEF ExInv
  <2>3. Leaving(e)' = Leaving(e)
    BY <2>1 DEF Leaving
  <2> QED BY <2>1, <2>2, <2>3 DEF Talking, Reached, Open
<1> QED BY <1>1, <1>3, <1>4 DEF ExInv

\* A step that leaves the session as it is
LEMMA PeerStep ==
  ASSUME ExInv, UNCHANGED vars, NEW c \in Clients,
         NEW p \in PeerRec, NEW u \in UpPipe, NEW d \in DownPipe,
         peer' = [peer EXCEPT ![c] = p], up' = [up EXCEPT ![c] = u],
         down' = [down EXCEPT ![c] = d],
         Fresh(p),
         Open(c) /\ p.on = "Open" /\ ~p.torn =>
           Linked(p, All(u), All(d), Side(q, c), Leaving(c))
  PROVE  ExInv'
<1>1. IInv'
  BY NextSound DEF ExInv
<1>2. q' = q /\ conn' = conn /\ suspending' = suspending
  BY DEF vars
<1>3. LoopOK' /\ \A e \in Clients : (Leaving(e)' <=> Leaving(e)) /\ Leaving(e)' = Leaving(e)
  BY <1>2 DEF ExInv, LoopOK, Leaving
<1> QED BY <1>1, <1>2, <1>3, OwnStep DEF Open

-----------------------------------------------------------------------------
(* Steps of a client, and of what lies between.                            *)

\* Connection.Close of the client
LEMMA HangUpStep ==
  ASSUME ExInv, UNCHANGED vars, NEW c \in Clients, NEW p \in PeerRec, NEW d \in DownPipe,
         HangUp(c, p, [down EXCEPT ![c] = d])
  PROVE  ExInv'
<1> DEFINE r == [p EXCEPT !.on = "Closed"]
           u == [up[c] EXCEPT !.out = <<>>]
           e == [d EXCEPT !.wire = <<>>]
<1>1. EndsOK
  BY DEF ExInv
<1>2. peer' = [peer EXCEPT ![c] = r] /\ up' = [up EXCEPT ![c] = u] /\ down' = [down EXCEPT ![c] = e]
  BY <1>1 DEF HangUp, EndsOK
<1>3. r \in PeerRec /\ r.on = "Closed"
  BY DEF PeerRec, PeerStates
<1>4. u \in UpPipe /\ e \in DownPipe
  <2>1. up[c] \in UpPipe
    BY <1>1 DEF EndsOK
  <2>2. <<>> \in Seq(UpPackets) /\ <<>> \in Seq(DownPackets)
    OBVIOUS
  <2> QED BY <2>1, <2>2 DEF UpPipe, DownPipe
<1> HIDE DEF r, u, e
<1> QED BY <1>2, <1>3, <1>4, PeerStep DEF Fresh

\* QueuePacket of an answer or a request to the end of a conversation that has
\* only the packet that was handled
LEMMA LastTaken ==
  ASSUME NEW p, NEW U, NEW D, NEW l, NEW left,
         Ends(p, U, D, l, left), Linked(p, U, D, l, left),
         \/ U # <<>> /\ Head(U).kind \in AskKinds
         \/ D # <<>> /\ Head(D).kind \in AnswerKinds
  PROVE  /\ Greeting(U, D) /\ p.pending = {} /\ l.asked = {} /\ l.sent = {}
         /\ ~l.slot /\ ~l.waits /\ ~left
         /\ \A b \in Parts : p.got[b] = 0
         /\ U = <<>> \/ D = <<>>
         /\ U # <<>> => Tail(U) = <<>>
         /\ D # <<>> => Tail(D) = <<>>
<1>1. Greeting(U, D)
  <2>1. ASSUME U # <<>>, Head(U).kind \in AskKinds PROVE Has(U, AskKinds)
    BY <2>1, HasRest DEF Ends
  <2>2. ASSUME D # <<>>, Head(D).kind \in AnswerKinds PROVE Has(D, AnswerKinds)
    BY <2>2, HasRest DEF Ends
  <2> QED BY <2>1, <2>2 DEF Greeting
<1>2. Len(U) + Len(D) = 1 /\ p.pending = {} /\ ~l.slot /\ ~l.waits /\ ~left
  BY <1>1 DEF Linked, Orderly
<1>3. U \in Seq(UpPackets) /\ D \in Seq(DownPackets)
  BY DEF Ends
<1>4. /\ U = <<>> \/ D = <<>>
      /\ U # <<>> => Tail(U) = <<>>
      /\ D # <<>> => Tail(D) = <<>>
  BY <1>2, <1>3
<1> QED BY <1>1, <1>2, <1>4, NothingBeforeSlot

\* One packet, that is not data, begins or goes on with the greeting.
LEMMA OneLinked ==
  ASSUME NEW p \in PeerRec, NEW l \in SideRec, NEW left \in BOOLEAN,
         p.pending = {}, l.asked = {}, l.sent = {}, \A b \in Parts : p.got[b] = 0,
         NEW U, NEW D,
         \/ \E k \in AskKinds : U = <<Packet(k)>> /\ D = <<>> /\ ~l.slot /\ ~l.waits /\ ~left
         \/ \E k \in AnswerKinds : U = <<>> /\ D = <<Packet(k)>> /\ ~l.slot /\ ~l.waits /\ ~left
         \/ U = <<>> /\ D = <<Packet("AcceptUpload")>> /\ ~l.waits
         \/ U = <<>> /\ D = <<Packet("QueueRanking")>>
         \/ U = <<>> /\ D = <<>> /\ ~l.waits
  PROVE  Linked(p, U, D, l, left) /\ U \in Seq(UpPackets) /\ D \in Seq(DownPackets)
<1>1. ASSUME NEW k \in AskKinds, U = <<Packet(k)>>, D = <<>>, ~l.slot, ~l.waits, ~left
      PROVE  Linked(p, U, D, l, left) /\ U \in Seq(UpPackets) /\ D \in Seq(DownPackets)
  <2>1. Packet(k) \in UpPackets /\ Packet(k).kind \in AskKinds
    BY DEF Packet, UpPackets
  <2>2. /\ U \in Seq(UpPackets) /\ D \in Seq(DownPackets) /\ Len(U) + Len(D) = 1
        /\ U # <<>> /\ Head(U).kind \in AskKinds
    BY <1>1, <2>1
  <2>3. ~Has(D, {"Garbage"}) /\ \A b \in Parts : Carried(D, b) = 0
    BY <1>1, CarriedByOne, FS_EmptySet DEF Has, Carried
  <2>4. Ends(p, U, D, l, left) /\ \A b \in Parts : p.got[b] = 0 /\ Carried(D, b) = 0
    BY <2>2, <2>3 DEF Ends
  <2>5. Len(U) + Len(D) <= 1
    BY <2>2
  <2>6. Linked(p, U, D, l, left)
    BY <1>1, <2>2, <2>3, <2>4, <2>5, Begun
  <2> QED BY <2>2, <2>6
<1>2. ASSUME NEW k \in AnswerKinds \cup {"AcceptUpload", "QueueRanking"},
             U = <<>>, D = <<Packet(k)>>,
             k \in AnswerKinds => ~l.slot /\ ~l.waits /\ ~left, l.waits => k = "QueueRanking"
      PROVE  Linked(p, U, D, l, left) /\ U \in Seq(UpPackets) /\ D \in Seq(DownPackets)
  <2>1. Packet(k) \in DownPackets /\ Packet(k).kind = k /\ k \notin DataKinds /\ k # "Garbage"
    BY DEF Packet, DownPackets, AnswerKinds, RefusalKinds, DataKinds
  <2>2. /\ U \in Seq(UpPackets) /\ D \in Seq(DownPackets) /\ Len(U) + Len(D) = 1 /\ ~Has(U, AskKinds)
    BY <1>2, <2>1 DEF Has
  <2>3. \A K : Has(D, K) <=> k \in K
    BY <1>2, <2>1, HasOne
  <2>4. ASSUME NEW b \in Parts PROVE Carried(D, b) = 0
    <3>1. Packet(k) \notin DataOf(b)
      BY <2>1, NotData
    <3> QED BY <1>2, <2>1, <3>1, CarriedByOne
  <2>5. /\ Greeting(U, D) => ~l.slot /\ ~l.waits /\ ~left
        /\ ~Has(D, {"Garbage"}) /\ (l.waits => Has(D, RefusalKinds))
    BY <1>2, <2>1, <2>2, <2>3 DEF Greeting, RefusalKinds
  <2>6. Ends(p, U, D, l, left) /\ \A b \in Parts : p.got[b] = 0 /\ Carried(D, b) = 0
    BY <2>2, <2>4 DEF Ends
  <2>7. Len(U) + Len(D) <= 1
    BY <2>2
  <2>8. Linked(p, U, D, l, left)
    BY <1>2, <2>5, <2>6, <2>7, Begun
  <2> QED BY <2>2, <2>8
<1>3. ASSUME U = <<>>, D = <<>>, ~l.waits
      PROVE  Linked(p, U, D, l, left) /\ U \in Seq(UpPackets) /\ D \in Seq(DownPackets)
  <2>1. /\ ~Has(U, AskKinds) /\ ~Has(D, AnswerKinds) /\ ~Has(D, {"Garbage"})
        /\ \A b \in Parts : Carried(D, b) = 0
    BY <1>3, FS_EmptySet DEF Has, Carried
  <2>2. U \in Seq(UpPackets) /\ D \in Seq(DownPackets) /\ Len(U) + Len(D) <= 1
    BY <1>3
  <2>3. Linked(p, U, D, l, left)
    BY <1>3, <2>1, <2>2, Begun DEF Ends, Greeting
  <2> QED BY <2>2, <2>3
<1>4. AnswerKinds \cap {"AcceptUpload", "QueueRanking"} = {}
  BY DEF AnswerKinds
<1> QED BY <1>1, <1>2, <1>3, <1>4

Rest(pipe) == [pipe EXCEPT !.wire = Tail(@)]
Longer(pipe, E) == [pipe EXCEPT !.out = @ \o E]

\* The client has read a packet.
LEMMA PeerTook ==
  ASSUME EndsOK, NEW c \in Clients, down[c].wire # <<>>
  PROVE  /\ Taken(down, c) = [down EXCEPT ![c] = Rest(down[c])]
         /\ Rest(down[c]) \in DownPipe /\ All(Rest(down[c])) = Tail(All(down[c]))
         /\ All(down[c]) # <<>> /\ Head(All(down[c])) = Head(down[c].wire)
         /\ Head(down[c].wire) \in DownPackets
<1>1. down[c] \in DownPipe /\ c \in DOMAIN down
  BY DEF EndsOK
<1>2. Taken(down, c) = [down EXCEPT ![c] = Rest(down[c])]
  BY <1>1, Zenon DEF Taken, Rest
<1> QED BY <1>1, <1>2, PipeParts DEF DownPipe, Rest

\* The session has read a packet.
LEMMA SessionTook ==
  ASSUME EndsOK, NEW c \in Clients, up[c].wire # <<>>
  PROVE  /\ Taken(up, c) = [up EXCEPT ![c] = Rest(up[c])]
         /\ Rest(up[c]) \in UpPipe /\ All(Rest(up[c])) = Tail(All(up[c]))
         /\ All(up[c]) # <<>> /\ Head(All(up[c])) = Head(up[c].wire)
         /\ Head(up[c].wire) \in UpPackets
<1>1. up[c] \in UpPipe /\ c \in DOMAIN up
  BY DEF EndsOK
<1>2. Taken(up, c) = [up EXCEPT ![c] = Rest(up[c])]
  BY <1>1, Zenon DEF Taken, Rest
<1> QED BY <1>1, <1>2, PipeParts DEF UpPipe, Rest

\* The client has queued packets.
LEMMA PeerQueued ==
  ASSUME EndsOK, NEW c \in Clients, NEW E \in Seq(UpPackets)
  PROVE  /\ Queued(up, c, E) = [up EXCEPT ![c] = Longer(up[c], E)]
         /\ Longer(up[c], E) \in UpPipe /\ All(Longer(up[c], E)) = All(up[c]) \o E
<1>1. up[c] \in [out : Seq(UpPackets), wire : Seq(UpPackets)]
  BY DEF EndsOK, UpPipe
<1>2. Queued(up, c, E) = [up EXCEPT ![c] = Longer(up[c], E)]
  BY Zenon DEF Queued, Longer
<1>3. /\ [up[c] EXCEPT !.out = @ \o E] \in [out : Seq(UpPackets), wire : Seq(UpPackets)]
      /\ All([up[c] EXCEPT !.out = @ \o E]) = All(up[c]) \o E
  BY <1>1, PipeLonger, Zenon
<1> QED BY <1>2, <1>3, Zenon DEF UpPipe, Longer

\* The session has queued packets.
LEMMA SessionQueued ==
  ASSUME EndsOK, NEW c \in Clients, NEW E \in Seq(DownPackets)
  PROVE  /\ Queued(down, c, E) = [down EXCEPT ![c] = Longer(down[c], E)]
         /\ Longer(down[c], E) \in DownPipe /\ All(Longer(down[c], E)) = All(down[c]) \o E
<1>1. down[c] \in [out : Seq(DownPackets), wire : Seq(DownPackets)]
  BY DEF EndsOK, DownPipe
<1>2. Queued(down, c, E) = [down EXCEPT ![c] = Longer(down[c], E)]
  BY Zenon DEF Queued, Longer
<1>3. /\ [down[c] EXCEPT !.out = @ \o E] \in [out : Seq(DownPackets), wire : Seq(DownPackets)]
      /\ All([down[c] EXCEPT !.out = @ \o E]) = All(down[c]) \o E
  BY <1>1, PipeLonger, Zenon
<1> QED BY <1>2, <1>3, Zenon DEF DownPipe, Longer

\* The answers to a greeting
LEMMA RepliesStep ==
  ASSUME ExInv, NEW c \in Clients, NEW kind \in AnswerKinds, NEW reply \in AskKinds,
         PeerReplies(c, kind, reply)
  PROVE  ExInv'
<1> DEFINE p == peer[c]
           u == Longer(up[c], <<Packet(reply)>>)
           d == Rest(down[c])
           l == Side(q, c)
<1>1. /\ EndsOK /\ p.on = "Open" /\ down[c].wire # <<>> /\ Head(down[c].wire).kind = kind
      /\ UNCHANGED vars /\ peer' = peer
  BY DEF PeerReplies, PeerGets, Arrived, ExInv
<1>2. Packet(reply) \in UpPackets
  BY DEF Packet, UpPackets
<1>3. /\ down' = [down EXCEPT ![c] = d] /\ d \in DownPipe /\ All(d) = Tail(All(down[c]))
      /\ All(down[c]) # <<>> /\ Head(All(down[c])).kind = kind
  BY <1>1, PeerTook DEF PeerReplies
<1>4. /\ up' = [up EXCEPT ![c] = u] /\ u \in UpPipe /\ All(u) = All(up[c]) \o <<Packet(reply)>>
  <2> DEFINE E == <<Packet(reply)>>
  <2>1. E \in Seq(UpPackets) /\ up' = Queued(up, c, E)
    BY <1>2 DEF PeerReplies
  <2> HIDE DEF E
  <2>2. up' = [up EXCEPT ![c] = Longer(up[c], E)] /\ Longer(up[c], E) \in UpPipe
        /\ All(Longer(up[c], E)) = All(up[c]) \o E
    BY <1>1, <2>1, PeerQueued
  <2> QED BY <2>2 DEF E
<1>5. /\ p \in PeerRec /\ peer' = [peer EXCEPT ![c] = p] /\ Fresh(p)
      /\ l \in SideRec /\ Leaving(c) \in BOOLEAN
      /\ Ends(p, All(up[c]), All(down[c]), l, Leaving(c))
      /\ Reached(c) /\ ~p.torn => Linked(p, All(up[c]), All(down[c]), l, Leaving(c))
  BY <1>1, TalkingEnds DEF EndsOK, ExInv, Leaving
<1> HIDE DEF p, u, d, l
<1>6. ASSUME Open(c), ~p.torn PROVE Linked(p, All(u), All(d), l, Leaving(c))
  <2>1. Linked(p, All(up[c]), All(down[c]), l, Leaving(c))
    BY <1>1, <1>5, <1>6 DEF Reached, p
  <2>2. /\ p.pending = {} /\ l.asked = {} /\ l.sent = {} /\ ~l.slot /\ ~l.waits /\ ~Leaving(c)
        /\ \A b \in Parts : p.got[b] = 0
        /\ All(up[c]) = <<>> /\ Tail(All(down[c])) = <<>>
    BY <1>3, <1>5, <2>1, LastTaken
  <2>3. All(u) = <<Packet(reply)>> /\ All(d) = <<>>
    BY <1>3, <1>4, <2>2
  <2> QED BY <1>5, <2>2, <2>3, OneLinked
<1> QED BY <1>1, <1>3, <1>4, <1>5, <1>6, PeerStep DEF l

\* RequestBlocks, whatever the client has made of what it read
LEMMA RequestStep ==
  ASSUME ExInv, UNCHANGED vars, NEW c \in Clients, NEW p \in PeerRec, p.on = "Open",
         NEW d \in DownPipe, RequestBlocks(c, p, [down EXCEPT ![c] = d]),
         Open(c) /\ ~p.torn =>
           Linked(p, All(up[c]), All(d), Side(q, c), Leaving(c)) /\ ~Greeting(All(up[c]), All(d))
  PROVE  ExInv'
<1>1. EndsOK /\ up[c] \in UpPipe /\ Side(q, c) \in SideRec /\ Leaving(c) \in BOOLEAN
  BY TalkingEnds DEF ExInv, Leaving
<1>2. Ends(p, All(up[c]), All(d), Side(q, c), Leaving(c))
  BY <1>1, PipeParts DEF Ends, UpPipe, DownPipe
<1>3. CASE p.pending # {} /\ peer' = [peer EXCEPT ![c] = p]
           /\ down' = [down EXCEPT ![c] = d] /\ UNCHANGED up
  <2>1. up' = [up EXCEPT ![c] = up[c]]
    BY <1>1, <1>3 DEF EndsOK
  <2> QED BY <1>1, <1>3, <2>1, PeerStep DEF Fresh
<1>4. CASE HangUp(c, p, [down EXCEPT ![c] = d])
  BY <1>4, HangUpStep
<1>5. ASSUME p.pending = {}, NEW S \in SUBSET p.want, S # {},
             peer' = [peer EXCEPT ![c] = [p EXCEPT !.pending = S]],
             up' = Queued(up, c, <<Request(S)>>), down' = [down EXCEPT ![c] = d]
      PROVE  ExInv'
  <2> DEFINE r == [p EXCEPT !.pending = S]
             u == Longer(up[c], <<Request(S)>>)
  <2>1. /\ r \in PeerRec /\ r.on = "Open" /\ r.want = p.want /\ r.pending = S /\ r.got = p.got
        /\ r.failed = p.failed /\ r.torn = p.torn
    BY DEF PeerRec
  <2>2. Request(S) \in UpPackets
    BY DEF Request, UpPackets, PeerRec
  <2>3. /\ up' = [up EXCEPT ![c] = u] /\ u \in UpPipe /\ All(u) = All(up[c]) \o <<Request(S)>>
    <3> DEFINE E == <<Request(S)>>
    <3>1. E \in Seq(UpPackets) /\ up' = Queued(up, c, E)
      BY <1>5, <2>2
    <3> HIDE DEF E
    <3>2. up' = [up EXCEPT ![c] = Longer(up[c], E)] /\ Longer(up[c], E) \in UpPipe
          /\ All(Longer(up[c], E)) = All(up[c]) \o E
      BY <1>1, <3>1, PeerQueued
    <3> QED BY <3>2 DEF E
  <2>4. peer' = [peer EXCEPT ![c] = r]
    BY <1>5
  <2> HIDE DEF r, u
  <2>5. ASSUME Open(c), ~r.torn PROVE Linked(r, All(u), All(d), Side(q, c), Leaving(c))
    BY <1>2, <1>5, <2>1, <2>3, <2>5, BlocksRequested
  <2> QED BY <1>5, <2>1, <2>3, <2>4, <2>5, PeerStep DEF Fresh
<1>6. \/ p.pending # {} /\ peer' = [peer EXCEPT ![c] = p]
         /\ down' = [down EXCEPT ![c] = d] /\ UNCHANGED up
      \/ HangUp(c, p, [down EXCEPT ![c] = d])
      \/ p.pending = {} /\ \E S \in (SUBSET p.want) \ {{}} :
           /\ peer' = [peer EXCEPT ![c] = [p EXCEPT !.pending = S]]
           /\ up' = Queued(up, c, <<Request(S)>>) /\ down' = [down EXCEPT ![c] = d]
  BY DEF RequestBlocks
<1>7. ASSUME p.pending = {},
             \E S \in (SUBSET p.want) \ {{}} :
               /\ peer' = [peer EXCEPT ![c] = [p EXCEPT !.pending = S]]
               /\ up' = Queued(up, c, <<Request(S)>>) /\ down' = [down EXCEPT ![c] = d]
      PROVE  ExInv'
  <2>1. PICK S \in (SUBSET p.want) \ {{}} :
          /\ peer' = [peer EXCEPT ![c] = [p EXCEPT !.pending = S]]
          /\ up' = Queued(up, c, <<Request(S)>>) /\ down' = [down EXCEPT ![c] = d]
    BY <1>7, Zenon
  <2>2. S \in SUBSET p.want /\ S # {} /\ p.pending = {}
    BY <1>7, <2>1, Zenon
  <2> QED BY <1>5, <2>1, <2>2
<1> QED BY <1>3, <1>4, <1>6, <1>7

\* The client is given a slot.
LEMMA AcceptStepOfPeer ==
  ASSUME ExInv, NEW c \in Clients, HandleAcceptUpload(c)
  PROVE  ExInv'
<1> DEFINE p == peer[c]
           d == Rest(down[c])
<1>1. /\ EndsOK /\ p.on = "Open" /\ down[c].wire # <<>> /\ Head(down[c].wire).kind = "AcceptUpload"
      /\ UNCHANGED vars
  BY DEF HandleAcceptUpload, PeerGets, Arrived, ExInv
<1>2. /\ Taken(down, c) = [down EXCEPT ![c] = d] /\ d \in DownPipe
      /\ All(d) = Tail(All(down[c]))
      /\ All(down[c]) # <<>> /\ Head(All(down[c])).kind = "AcceptUpload"
  BY <1>1, PeerTook
<1>3. RequestBlocks(c, p, [down EXCEPT ![c] = d])
  BY <1>2 DEF HandleAcceptUpload
<1>4. /\ p \in PeerRec /\ Ends(p, All(up[c]), All(down[c]), Side(q, c), Leaving(c))
      /\ Open(c) /\ ~p.torn => Linked(p, All(up[c]), All(down[c]), Side(q, c), Leaving(c))
  BY <1>1, TalkingEnds DEF Reached
<1> HIDE DEF p, d
<1>5. ASSUME Open(c), ~p.torn
      PROVE  Linked(p, All(up[c]), All(d), Side(q, c), Leaving(c)) /\ ~Greeting(All(up[c]), All(d))
  BY <1>2, <1>4, <1>5, AcceptTaken
<1> QED BY <1>1, <1>2, <1>3, <1>4, <1>5, RequestStep

\* Nothing is skipped, unless a write was torn.
LEMMA SkipStep ==
  ASSUME ExInv, NEW c \in Clients, SkipPendingData(c)
  PROVE  ExInv'
<1> DEFINE p == peer[c]
           d == Rest(down[c])
           D == All(down[c])
<1>1. /\ EndsOK /\ p.on = "Open" /\ down[c].wire # <<>> /\ Head(down[c].wire).kind \in DataKinds
      /\ UNCHANGED vars /\ Head(down[c].wire).ranges \cap p.pending = {}
  BY DEF SkipPendingData, PeerGets, Arrived, ExInv, DataKinds
<1>2. /\ Taken(down, c) = [down EXCEPT ![c] = d] /\ d \in DownPipe
      /\ D # <<>> /\ Head(D).kind \in DataKinds /\ Head(D) \in DownPackets
      /\ Head(D).ranges \cap p.pending = {}
  BY <1>1, PeerTook
<1>3. RequestBlocks(c, p, [down EXCEPT ![c] = d])
  BY <1>2 DEF SkipPendingData
<1>4. /\ p \in PeerRec /\ Ends(p, All(up[c]), D, Side(q, c), Leaving(c))
      /\ Open(c) /\ ~p.torn => Linked(p, All(up[c]), D, Side(q, c), Leaving(c))
  BY <1>1, TalkingEnds DEF Reached
<1> HIDE DEF p, d, D
<1>5. ~(Open(c) /\ ~p.torn)
  <2> SUFFICES ASSUME Linked(p, All(up[c]), D, Side(q, c), Leaving(c)) PROVE FALSE
    BY <1>4
  <2>1. D \in Seq(DownPackets)
    BY <1>4 DEF Ends
  <2>2. PICK b \in Parts : Head(D).ranges = {b} /\ Head(D) \in DataOf(b)
    BY <1>2, DataIsOfOne
  <2>4. Carried(D, b) = Carried(Tail(D), b) + 1
    BY <1>2, <2>1, <2>2, CarriedByRest
  <2>5. Carried(Tail(D), b) \in Nat /\ p.got[b] \in Nat
    <3>1. Tail(D) \in Seq(DownPackets)
      BY <1>2, <2>1
    <3> QED BY <1>4, <3>1, CarriedIsNat, DueIsNat
  <2>6. Due(p, D, b) > 0
    BY <2>4, <2>5 DEF Due
  <2>7. b \in p.pending
    BY <2>6 DEF Linked, Staged
  <2> QED BY <1>2, <2>2, <2>7
<1> QED BY <1>1, <1>2, <1>3, <1>4, <1>5, RequestStep

\* ReceivePendingData
LEMMA ReceiveStep ==
  ASSUME ExInv, NEW c \in Clients, NEW b \in Parts, ReceivePart(c, b)
  PROVE  ExInv'
<1> DEFINE p == peer[c]
           d == Rest(down[c])
           D == All(down[c])
           bad == Arrived(down, c, "DamagedPart")
           n == p.got[b] + 1
           part == [p EXCEPT !.got[b] = n, !.bad = IF bad THEN @ \union {b} ELSE @]
           done == [part EXCEPT !.got[b] = 0, !.want = @ \ {b}, !.pending = @ \ {b}]
<1>1. /\ EndsOK /\ p.on = "Open" /\ down[c].wire # <<>> /\ Head(down[c].wire).kind \in DataKinds
      /\ UNCHANGED vars /\ b \in Head(down[c].wire).ranges
  BY DEF ReceivePart, PeerGets, Arrived, ExInv, DataKinds
<1>2. /\ Taken(down, c) = [down EXCEPT ![c] = d] /\ d \in DownPipe /\ All(d) = Tail(D)
      /\ D # <<>> /\ Head(D) \in DataOf(b)
  BY <1>1, PeerTook, NotData
<1>3. \/ n >= PacketsPerRange /\ RequestBlocks(c, done, [down EXCEPT ![c] = d])
      \/ /\ peer' = [peer EXCEPT ![c] = part] /\ up' = up
         /\ down' = [down EXCEPT ![c] = d]
  <2>1. \/ CompleteBlock(n) /\ RequestBlocks(c, done, Taken(down, c))
        \/ peer' = [peer EXCEPT ![c] = part] /\ UNCHANGED up /\ down' = Taken(down, c)
    BY Zenon DEF ReceivePart
  <2> HIDE DEF p, d, D, bad, n, part, done
  <2> QED BY <1>2, <2>1 DEF CompleteBlock
<1>4. /\ p \in PeerRec /\ Ends(p, All(up[c]), D, Side(q, c), Leaving(c))
      /\ Open(c) /\ ~p.torn => Linked(p, All(up[c]), D, Side(q, c), Leaving(c))
      /\ up[c] \in UpPipe
  BY <1>1, TalkingEnds DEF Reached
<1>5. p.got[b] \in Nat /\ n \in Nat
  BY <1>4, DueIsNat DEF Ends
<1> HIDE DEF p, d, D, bad, n
<1>6. /\ part \in PeerRec /\ part.on = p.on /\ part.torn = p.torn /\ part.failed = p.failed
      /\ part.got = [p.got EXCEPT ![b] = n] /\ part.want = p.want /\ part.pending = p.pending
  BY <1>4, <1>5 DEF PeerRec
<1> HIDE DEF part
<1>7. /\ done \in PeerRec /\ done.on = p.on /\ done.torn = p.torn /\ done.failed = p.failed
      /\ done.got = [part.got EXCEPT ![b] = 0] /\ done.want = p.want \ {b}
      /\ done.pending = p.pending \ {b}
  BY <1>6 DEF PeerRec
<1> HIDE DEF done
<1>8. done.got = [p.got EXCEPT ![b] = 0]
  BY <1>6, <1>7
<1>9. CASE n >= PacketsPerRange /\ RequestBlocks(c, done, [down EXCEPT ![c] = d])
  <2>1. ASSUME Open(c), ~done.torn
        PROVE  Linked(done, All(up[c]), All(d), Side(q, c), Leaving(c)) /\ ~Greeting(All(up[c]), All(d))
    <3>1. p.got[b] + 1 >= PacketsPerRange
      BY <1>9 DEF n
    <3>2. Linked(p, All(up[c]), D, Side(q, c), Leaving(c))
      BY <1>4, <1>7, <2>1
    <3>3. Receives(done, p, b)
      BY <1>7, <1>8, <3>1 DEF Receives
    <3>4. Linked(done, All(up[c]), Tail(D), Side(q, c), Leaving(c)) /\ ~Greeting(All(up[c]), Tail(D))
      BY <1>2, <1>4, <1>7, <3>2, <3>3, DataTaken
    <3> QED BY <1>2, <3>4
  <2> QED BY <1>1, <1>2, <1>7, <1>9, <2>1, RequestStep
<1>10. CASE peer' = [peer EXCEPT ![c] = part] /\ up' = up /\ down' = [down EXCEPT ![c] = d]
  <2>1. ASSUME Open(c), ~part.torn
        PROVE  Linked(part, All(up[c]), All(d), Side(q, c), Leaving(c))
    <3>1. part.got = [p.got EXCEPT ![b] = p.got[b] + 1]
      BY <1>6 DEF n
    <3>2. Linked(p, All(up[c]), D, Side(q, c), Leaving(c))
      BY <1>4, <1>6, <2>1
    <3>3. Receives(part, p, b)
      BY <1>6, <3>1 DEF Receives
    <3>4. Linked(part, All(up[c]), Tail(D), Side(q, c), Leaving(c)) /\ ~Greeting(All(up[c]), Tail(D))
      BY <1>2, <1>4, <1>6, <3>2, <3>3, DataTaken
    <3> QED BY <1>2, <3>4
  <2>2. up' = [up EXCEPT ![c] = up[c]] /\ Fresh(part)
    BY <1>1, <1>6, <1>10 DEF EndsOK, Fresh
  <2> QED BY <1>1, <1>2, <1>4, <1>6, <1>10, <2>1, <2>2, PeerStep
<1> QED BY <1>3, <1>9, <1>10

\* Connection.Close of a client, on a refusal, an error or a timeout
LEMMA ClosesStep ==
  ASSUME ExInv, UNCHANGED vars, NEW c \in Clients, HangUp(c, peer[c], down)
  PROVE  ExInv'
<1>1. peer[c] \in PeerRec /\ down[c] \in DownPipe /\ down = [down EXCEPT ![c] = down[c]]
  BY TalkingEnds DEF ExInv, EndsOK
<1>2. HangUp(c, peer[c], [down EXCEPT ![c] = down[c]])
  BY <1>1
<1> QED BY <1>1, <1>2, HangUpStep

\* What is read in the middle of a packet is behind a write that was torn.
LEMMA GarbageStep ==
  ASSUME ExInv, NEW c \in Clients, SkipGarbage(c)
  PROVE  ExInv'
<1> DEFINE w == down[c].wire
           D == All(down[c])
<1>1. /\ UNCHANGED vars /\ peer' = peer /\ up' = up /\ peer[c].on = "Open"
      /\ w # <<>> /\ Head(w).kind = "Garbage"
  BY DEF SkipGarbage, PeerGets, Arrived
<1>2. /\ peer[c] \in PeerRec /\ up[c] \in UpPipe /\ down[c] \in DownPipe
      /\ Ends(peer[c], All(up[c]), D, Side(q, c), Leaving(c))
      /\ Reached(c) /\ ~peer[c].torn =>
           Linked(peer[c], All(up[c]), D, Side(q, c), Leaving(c))
      /\ EndsOK
  BY TalkingEnds DEF ExInv
<1>3. Has(D, {"Garbage"})
  <2>1. D # <<>> /\ Head(D) = Head(w) /\ D \in Seq(DownPackets)
    BY <1>1, <1>2, PeerTook DEF Ends
  <2> HIDE DEF D, w
  <2> QED BY <1>1, <2>1, HasRest
<1>4. PICK n \in DOMAIN w : down' = [down EXCEPT ![c].wire = SubSeq(@, n + 1, Len(@))]
  BY DEF SkipGarbage
<1> DEFINE d == [down[c] EXCEPT !.wire = SubSeq(@, n + 1, Len(@))]
<1>5. down' = [down EXCEPT ![c] = d]
  BY <1>4, Zenon
<1>6. d \in DownPipe
  <2> DEFINE x == SubSeq(w, n + 1, Len(w))
  <2>1. w \in Seq(DownPackets)
    BY <1>2 DEF DownPipe
  <2>2. x \in Seq(DownPackets)
    <3> HIDE DEF w
    <3>1. n \in 1..Len(w) /\ Len(w) \in Nat
      BY <1>4, <2>1
    <3>2. \A i \in n + 1..Len(w) : w[i] \in DownPackets
      BY <2>1, <3>1
    <3> QED BY <3>1, <3>2, SubSeqProperties, <2>1
  <2> HIDE DEF x
  <2>3. [down[c] EXCEPT !.wire = x] \in DownPipe
    BY <1>2, <2>2 DEF DownPipe
  <2> QED BY <2>3 DEF x
<1>7. ~(Open(c) /\ ~peer[c].torn)
  BY <1>1, <1>2, <1>3 DEF Linked, Orderly, Reached
<1>8. peer' = [peer EXCEPT ![c] = peer[c]] /\ up' = [up EXCEPT ![c] = up[c]] /\ Fresh(peer[c])
  BY <1>1, <1>2 DEF EndsOK, ExInv
<1> HIDE DEF d, D, w
<1> QED BY <1>1, <1>2, <1>5, <1>6, <1>7, <1>8, PeerStep

\* OnDisconnect of the client
LEMMA PeerDisconnectsStep ==
  ASSUME ExInv, NEW c \in Clients, PeerDisconnects(c)
  PROVE  ExInv'
<1> DEFINE p == [peer[c] EXCEPT !.on = "None", !.pending = {}, !.got = [b \in Parts |-> 0],
                                !.bad = @ \ peer[c].want]
<1>1. /\ UNCHANGED vars /\ up' = up /\ down' = down
      /\ peer' = [peer EXCEPT ![c] = p]
  BY DEF PeerDisconnects
<1>2. peer[c] \in PeerRec /\ up[c] \in UpPipe /\ down[c] \in DownPipe /\ EndsOK
  BY TalkingEnds DEF ExInv
<1>3. /\ p \in PeerRec /\ p.on = "None" /\ p.pending = {}
      /\ p.got = [b \in Parts |-> 0]
  BY <1>2 DEF PeerRec, PeerStates
<1>4. up' = [up EXCEPT ![c] = up[c]] /\ down' = [down EXCEPT ![c] = down[c]]
  BY <1>1, <1>2 DEF EndsOK
<1> HIDE DEF p
<1>5. Fresh(p)
  BY <1>3 DEF Fresh
<1> QED BY <1>1, <1>2, <1>3, <1>4, <1>5, PeerStep

\* OnPieceHashCompleted
LEMMA HashFailsStep ==
  ASSUME ExInv, NEW c \in Clients, NEW b \in Parts, HashFails(c, b)
  PROVE  ExInv'
<1> DEFINE p == peer[c]
           r == [p EXCEPT !.bad = @ \ {b}, !.want = @ \union {b}, !.failed = @ \union {b}]
<1>1. /\ UNCHANGED vars /\ up' = up /\ down' = down /\ peer' = [peer EXCEPT ![c] = r]
      /\ b \notin p.want
  BY DEF HashFails
<1>2. /\ p \in PeerRec /\ up[c] \in UpPipe /\ down[c] \in DownPipe /\ EndsOK
      /\ Ends(p, All(up[c]), All(down[c]), Side(q, c), Leaving(c))
      /\ Reached(c) /\ ~p.torn => Linked(p, All(up[c]), All(down[c]), Side(q, c), Leaving(c))
      /\ Fresh(p)
  BY TalkingEnds DEF ExInv
<1>3. up' = [up EXCEPT ![c] = up[c]] /\ down' = [down EXCEPT ![c] = down[c]]
  BY <1>1, <1>2 DEF EndsOK
<1>4. p.on = "Open" => (Open(c) => Reached(c))
  BY DEF Reached
<1> HIDE DEF p
<1>5. /\ r \in PeerRec /\ r.want = p.want \cup {b} /\ r.failed = p.failed \cup {b}
      /\ r.pending = p.pending /\ r.got = p.got /\ r.on = p.on /\ r.torn = p.torn
  BY <1>2 DEF PeerRec
<1> HIDE DEF r
<1>6. ASSUME Open(c), r.on = "Open", ~r.torn
      PROVE  Linked(r, All(up[c]), All(down[c]), Side(q, c), Leaving(c))
  BY <1>1, <1>2, <1>4, <1>5, <1>6, BlockFailed
<1>7. Fresh(r)
  BY <1>2, <1>5 DEF Fresh
<1>8. /\ r \in PeerRec /\ up[c] \in UpPipe /\ down[c] \in DownPipe
      /\ UNCHANGED vars /\ peer' = [peer EXCEPT ![c] = r]
  BY <1>1, <1>2, <1>5
<1> QED BY <1>3, <1>6, <1>7, <1>8, PeerStep

\* FlushOutgoing of the client: the packet moves to the wire.
LEMMA FlushUpStep ==
  ASSUME ExInv, NEW c \in Clients, FlushUp(c)
  PROVE  ExInv'
<1> DEFINE o == up[c].out
           w == up[c].wire
           u == [out |-> Tail(o), wire |-> w \o IF Open(c) THEN <<Head(o)>> ELSE <<>>]
           f == [out |-> Tail(o), wire |-> w \o <<Head(o)>>]
<1>1. /\ UNCHANGED vars /\ peer' = peer /\ down' = down /\ o # <<>> /\ peer[c].on = "Open"
      /\ up' = [up EXCEPT ![c] = u]
  BY Zenon DEF FlushUp, Flushed
<1>2. /\ peer[c] \in PeerRec /\ up[c] \in UpPipe /\ down[c] \in DownPipe /\ EndsOK
      /\ Reached(c) /\ ~peer[c].torn =>
           Linked(peer[c], All(up[c]), All(down[c]), Side(q, c), Leaving(c))
      /\ Fresh(peer[c])
  BY TalkingEnds DEF ExInv
<1>3. f \in UpPipe /\ All(f) = All(up[c])
  BY <1>1, <1>2, PipeParts DEF UpPipe
<1>4. Open(c) => u = f
  OBVIOUS
<1>5. u \in UpPipe
  <2>1. o \in Seq(UpPackets) /\ w \in Seq(UpPackets)
    BY <1>2 DEF UpPipe
  <2> HIDE DEF o, w
  <2>2. Tail(o) \in Seq(UpPackets) /\ w \o <<>> \in Seq(UpPackets)
    BY <1>1, <2>1
  <2>3. ~Open(c) => u \in UpPipe
    BY <2>2 DEF UpPipe
  <2> QED BY <1>3, <1>4, <2>3
<1>6. peer' = [peer EXCEPT ![c] = peer[c]] /\ down' = [down EXCEPT ![c] = down[c]]
  BY <1>1, <1>2 DEF EndsOK
<1> HIDE DEF u, f, o, w
<1>7. ASSUME Open(c), peer[c].on = "Open", ~peer[c].torn
      PROVE  Linked(peer[c], All(u), All(down[c]), Side(q, c), Leaving(c))
  BY <1>2, <1>3, <1>4, <1>7 DEF Reached
<1> QED BY <1>1, <1>2, <1>5, <1>6, <1>7, PeerStep

\* FlushOutgoing of the session
LEMMA FlushDownStep ==
  ASSUME ExInv, NEW c \in Clients, FlushDown(c)
  PROVE  ExInv'
<1> DEFINE o == down[c].out
           w == down[c].wire
           d == [out |-> Tail(o), wire |-> w \o IF Reached(c) THEN <<Head(o)>> ELSE <<>>]
           f == [out |-> Tail(o), wire |-> w \o <<Head(o)>>]
<1>1. /\ UNCHANGED vars /\ peer' = peer /\ up' = up /\ o # <<>>
      /\ down' = [down EXCEPT ![c] = d]
  BY Zenon DEF FlushDown, Flushed
<1>2. /\ peer[c] \in PeerRec /\ up[c] \in UpPipe /\ down[c] \in DownPipe /\ EndsOK
      /\ Reached(c) /\ ~peer[c].torn =>
           Linked(peer[c], All(up[c]), All(down[c]), Side(q, c), Leaving(c))
      /\ Fresh(peer[c])
  BY TalkingEnds DEF ExInv
<1>3. f \in DownPipe /\ All(f) = All(down[c])
  BY <1>1, <1>2, PipeParts DEF DownPipe
<1>4. Reached(c) => d = f
  OBVIOUS
<1>5. d \in DownPipe
  <2>1. o \in Seq(DownPackets) /\ w \in Seq(DownPackets)
    BY <1>2 DEF DownPipe
  <2> HIDE DEF o, w
  <2>2. Tail(o) \in Seq(DownPackets) /\ w \o <<>> \in Seq(DownPackets)
    BY <1>1, <2>1
  <2>3. ~Reached(c) => d \in DownPipe
    BY <2>2 DEF DownPipe
  <2> QED BY <1>3, <1>4, <2>3
<1>6. peer' = [peer EXCEPT ![c] = peer[c]] /\ up' = [up EXCEPT ![c] = up[c]]
  BY <1>1, <1>2 DEF EndsOK
<1>7. Open(c) /\ peer[c].on = "Open" => Reached(c)
  BY DEF Reached
<1> HIDE DEF d, f, o, w
<1>8. ASSUME Open(c), peer[c].on = "Open", ~peer[c].torn
      PROVE  Linked(peer[c], All(up[c]), All(d), Side(q, c), Leaving(c))
  BY <1>2, <1>3, <1>4, <1>7, <1>8
<1> QED BY <1>1, <1>2, <1>5, <1>6, <1>8, PeerStep

\* What lies between the two is lost, damaged or torn.
LEMMA VanishesStep ==
  ASSUME ExInv, NEW c \in Clients, PeerVanishes(c)
  PROVE  ExInv'
<1> DEFINE p == [peer[c] EXCEPT !.on = "Gone"]
           u == [up[c] EXCEPT !.out = <<>>]
           d == [down[c] EXCEPT !.wire = <<>>]
<1>1. /\ UNCHANGED vars /\ peer' = [peer EXCEPT ![c] = p]
      /\ up' = [up EXCEPT ![c] = u] /\ down' = [down EXCEPT ![c] = d]
  BY Zenon DEF PeerVanishes
<1>2. peer[c] \in PeerRec /\ up[c] \in UpPipe /\ down[c] \in DownPipe
  BY TalkingEnds
<1>3. p \in PeerRec /\ p.on = "Gone"
  BY <1>2 DEF PeerRec, PeerStates
<1>4. u \in UpPipe /\ d \in DownPipe
  <2>1. <<>> \in Seq(UpPackets) /\ <<>> \in Seq(DownPackets)
    OBVIOUS
  <2> QED BY <1>2, <2>1 DEF UpPipe, DownPipe
<1> HIDE DEF p, u, d
<1> QED BY <1>1, <1>3, <1>4, PeerStep DEF Fresh

\* A packet with data is damaged.
LEMMA DamageStep ==
  ASSUME ExInv, NEW c \in Clients, NEW b \in Parts, DamagePart(c, b)
  PROVE  ExInv'
<1> DEFINE o == down[c].out
           w == down[c].wire
           d == [out |-> Tail(o), wire |-> w \o <<DamagedPart(b)>>]
<1>1. /\ UNCHANGED vars /\ peer' = peer /\ up' = up /\ o # <<>> /\ Reached(c)
      /\ down' = [down EXCEPT ![c] = d] /\ Head(o) = Part(b)
  BY Zenon DEF DamagePart, Flushed
<1>2. /\ peer[c] \in PeerRec /\ up[c] \in UpPipe /\ down[c] \in DownPipe /\ EndsOK
      /\ Ends(peer[c], All(up[c]), All(down[c]), Side(q, c), Leaving(c))
      /\ Reached(c) /\ ~peer[c].torn =>
           Linked(peer[c], All(up[c]), All(down[c]), Side(q, c), Leaving(c))
      /\ Fresh(peer[c])
  BY TalkingEnds DEF ExInv
<1>3. o \in Seq(DownPackets) /\ w \in Seq(DownPackets) /\ All(down[c]) = w \o o
  BY <1>2 DEF DownPipe, All
<1>4. d \in DownPipe /\ All(d) = (w \o <<DamagedPart(b)>>) \o Tail(o)
  <2>1. d.out = Tail(o) /\ d.wire = w \o <<DamagedPart(b)>>
    OBVIOUS
  <2>2. DamagedPart(b) \in DownPackets
    BY DEF DamagedPart, DownPackets, DataKinds
  <2> HIDE DEF o, w
  <2>3. Tail(o) \in Seq(DownPackets) /\ w \o <<DamagedPart(b)>> \in Seq(DownPackets)
    BY <1>1, <1>3, <2>2
  <2>4. d \in DownPipe
    BY <2>3 DEF DownPipe
  <2> HIDE DEF d
  <2> QED BY <2>1, <2>4 DEF All
<1>5. peer' = [peer EXCEPT ![c] = peer[c]] /\ up' = [up EXCEPT ![c] = up[c]]
  BY <1>1, <1>2 DEF EndsOK
<1> HIDE DEF d, o, w
<1>6. ASSUME ~peer[c].torn
      PROVE  Linked(peer[c], All(up[c]), All(d), Side(q, c), Leaving(c))
  <2>1. /\ Linked(peer[c], All(up[c]), w \o o, Side(q, c), Leaving(c))
        /\ Ends(peer[c], All(up[c]), w \o o, Side(q, c), Leaving(c))
    BY <1>1, <1>2, <1>3, <1>6
  <2> QED BY <1>1, <1>3, <1>4, <2>1, PacketDamaged
<1> QED BY <1>1, <1>2, <1>4, <1>5, <1>6, PeerStep

\* A write is torn; the client is not followed any more.
LEMMA TornStep ==
  ASSUME ExInv, NEW c \in Clients, FlushTimesOut(c)
  PROVE  ExInv'
<1> DEFINE o == down[c].out
           w == down[c].wire
           p == [peer[c] EXCEPT !.torn = TRUE]
<1>1. /\ UNCHANGED vars /\ up' = up /\ o # <<>> /\ peer' = [peer EXCEPT ![c] = p]
  BY DEF FlushTimesOut
<1>2. /\ peer[c] \in PeerRec /\ up[c] \in UpPipe /\ down[c] \in DownPipe /\ EndsOK
      /\ Fresh(peer[c])
  BY TalkingEnds DEF ExInv
<1>3. PICK s \in Seq(DownPackets) : down' = Flushed(down, c, s)
  <2>1. Garbage \in DownPackets /\ \A b \in Parts : DamagedPart(b) \in DownPackets
    BY DEF Garbage, Packet, DamagedPart, DownPackets, DataKinds
  <2>2. <<Garbage>> \in Seq(DownPackets) /\ \A b \in Parts : <<DamagedPart(b), Garbage>> \in Seq(DownPackets)
    BY <2>1
  <2>3. \/ down' = Flushed(down, c, <<Garbage>>)
        \/ \E b \in Parts : down' = Flushed(down, c, <<DamagedPart(b), Garbage>>)
    BY Zenon DEF FlushTimesOut
  <2> QED BY <2>2, <2>3, Zenon
<1> DEFINE d == [out |-> Tail(o), wire |-> w \o s]
<1>4. down' = [down EXCEPT ![c] = d]
  BY <1>3, Zenon DEF Flushed
<1>5. d \in DownPipe
  <2>1. o \in Seq(DownPackets) /\ w \in Seq(DownPackets)
    BY <1>2 DEF DownPipe
  <2> HIDE DEF o, w
  <2>2. Tail(o) \in Seq(DownPackets) /\ w \o s \in Seq(DownPackets)
    BY <1>1, <2>1
  <2> QED BY <2>2 DEF DownPipe
<1>6. /\ p \in PeerRec /\ p.torn /\ p.on = peer[c].on /\ p.pending = peer[c].pending
      /\ p.got = peer[c].got /\ up' = [up EXCEPT ![c] = up[c]]
  BY <1>1, <1>2 DEF PeerRec, EndsOK
<1> HIDE DEF p, d, o, w
<1>7. Fresh(p)
  BY <1>2, <1>6 DEF Fresh
<1> QED BY <1>1, <1>2, <1>4, <1>5, <1>6, <1>7, PeerStep

\* The session answers or refuses a client that greets.
LEMMA GreetedStep ==
  ASSUME ExInv, IInv', NEW c \in Clients, NEW kind \in AskKinds,
         NEW packets \in {<<Packet(k)>> : k \in AnswerKinds \cup {"AcceptUpload", "QueueRanking"}}
                         \cup {<<>>},
         SessionReplies(c, kind, packets), UNCHANGED <<conn, suspending, peer>>,
         \A e \in Clients \ {c} : Side(q', e) = Side(q, e),
         Side(q', c) \in SideRec, Side(q', c).asked = q.asked[c], Side(q', c).sent = q.sent[c],
         packets \in {<<Packet(k)>> : k \in AnswerKinds} => Side(q', c) = Side(q, c),
         Side(q', c).waits => packets = <<Packet("QueueRanking")>> \/ Side(q, c).waits
  PROVE  ExInv'
<1> DEFINE p == peer[c]
           u == Rest(up[c])
           d == Longer(down[c], packets)
           l == Side(q, c)
           m == Side(q', c)
<1>1. /\ EndsOK /\ Open(c) /\ up[c].wire # <<>> /\ Head(up[c].wire).kind = kind
      /\ up' = Taken(up, c) /\ down' = Queued(down, c, packets)
  BY DEF SessionReplies, SessionGets, Arrived, ExInv
<1>2. packets \in Seq(DownPackets)
  <2>1. \A k \in AnswerKinds \cup {"AcceptUpload", "QueueRanking"} : Packet(k) \in DownPackets
    BY DEF Packet, DownPackets, RefusalKinds
  <2>2. ASSUME NEW k \in AnswerKinds \cup {"AcceptUpload", "QueueRanking"}
        PROVE  <<Packet(k)>> \in Seq(DownPackets)
    BY <2>1
  <2>3. <<>> \in Seq(DownPackets)
    OBVIOUS
  <2> QED BY <2>2, <2>3
<1>3. /\ up' = [up EXCEPT ![c] = u] /\ u \in UpPipe /\ All(u) = Tail(All(up[c]))
      /\ All(up[c]) # <<>> /\ Head(All(up[c])).kind \in AskKinds
  BY <1>1, SessionTook
<1>4. /\ down' = [down EXCEPT ![c] = d] /\ d \in DownPipe /\ All(d) = All(down[c]) \o packets
  BY <1>1, <1>2, SessionQueued
<1>5. /\ p \in PeerRec /\ peer' = [peer EXCEPT ![c] = p] /\ Fresh(p)
      /\ l \in SideRec /\ Leaving(c) \in BOOLEAN
      /\ Ends(p, All(up[c]), All(down[c]), l, Leaving(c))
      /\ Reached(c) /\ ~p.torn => Linked(p, All(up[c]), All(down[c]), l, Leaving(c))
  BY <1>1, TalkingEnds DEF EndsOK, ExInv, Leaving
<1>6. l.asked = q.asked[c] /\ l.sent = q.sent[c]
  BY DEF Side
<1>7. LoopOK' /\ \A e \in Clients : Leaving(e)' = Leaving(e)
  BY DEF ExInv, LoopOK, Leaving
<1> HIDE DEF p, u, d, l, m
<1>8. ASSUME p.on = "Open", ~p.torn PROVE Linked(p, All(u), All(d), m, Leaving(c))
  <2>1. Linked(p, All(up[c]), All(down[c]), l, Leaving(c))
    BY <1>1, <1>5, <1>8 DEF Reached, p
  <2>2. /\ p.pending = {} /\ l.asked = {} /\ l.sent = {} /\ ~l.slot /\ ~l.waits /\ ~Leaving(c)
        /\ \A b \in Parts : p.got[b] = 0
        /\ All(down[c]) = <<>> /\ Tail(All(up[c])) = <<>>
    BY <1>3, <1>5, <2>1, LastTaken
  <2>3. All(u) = <<>> /\ All(d) = packets
    BY <1>2, <1>3, <1>4, <2>2
  <2>4. m.asked = {} /\ m.sent = {} /\ m \in SideRec
    BY <1>6, <2>2 DEF m
  <2>5. \/ \E k \in AnswerKinds : packets = <<Packet(k)>> /\ ~m.slot /\ ~m.waits
        \/ packets = <<Packet("AcceptUpload")>> /\ ~m.waits
        \/ packets = <<Packet("QueueRanking")>>
        \/ packets = <<>> /\ ~m.waits
    <3>1. CASE \E k \in AnswerKinds : packets = <<Packet(k)>>
      BY <2>2, <3>1 DEF l, m
    <3>2. CASE packets = <<Packet("AcceptUpload")>>
      <4>1. packets # <<Packet("QueueRanking")>>
        BY <3>2 DEF Packet
      <4> QED BY <2>2, <3>2, <4>1 DEF l, m
    <3>3. CASE packets = <<>>
      <4>1. packets # <<Packet("QueueRanking")>>
        BY <3>3
      <4> QED BY <2>2, <3>3, <4>1 DEF l, m
    <3> QED BY <3>1, <3>2, <3>3
  <2> QED BY <1>5, <2>2, <2>3, <2>4, <2>5, OneLinked
<1>9. \A e \in Clients \ {c} :
        Side(q', e) = Side(q, e) /\ conn'[e] = conn[e] /\ (Leaving(e)' <=> Leaving(e))
  BY <1>7
<1>10. conn'[c] = "Open" /\ p.on = "Open" /\ ~p.torn =>
         Linked(p, All(u), All(d), Side(q', c), Leaving(c)')
  BY <1>7, <1>8 DEF m
<1> QED BY <1>3, <1>4, <1>5, <1>7, <1>9, <1>10, OwnStep

-----------------------------------------------------------------------------
(* Steps of the session.                                                   *)

\* What is left to show of the invariant of the queue
LEMMA QueueInv ==
  ASSUME Sound(q'), OthersOK', Connections'
  PROVE  IInv'
  BY DEF IInv, Sound, TypeOK, QueueType, OthersOK

\* A queue has its fields, and a client in one list at most.
LEMMA QueueFields ==
  ASSUME NEW r, Sound(r)
  PROVE  Fields(r) /\ \A c \in Clients : c \notin Waiting(r) \/ c \notin Uploading(r)
<1>1. Fields(r)
  BY DEF Sound, QueueType, Fields
<1>2. ASSUME NEW c \in Clients PROVE c \notin Waiting(r) \/ c \notin Uploading(r)
  BY DEF Sound, Placed
<1> QED BY <1>1, <1>2

\* The session closes the connection of c.
LEMMA CloseStep ==
  ASSUME ExInv, NEW c \in Clients, CloseSession(c), UNCHANGED peer
  PROVE  ExInv'
<1> DEFINE p == peer[c]
           u == [up[c] EXCEPT !.wire = <<>>]
           d == [down[c] EXCEPT !.out = <<>>]
<1>1. IInv'
  <2>1. Close(c)
    BY DEF CloseSession
  <2>2. Next
    BY <2>1 DEF Next
  <2> QED BY <2>2, NextSound DEF ExInv
<1>2. /\ EndsOK /\ p \in PeerRec /\ up[c] \in UpPipe /\ down[c] \in DownPipe /\ Fresh(p)
      /\ IInv
  BY TalkingEnds DEF ExInv
<1>3. /\ up' = [up EXCEPT ![c] = u] /\ down' = [down EXCEPT ![c] = d]
      /\ peer' = [peer EXCEPT ![c] = p] /\ q' = q /\ suspending' = suspending
      /\ conn' = [conn EXCEPT ![c] = "Closing"]
  BY <1>2 DEF CloseSession, Close, EndsOK
<1>4. u \in UpPipe /\ d \in DownPipe
  <2>1. <<>> \in Seq(UpPackets) /\ <<>> \in Seq(DownPackets)
    OBVIOUS
  <2> QED BY <1>2, <2>1 DEF UpPipe, DownPipe
<1> HIDE DEF p, u, d
<1>5. conn \in [Clients -> ConnStates]
  BY <1>2, TypeParts DEF IInv, OthersOK
<1>6. conn'[c] = "Closing" /\ \A e \in Clients \ {c} : conn'[e] = conn[e]
  BY <1>3, <1>5
<1>7. \A e \in Clients : (Leaving(e)' <=> Leaving(e))
  BY <1>3 DEF Leaving
<1>8. LoopOK'
  BY <1>3, <1>6, <1>7 DEF ExInv, LoopOK
<1>9. \A e \in Clients \ {c} :
        Side(q', e) = Side(q, e) /\ conn'[e] = conn[e] /\ (Leaving(e)' <=> Leaving(e))
  BY <1>3, <1>6, <1>7
<1> QED BY <1>1, <1>2, <1>3, <1>4, <1>6, <1>8, <1>9, OwnStep

\* OnDisconnect of the session: the client is in no list, and in no loop.
LEMMA OnDisconnectStep ==
  ASSUME ExInv, NEW c \in Clients, OnDisconnect(c), UNCHANGED exchange
  PROVE  ExInv'
<1>1. /\ EndsOK /\ peer[c] \in PeerRec /\ up[c] \in UpPipe /\ down[c] \in DownPipe /\ Fresh(peer[c])
      /\ IInv /\ LoopOK /\ Sound(q)
  BY TalkingEnds DEF ExInv, IInv
<1>2. /\ Sound(q') /\ Leaves(q, q', c) /\ OthersOK' /\ Connections'
  BY <1>1, DisconnectStep
<1>3. IInv'
  BY <1>2, QueueInv
<1>4. /\ up' = [up EXCEPT ![c] = up[c]] /\ down' = [down EXCEPT ![c] = down[c]]
      /\ peer' = [peer EXCEPT ![c] = peer[c]]
  BY <1>1 DEF EndsOK, exchange
<1>5. conn \in [Clients -> ConnStates] /\ suspending.left \in Seq(Clients)
  BY <1>1, TypeParts DEF IInv, OthersOK
<1>6. /\ conn' = [conn EXCEPT ![c] = "Absent"] /\ q' = RemoveFromUploadQueue(q, c)
      /\ suspending' = [suspending EXCEPT !.left = Without(@, c)]
  BY DEF OnDisconnect
<1>7. conn'[c] = "Absent" /\ \A e \in Clients \ {c} : conn'[e] = conn[e]
  BY <1>5, <1>6
<1>8. /\ ToSet(suspending'.left) = ToSet(suspending.left) \ {c}
      /\ Distinct(suspending'.left)
  <2>1. suspending'.left = Without(suspending.left, c)
    BY <1>1, <1>6, TypeParts DEF IInv, OthersOK
  <2>2. Distinct(suspending.left)
    BY <1>1 DEF LoopOK
  <2> QED BY <1>5, <2>1, <2>2, WithoutInList
<1>9. LoopOK'
  BY <1>1, <1>7, <1>8 DEF LoopOK, Leaving
<1>10. ASSUME NEW e \in Clients, e # c PROVE Side(q', e) = Side(q, e)
  <2>1. q'.asked[e] = q.asked[e] /\ q'.sent[e] = q.sent[e]
    BY <1>1, <1>6, <1>10, RemovedRemembers
  <2> QED BY <1>2, <1>10, <2>1 DEF Side, Leaves
<1>11. \A e \in Clients \ {c} :
         Side(q', e) = Side(q, e) /\ conn'[e] = conn[e] /\ (Leaving(e)' <=> Leaving(e))
  BY <1>7, <1>8, <1>10 DEF Leaving
<1> QED BY <1>1, <1>3, <1>4, <1>7, <1>9, <1>11, OwnStep

\* A client connects.  Nothing is left of its last connection.
LEMMA ConnectStep ==
  ASSUME ExInv, NEW c \in Clients, Connect(c)
  PROVE  ExInv'
<1> DEFINE p == [peer[c] EXCEPT !.on = "Open", !.failed = {}, !.torn = FALSE]
           u == [Pipe EXCEPT !.out = <<Packet("Hello")>>]
           m == Side(q', c)
<1>1. /\ EndsOK /\ peer[c] \in PeerRec /\ Fresh(peer[c]) /\ IInv /\ LoopOK /\ Sound(q)
      /\ Side(q, c) \in SideRec
  BY TalkingEnds DEF ExInv, IInv
<1>2. Accept(c) /\ Sound(q') /\ Same(q', q) /\ OthersOK' /\ Connections'
  BY <1>1, AcceptStep DEF Connect
<1>3. IInv'
  BY <1>2, QueueInv
<1>4. /\ peer' = [peer EXCEPT ![c] = p] /\ up' = [up EXCEPT ![c] = u]
      /\ down' = [down EXCEPT ![c] = Pipe] /\ peer[c].on = "None"
  BY DEF Connect
<1>5. conn \in [Clients -> ConnStates]
  BY <1>1, TypeParts DEF IInv, OthersOK
<1>6. /\ conn[c] = "Absent" /\ suspending' = suspending
      /\ conn' = [conn EXCEPT ![c] = "Open"] /\ q' = [q EXCEPT !.addNext[c] = FALSE]
  BY <1>2 DEF Accept
<1>7. Remembers(q', q)
  BY <1>1, <1>6, QueueFields DEF Remembers, Fields
<1>8. \A e \in Clients : Side(q', e) = Side(q, e) /\ (Leaving(e)' <=> Leaving(e))
  BY <1>2, <1>6, <1>7, SideKept DEF Leaving
<1>9. \A e \in Clients \ {c} : conn'[e] = conn[e]
  BY <1>5, <1>6
<1>10. LoopOK' /\ ~Leaving(c) /\ ~Leaving(c)'
  BY <1>1, <1>5, <1>6, <1>8 DEF LoopOK
<1>11. /\ m \in SideRec /\ ~m.slot /\ ~m.waits /\ m.asked = {} /\ m.sent = {}
  <2>1. m = Side(q, c)
    BY <1>8
  <2>2. c \notin Uploading(q) /\ c \notin Waiting(q)
    BY <1>1, <1>6 DEF IInv, Connections, ListedAreConnected
  <2>3. Side(q, c).slot = (c \in Uploading(q)) /\ Side(q, c).waits = (c \in Waiting(q))
    BY DEF Side
  <2> HIDE DEF m
  <2>4. m \in SideRec /\ ~m.slot /\ ~m.waits
    BY <1>1, <2>1, <2>2, <2>3
  <2> QED BY <2>4 DEF SideRec
<1>12. /\ p \in PeerRec /\ p.on = "Open" /\ p.pending = {}
       /\ \A b \in Parts : p.got[b] = 0
  <2>1. peer[c].pending = {} /\ \A b \in Parts : peer[c].got[b] = 0
    BY <1>1, <1>4 DEF Fresh
  <2> QED BY <1>1, <2>1 DEF PeerRec, PeerStates
<1>13. /\ u \in UpPipe /\ Pipe \in DownPipe
       /\ All(u) = <<Packet("Hello")>> /\ All(Pipe) = <<>>
  <2>1. Packet("Hello") \in UpPackets
    BY DEF Packet, UpPackets, AskKinds
  <2>2. u.out = <<Packet("Hello")>> /\ u.wire = <<>> /\ u = [out |-> <<Packet("Hello")>>, wire |-> <<>>]
    BY DEF Pipe
  <2> HIDE DEF u
  <2>3. u \in UpPipe
    BY <2>1, <2>2 DEF UpPipe
  <2>4. Pipe \in DownPipe /\ All(Pipe) = <<>>
    BY DEF Pipe, DownPipe, All
  <2> QED BY <2>1, <2>2, <2>3, <2>4 DEF All
<1> HIDE DEF p, u, m
<1>14. Linked(p, All(u), All(Pipe), m, Leaving(c)')
  <2>1. "Hello" \in AskKinds
    BY DEF AskKinds
  <2>2. Leaving(c)' \in BOOLEAN
    BY DEF Leaving
  <2> QED BY <1>10, <1>11, <1>12, <1>13, <2>1, <2>2, OneLinked
<1>15. Fresh(p)
  BY <1>12 DEF Fresh
<1> QED BY <1>3, <1>4, <1>8, <1>9, <1>10, <1>12, <1>13, <1>14, <1>15, OwnStep DEF m

\* The hello is answered.
LEMMA HelloStep ==
  ASSUME ExInv, NEW c \in Clients, HandleHello(c)
  PROVE  ExInv'
<1>1. /\ SessionReplies(c, "Hello", <<Packet("HelloAnswer")>>)
      /\ UNCHANGED vars /\ UNCHANGED <<conn, suspending, peer>> /\ q' = q
  BY DEF HandleHello, vars
<1>2. IInv' /\ Side(q, c) \in SideRec
  BY <1>1, NextSound, TalkingEnds DEF ExInv
<1>3. "Hello" \in AskKinds /\ "HelloAnswer" \in AnswerKinds
  BY DEF AskKinds, AnswerKinds
<1>4. /\ Side(q', c) = Side(q, c) /\ \A e \in Clients \ {c} : Side(q', e) = Side(q, e)
      /\ Side(q', c).asked = q.asked[c] /\ Side(q', c).sent = q.sent[c]
  BY <1>1 DEF Side
<1>5. <<Packet("HelloAnswer")>> \in
        {<<Packet(k)>> : k \in AnswerKinds \cup {"AcceptUpload", "QueueRanking"}} \cup {<<>>}
  BY <1>3
<1> QED BY <1>1, <1>2, <1>3, <1>4, <1>5, GreetedStep

\* The answers about the file, to which the connection is attached
LEMMA AnswerStep ==
  ASSUME ExInv, NEW c \in Clients, NEW kind \in AskKinds, NEW answer \in AnswerKinds,
         AnswerAbout(c, kind, answer)
  PROVE  ExInv'
<1>1. /\ SessionReplies(c, kind, <<Packet(answer)>>) /\ Attach(c, File)
      /\ UNCHANGED <<conn, suspending, peer>> /\ q' = q /\ UNCHANGED <<conn, slots>>
  BY DEF AnswerAbout, Attach
<1>2. IInv /\ Side(q, c) \in SideRec /\ Sound(q) /\ File \in Files
  BY TalkingEnds, ExchangeAssumption DEF ExInv, IInv
<1>3. QueueStep
  BY <1>1, <1>2 DEF QueueStep, Moved, Same
<1>4. IInv'
  <2>1. OthersOK' /\ Connections'
    BY <1>1, <1>2, <1>3, AttachStep
  <2> QED BY <1>3, <2>1, QueueInv DEF QueueStep
<1>5. /\ Side(q', c) = Side(q, c) /\ \A e \in Clients \ {c} : Side(q', e) = Side(q, e)
      /\ Side(q', c).asked = q.asked[c] /\ Side(q', c).sent = q.sent[c]
  BY <1>1 DEF Side
<1>6. <<Packet(answer)>> \in
        {<<Packet(k)>> : k \in AnswerKinds \cup {"AcceptUpload", "QueueRanking"}} \cup {<<>>}
  OBVIOUS
<1> QED BY <1>1, <1>2, <1>4, <1>5, <1>6, GreetedStep

\* What is sent when c leaves AddClientToQueue
LEMMA AnswerIs ==
  ASSUME NEW r, Sound(r), NEW c \in Clients
  PROVE  /\ c \in Uploading(r) => Answer(r, c) = <<Packet("AcceptUpload")>>
         /\ c \in Waiting(r) => Answer(r, c) = <<Packet("QueueRanking")>>
         /\ c \notin Waiting(r) \union Uploading(r) => Answer(r, c) = <<>>
<1>1. c \notin Waiting(r) \/ c \notin Uploading(r)
  BY QueueFields
<1> QED BY <1>1 DEF Answer

\* A client asks for a slot, and gets it, waits or is not told.
LEMMA StartUploadStep ==
  ASSUME ExInv, NEW c \in Clients, HandleStartUpload(c)
  PROVE  ExInv'
<1>1. /\ IInv /\ Sound(q) /\ slots \in Nat /\ Side(q, c) \in SideRec /\ File \in Files
      /\ "StartUpload" \in AskKinds
  BY TalkingEnds, SlotsAreNat, TypeParts, ExchangeAssumption DEF ExInv, IInv, AskKinds
<1>2. CASE /\ HandleClientStartUpload(c, File)
           /\ SessionReplies(c, "StartUpload", Answer(q', c))
           /\ UNCHANGED <<peer, budget>>
  <2>1. /\ UNCHANGED <<conn, suspending, peer>> /\ q' \in AddClientToQueue(q, c, File)
    BY <1>2 DEF HandleClientStartUpload, Attach
  <2>2. Sound(q') /\ Added(q, q', c)
    BY <1>1, <2>1, AddClientSound
  <2>3. Remembers(q', q)
    BY <1>1, <2>1, AddingRemembers, QueueFields
  <2>4. IInv'
    <3>1. OthersOK' /\ Connections'
      BY <1>1, <1>2, RequestsStep
    <3> QED BY <2>2, <3>1, QueueInv
  <2>5. ASSUME NEW e \in Clients, e # c PROVE Side(q', e) = Side(q, e)
    <3>1. (e \in Waiting(q') <=> e \in Waiting(q)) /\ (e \in Uploading(q') <=> e \in Uploading(q))
      BY <2>2, <2>5 DEF Added, Same, StartsDirectly, StartsAtOnce, Starts, Enqueues
    <3> QED BY <2>3, <3>1 DEF Side, Remembers
  <2>6. Side(q', c) \in SideRec /\ Side(q', c).asked = q.asked[c] /\ Side(q', c).sent = q.sent[c]
        /\ Side(q', c).waits = (c \in Waiting(q'))
    BY <2>2, <2>3, SideOK DEF Side, Remembers
  <2> DEFINE packets == Answer(q', c)
  <2>7. packets \in {<<Packet("AcceptUpload")>>, <<Packet("QueueRanking")>>, <<>>}
    BY <2>2, AnswerIs
  <2>8. c \in Waiting(q') => packets = <<Packet("QueueRanking")>>
    BY <2>2, AnswerIs
  <2> HIDE DEF packets
  <2>9. packets \notin {<<Packet(k)>> : k \in AnswerKinds}
    <3> SUFFICES ASSUME NEW k \in AnswerKinds, packets = <<Packet(k)>> PROVE FALSE
      OBVIOUS
    <3>1. k \notin {"AcceptUpload", "QueueRanking"}
      BY DEF AnswerKinds
    <3> QED BY <2>7, <3>1 DEF Packet
  <2>10. packets \in
           {<<Packet(k)>> : k \in AnswerKinds \cup {"AcceptUpload", "QueueRanking"}} \cup {<<>>}
    BY <2>7
  <2>11. SessionReplies(c, "StartUpload", packets)
    BY <1>2 DEF packets
  <2>12. Side(q', c).waits => packets = <<Packet("QueueRanking")>> \/ Side(q, c).waits
    BY <2>6, <2>8
  <2> QED BY <1>1, <2>1, <2>4, <2>5, <2>6, <2>9, <2>10, <2>11, <2>12, GreetedStep
<1>3. CASE SessionReplies(c, "StartUpload", <<Packet("QueueRanking")>>) /\ UNCHANGED <<vars, peer>>
  <2>1. UNCHANGED vars /\ UNCHANGED <<conn, suspending, peer>> /\ q' = q
    BY <1>3 DEF vars
  <2>2. IInv'
    BY <1>1, <2>1, NextSound
  <2>3. /\ Side(q', c) = Side(q, c) /\ \A e \in Clients \ {c} : Side(q', e) = Side(q, e)
        /\ Side(q', c).asked = q.asked[c] /\ Side(q', c).sent = q.sent[c]
    BY <2>1 DEF Side
  <2>4. <<Packet("QueueRanking")>> \in
          {<<Packet(k)>> : k \in AnswerKinds \cup {"AcceptUpload", "QueueRanking"}} \cup {<<>>}
    OBVIOUS
  <2> QED BY <1>1, <1>3, <2>1, <2>2, <2>3, <2>4, GreetedStep
<1> QED BY <1>2, <1>3 DEF HandleStartUpload

\* AddUploadRequests: a client in a slot asks for what was not sent.
LEMMA RequestsAdded ==
  ASSUME Sound(q), NEW c \in Clients, NEW S \in SUBSET Parts
  PROVE  LET t == AddUploadRequests(c, S)
         IN  /\ Sound(t) /\ Same(t, q) /\ t.sent = q.sent
             /\ \A e \in Clients \ {c} : t.asked[e] = q.asked[e]
             /\ t.asked[c] = IF c \in Uploading(q) THEN q.asked[c] \cup (S \ q.sent[c])
                                                   ELSE q.asked[c]
<1> DEFINE A == q.asked[c] \union (S \ q.sent[c])
           t == [q EXCEPT !.asked[c] = A]
<1>1. q \in QueueType /\ Placed(q, c) /\ \A e \in Clients : Placed(q, e)
  BY DEF Sound
<1>2. CASE c \notin Uploading(q)
  <2>1. AddUploadRequests(c, S) = q
    BY <1>1, <1>2 DEF AddUploadRequests, Placed
  <2> QED BY <1>2, <2>1 DEF Same
<1>3. CASE c \in Uploading(q)
  <2>1. AddUploadRequests(c, S) = t
    BY <1>1, <1>3 DEF AddUploadRequests, Placed
  <2>2. A \in SUBSET Parts
    BY <1>1 DEF QueueType
  <2> HIDE DEF A
  <2>3. /\ t \in QueueType
        /\ t.waiting = q.waiting /\ t.uploading = q.uploading
        /\ t.state = q.state /\ t.rank = q.rank /\ t.addNext = q.addNext
        /\ t.asked = [q.asked EXCEPT ![c] = A] /\ t.sent = q.sent
    BY <1>1, <2>2 DEF QueueType
  <2> HIDE DEF t
  <2>4. t.asked[c] = A /\ \A e \in Clients \ {c} : t.asked[e] = q.asked[e]
    BY <1>1, <2>3 DEF QueueType
  <2>5. \A e \in Clients :
          /\ t.asked[e] \union t.sent[e] # {} => e \in Uploading(q)
          /\ t.addNext[e] => e \in LowIDs
    BY <1>1, <1>3, <2>3, <2>4 DEF Placed
  <2>6. Sound(t) /\ Same(t, q)
    BY <2>3, <2>5, SoundKept
  <2> QED BY <1>3, <2>1, <2>3, <2>4, <2>6 DEF A
<1> QED BY <1>2, <1>3

\* A client in a slot asks for ranges; one that has lost it is not heard.
LEMMA RequestPartsStep ==
  ASSUME ExInv, NEW c \in Clients, HandleRequestParts(c)
  PROVE  ExInv'
<1> DEFINE p == peer[c]
           u == Rest(up[c])
           d == Longer(down[c], <<>>)
           S == Head(up[c].wire).ranges
           l == Side(q, c)
           m == Side(q', c)
<1>1. /\ EndsOK /\ IInv /\ LoopOK /\ Sound(q) /\ Open(c)
      /\ up[c].wire # <<>> /\ Head(up[c].wire).kind = "RequestParts"
      /\ up' = Taken(up, c) /\ down' = Queued(down, c, <<>>) /\ peer' = peer
      /\ Attach(c, File) /\ UNCHANGED <<conn, slots, suspending>> /\ q' = AddUploadRequests(c, S)
      /\ File \in Files
  BY ExchangeAssumption
     DEF HandleRequestParts, SessionReplies, SessionGets, Arrived, ExInv, IInv, Attach
<1>2. /\ up' = [up EXCEPT ![c] = u] /\ u \in UpPipe /\ All(u) = Tail(All(up[c]))
      /\ All(up[c]) # <<>> /\ Head(All(up[c])) = Head(up[c].wire)
      /\ Head(up[c].wire) \in UpPackets
  BY <1>1, SessionTook
<1>3. /\ down' = [down EXCEPT ![c] = d] /\ d \in DownPipe /\ All(d) = All(down[c])
  <2>1. <<>> \in Seq(DownPackets) /\ All(down[c]) \in Seq(DownPackets)
    BY TalkingEnds DEF Ends
  <2>2. /\ Queued(down, c, <<>>) = [down EXCEPT ![c] = d] /\ d \in DownPipe
        /\ All(d) = All(down[c]) \o <<>>
    BY <1>1, <2>1, SessionQueued
  <2> HIDE DEF d
  <2> QED BY <1>1, <2>1, <2>2
<1>4. S \in SUBSET Parts
  BY <1>2 DEF UpPackets
<1>5. /\ Sound(q') /\ Same(q', q) /\ q'.sent = q.sent
      /\ \A e \in Clients \ {c} : q'.asked[e] = q.asked[e]
      /\ q'.asked[c] = IF c \in Uploading(q) THEN q.asked[c] \cup (S \ q.sent[c]) ELSE q.asked[c]
  BY <1>1, <1>4, RequestsAdded
<1>6. IInv'
  <2>1. QueueStep
    BY <1>1, <1>5 DEF QueueStep, Moved
  <2>2. OthersOK' /\ Connections'
    BY <1>1, <2>1, AttachStep
  <2> QED BY <1>5, <2>2, QueueInv
<1>7. /\ p \in PeerRec /\ peer' = [peer EXCEPT ![c] = p] /\ Fresh(p) /\ l \in SideRec
      /\ Ends(p, All(up[c]), All(down[c]), l, Leaving(c))
      /\ Reached(c) /\ ~p.torn => Linked(p, All(up[c]), All(down[c]), l, Leaving(c))
  BY <1>1, TalkingEnds DEF EndsOK, ExInv
<1>8. /\ m \in SideRec /\ m.slot = l.slot /\ m.waits = l.waits /\ m.sent = l.sent
      /\ m.asked = IF l.slot THEN l.asked \cup (S \ l.sent) ELSE l.asked
  BY <1>5, SideOK DEF Side, Same
<1>9. \A e \in Clients \ {c} : Side(q', e) = Side(q, e)
  BY <1>5 DEF Side, Same
<1>10. LoopOK' /\ \A e \in Clients : Leaving(e)' = Leaving(e)
  BY <1>1 DEF LoopOK, Leaving
<1> HIDE DEF p, u, d, l, m
<1>11. ASSUME p.on = "Open", ~p.torn PROVE Linked(p, All(u), All(d), m, Leaving(c))
  <2>1. Linked(p, All(up[c]), All(down[c]), l, Leaving(c))
    BY <1>1, <1>7, <1>11 DEF Reached, p
  <2>2. Linked(p, <<>>, All(down[c]), m, Leaving(c))
    <3>1. /\ All(up[c]) # <<>> /\ Head(All(up[c])).kind = "RequestParts"
          /\ m.asked = IF l.slot THEN l.asked \cup (Head(All(up[c])).ranges \ l.sent)
                                 ELSE l.asked
      BY <1>1, <1>2, <1>8
    <3>2. m \in SideRec /\ m.slot = l.slot /\ m.waits = l.waits /\ m.sent = l.sent
      BY <1>8
    <3> QED BY <1>7, <2>1, <3>1, <3>2, RequestTaken
  <2>3. Tail(All(up[c])) = <<>>
    <3>1. Len(All(up[c])) <= 1 /\ All(up[c]) \in Seq(UpPackets)
      BY <1>7, <2>1 DEF Linked, Orderly, Ends
    <3> QED BY <1>2, <3>1
  <2> QED BY <1>2, <1>3, <2>2, <2>3
<1>12. \A e \in Clients \ {c} :
         Side(q', e) = Side(q, e) /\ conn'[e] = conn[e] /\ (Leaving(e)' <=> Leaving(e))
  BY <1>1, <1>9, <1>10
<1>13. conn'[c] = "Open" /\ p.on = "Open" /\ ~p.torn =>
         Linked(p, All(u), All(d), Side(q', c), Leaving(c)')
  BY <1>10, <1>11 DEF m
<1> QED BY <1>2, <1>3, <1>6, <1>7, <1>10, <1>12, <1>13, OwnStep

-----------------------------------------------------------------------------
(* The loop of Process.                                                    *)

\* The session queues E for c.
LEMMA SessionStep ==
  ASSUME ExInv, IInv', LoopOK', NEW c \in Clients, NEW E \in Seq(DownPackets),
         UNCHANGED <<conn, peer, up>>,
         down' = Queued(down, c, E) \/ (E = <<>> /\ down' = down),
         \A e \in Clients \ {c} : Side(q', e) = Side(q, e) /\ (Leaving(e)' <=> Leaving(e)),
         Reached(c) /\ ~peer[c].torn =>
           Linked(peer[c], All(up[c]), All(down[c]) \o E, Side(q', c), Leaving(c)')
  PROVE  ExInv'
<1>1. /\ EndsOK /\ peer[c] \in PeerRec /\ up[c] \in UpPipe /\ down[c] \in DownPipe
      /\ Fresh(peer[c]) /\ All(down[c]) \in Seq(DownPackets)
  BY TalkingEnds DEF ExInv, Ends
<1>2. peer' = [peer EXCEPT ![c] = peer[c]] /\ up' = [up EXCEPT ![c] = up[c]]
  BY <1>1 DEF EndsOK
<1>3. PICK d \in DownPipe : down' = [down EXCEPT ![c] = d] /\ All(d) = All(down[c]) \o E
  <2>1. CASE down' = Queued(down, c, E)
    BY <1>1, <2>1, SessionQueued
  <2>2. CASE E = <<>> /\ down' = down
    <3>1. down' = [down EXCEPT ![c] = down[c]] /\ All(down[c]) = All(down[c]) \o E
      BY <1>1, <2>2 DEF EndsOK
    <3> QED BY <1>1, <3>1
  <2> QED BY <2>1, <2>2
<1>4. conn'[c] = "Open" /\ peer[c].on = "Open" /\ ~peer[c].torn =>
        Linked(peer[c], All(up[c]), All(d), Side(q', c), Leaving(c)')
  BY <1>3 DEF Reached, Open
<1>5. \A e \in Clients \ {c} :
        Side(q', e) = Side(q, e) /\ conn'[e] = conn[e] /\ (Leaving(e)' <=> Leaving(e))
  OBVIOUS
<1> QED BY <1>1, <1>2, <1>3, <1>4, <1>5, OwnStep

\* The session sends what goes with a Turn.
LEMMA TurnStep ==
  ASSUME ExInv, IInv', LoopOK', NEW c \in Clients, NEW E \in Seq(DownPackets),
         UNCHANGED <<conn, peer, up>>,
         down' = Queued(down, c, E) \/ (E = <<>> /\ down' = down),
         \A e \in Clients \ {c} : Side(q', e) = Side(q, e) /\ (Leaving(e)' <=> Leaving(e)),
         Open(c) => Turn(Side(q, c), Leaving(c), E, Side(q', c), Leaving(c)')
  PROVE  ExInv'
<1>1. ASSUME Reached(c), ~peer[c].torn
      PROVE  Linked(peer[c], All(up[c]), All(down[c]) \o E, Side(q', c), Leaving(c)')
  <2>1. /\ Ends(peer[c], All(up[c]), All(down[c]), Side(q, c), Leaving(c))
        /\ Linked(peer[c], All(up[c]), All(down[c]), Side(q, c), Leaving(c))
    BY <1>1, TalkingEnds
  <2>2. Turn(Side(q, c), Leaving(c), E, Side(q', c), Leaving(c)')
    BY <1>1 DEF Reached
  <2> QED BY <2>1, <2>2, Turned
<1> QED BY <1>1, SessionStep

\* The sort that may be due at the end of the loop changes no Side.
LEMMA TurnTaken ==
  ASSUME NEW R, \A r \in R : Sound(r), Served(R)
  PROVE  \E r \in R : Sound(q') /\ \A c : Side(q', c) = Side(r, c)
<1>1. PICK r \in R : q' = r \/ q' \in EndOfLoop(r)
  BY Zenon DEF Served
<1>2. Sound(r) /\ Fields(r)
  BY <1>1, QueueFields
<1>3. CASE q' = r
  BY <1>1, <1>2, <1>3
<1>4. CASE q' \in EndOfLoop(r)
  BY <1>2, <1>4, EndOfLoopSound, EndRemembers, SideKept
<1> QED BY <1>1, <1>3, <1>4

\* What a turn of Process leaves alone
LEMMA LoopKept ==
  ASSUME ExInv, Serve
  PROVE  /\ IInv' /\ LoopOK' /\ UNCHANGED <<conn, suspending>>
         /\ Head(serving) \in Clients
         /\ \A e \in Clients : Leaving(e)' = Leaving(e)
<1>1. IInv' /\ Head(serving) \in Clients
  BY NextSound, HeadOfLoop DEF Next, Tick, ExInv, Serve
<1>2. UNCHANGED <<conn, suspending>>
  BY DEF Serve, ServeClosed, ServeNothing, Kick, ServeRange, SendRange, RefuseRange,
         FailRange, Served
<1> QED BY <1>1, <1>2 DEF ExInv, LoopOK, Leaving

\* The client is not in a slot any more, and remembers nothing.
LEMMA RemovedSide ==
  ASSUME Sound(q), NEW c \in Clients
  PROVE  LET r == RemoveFromUploadQueue(q, c)
         IN  /\ Sound(r) /\ \A e \in Clients \ {c} : Side(r, e) = Side(q, e)
             /\ Side(r, c) \in SideRec /\ ~Side(r, c).slot /\ ~Side(r, c).waits
             /\ Side(r, c).asked = {} /\ Side(r, c).sent = {}
<1> DEFINE r == RemoveFromUploadQueue(q, c)
<1>1. /\ Sound(r) /\ Waiting(r) = Waiting(q) \ {c} /\ Uploading(r) = Uploading(q) \ {c}
      /\ \A e \in Clients \ {c} : r.asked[e] = q.asked[e] /\ r.sent[e] = q.sent[e]
      /\ r.asked[c] = {} /\ r.sent[c] = {}
  BY ClientRemoved, RemovedRemembers
<1> HIDE DEF r
<1>2. Side(r, c) \in SideRec
  BY <1>1, SideOK
<1>3. \A e \in Clients \ {c} : Side(r, e) = Side(q, e)
  BY <1>1 DEF Side
<1>4. /\ Side(r, c).slot = (c \in Uploading(r)) /\ Side(r, c).waits = (c \in Waiting(r))
      /\ Side(r, c).asked = r.asked[c] /\ Side(r, c).sent = r.sent[c]
  BY DEF Side
<1>5. ~Side(r, c).slot /\ ~Side(r, c).waits /\ Side(r, c).asked = {} /\ Side(r, c).sent = {}
  BY <1>1, <1>4
<1> QED BY <1>1, <1>2, <1>3, <1>5 DEF r

\* Nothing is sent to a client for which nothing changes, or that loses its slot.
LEMMA NoTurn ==
  ASSUME NEW l \in SideRec, NEW left \in BOOLEAN, NEW m \in SideRec, NEW stays \in BOOLEAN,
         stays => left \/ l.slot, m = l \/ (~m.slot /\ ~m.waits /\ m.asked = {} /\ m.sent = {})
  PROVE  Turn(l, left, <<>>, m, stays)
<1>1. <<>> \in Seq(DownPackets) /\ \A K : ~Has(<<>>, K)
  BY DEF Has
<1>2. \A i \in DOMAIN <<>> : <<>>[i].kind \in RefusalKinds \cup {"AcceptUpload"}
  OBVIOUS
<1> DEFINE E == <<>>
<1>3. E = <<>> /\ E \in Seq(DownPackets) /\ \A i \in DOMAIN E : E[i].kind \in RefusalKinds \cup {"AcceptUpload"}
  BY <1>1, <1>2
<1> HIDE DEF E
<1>4. Turn(l, left, E, m, stays)
  BY <1>3 DEF Turn
<1> QED BY <1>4 DEF E

\* A client whose connection is closed, or has nothing to do
LEMMA PassedStep ==
  ASSUME ExInv, serving # <<>>, NEW c, c = Head(serving), ServePassed(c)
  PROVE  ExInv'
<1> DEFINE r == RemoveFromUploadQueue(q, c)
<1>1. Serve /\ Sound(q) /\ UNCHANGED exchange
  BY DEF ServePassed, Serve, ExInv, IInv
<1>2. /\ IInv' /\ LoopOK' /\ UNCHANGED <<conn, suspending, peer, up, down>> /\ c \in Clients
      /\ \A e \in Clients : Leaving(e)' = Leaving(e)
  BY <1>1, LoopKept DEF exchange
<1>3. <<>> \in Seq(DownPackets)
  OBVIOUS
<1>4. ServeClosed(c) \/ ServeNothing(c)
  BY DEF ServePassed
<1>5. CASE ServeClosed(c)
  <2>1. Sound(r) /\ \A e \in Clients \ {c} : Side(r, e) = Side(q, e)
    BY <1>1, <1>2, RemovedSide
  <2>2. Served({r}) /\ ~Open(c)
    BY <1>5 DEF ServeClosed
  <2> HIDE DEF r
  <2>3. \A e : Side(q', e) = Side(r, e)
    BY <2>1, <2>2, TurnTaken
  <2> QED BY <1>2, <1>3, <2>1, <2>2, <2>3, TurnStep
<1>6. CASE ServeNothing(c)
  <2>1. \A e : Side(q', e) = Side(q, e)
    BY <1>1, <1>6, TurnTaken DEF ServeNothing
  <2>2. Side(q, c) \in SideRec
    BY <1>1, <1>2, SideOK
  <2>3. Turn(Side(q, c), Leaving(c), <<>>, Side(q', c), Leaving(c)')
    <3>1. Leaving(c) \in BOOLEAN
      BY DEF Leaving
    <3>2. Turn(Side(q, c), Leaving(c), <<>>, Side(q, c), Leaving(c))
      BY <2>2, <3>1, NoTurn
    <3>3. Side(q', c) = Side(q, c) /\ Leaving(c)' = Leaving(c)
      BY <1>2, <2>1
    <3> QED BY <3>2, <3>3
  <2> QED BY <1>2, <1>3, <2>1, <2>3, TurnStep
<1> QED BY <1>4, <1>5, <1>6

\* SendOutOfPartReqsAndAddToWaitingQueue: a client that has lost its requests
\* asks for a slot again, and is told with OutOfParts.
LEMMA AsksAgainStep ==
  ASSUME ExInv, serving # <<>>, Serve, NEW c, c = Head(serving), c \in Uploading(q),
         NEW r, Sound(r), r.asked[c] = {}, r.sent[c] = {},
         \A e \in Clients \ {c} : Side(r, e) = Side(q, e),
         NEW f, Served(AddClientToQueue(r, c, f)), UNCHANGED <<peer, up>>,
         down' = Queued(down, c, <<Packet("OutOfParts")>> \o Answer(q', c))
  PROVE  ExInv'
<1>1. /\ IInv' /\ LoopOK' /\ UNCHANGED <<conn, suspending>> /\ c \in Clients
      /\ Leaving(c)' = Leaving(c) /\ \A e \in Clients : (Leaving(e)' <=> Leaving(e))
  BY LoopKept
<1>2. Sound(q) /\ slots \in Nat
  BY SlotsAreNat, TypeParts DEF ExInv, IInv
<1>3. \A t \in AddClientToQueue(r, c, f) : Sound(t) /\ Added(r, t, c) /\ Remembers(t, r)
  BY <1>1, <1>2, AddClientSound, AddingRemembers, QueueFields
<1>4. PICK t \in AddClientToQueue(r, c, f) : Sound(q') /\ \A e : Side(q', e) = Side(t, e)
  BY <1>3, TurnTaken
<1>5. ASSUME NEW e \in Clients, e # c PROVE Side(q', e) = Side(q, e)
  <2>1. Added(r, t, c) /\ Remembers(t, r)
    BY <1>3
  <2>2. (e \in Waiting(t) <=> e \in Waiting(r)) /\ (e \in Uploading(t) <=> e \in Uploading(r))
    BY <1>5, <2>1 DEF Added, Same, StartsDirectly, StartsAtOnce, Starts, Enqueues
  <2>3. Side(t, e) = Side(r, e)
    BY <2>1, <2>2 DEF Side, Remembers
  <2> QED BY <1>4, <1>5, <2>3
<1> DEFINE l == Side(q, c)
           m == Side(q', c)
           A == Answer(q', c)
           E == <<Packet("OutOfParts")>> \o A
<1>6. l \in SideRec /\ l.slot /\ m \in SideRec /\ m.asked = {} /\ m.sent = {}
  <2>1. l \in SideRec /\ m \in SideRec
    BY <1>1, <1>2, <1>4, SideOK
  <2>2. m = Side(t, c) /\ Side(t, c).asked = t.asked[c] /\ Side(t, c).sent = t.sent[c]
    BY <1>4 DEF Side
  <2>3. t.asked[c] = {} /\ t.sent[c] = {}
    BY <1>3 DEF Remembers
  <2>4. l.slot = (c \in Uploading(q))
    BY DEF Side
  <2> QED BY <2>1, <2>2, <2>3, <2>4
<1>7. A \in {<<Packet("AcceptUpload")>>, <<Packet("QueueRanking")>>, <<>>}
  BY <1>1, <1>4, AnswerIs
<1> HIDE DEF A
<1>8. /\ E \in Seq(DownPackets) /\ E # <<>> /\ Has(E, RefusalKinds)
      /\ \A i \in DOMAIN E : E[i].kind \in RefusalKinds \cup {"AcceptUpload"}
  <2> DEFINE O == Packet("OutOfParts")
  <2>1. \A k \in {"OutOfParts", "QueueRanking", "AcceptUpload"} :
          Packet(k) \in DownPackets /\ Packet(k).kind = k
    BY DEF Packet, DownPackets, RefusalKinds
  <2>2. O \in DownPackets /\ O.kind = "OutOfParts" /\ A \in Seq(DownPackets)
    <3>1. \A k \in {"QueueRanking", "AcceptUpload"} : <<Packet(k)>> \in Seq(DownPackets)
      BY <2>1
    <3>2. <<>> \in Seq(DownPackets)
      OBVIOUS
    <3>3. A \in Seq(DownPackets)
      BY <1>7, <3>1, <3>2
    <3> QED BY <2>1, <3>3
  <2>3. \A i \in DOMAIN A : A[i].kind \in RefusalKinds \cup {"AcceptUpload"}
    BY <1>7, <2>1 DEF RefusalKinds
  <2> HIDE DEF O
  <2>4. <<O>> \o A \in Seq(DownPackets) /\ <<O>> \o A # <<>>
    BY <2>2
  <2>5. \A i \in DOMAIN (<<O>> \o A) : i = 1 \/ i - 1 \in DOMAIN A
    BY <2>2
  <2>6. (<<O>> \o A)[1] = O /\ 1 \in DOMAIN (<<O>> \o A)
    BY <2>2
  <2>7. \A i \in DOMAIN (<<O>> \o A) : i # 1 => (<<O>> \o A)[i] = A[i - 1]
    BY <2>2
  <2> DEFINE F == <<O>> \o A
  <2> HIDE DEF F
  <2>8. /\ F \in Seq(DownPackets) /\ F # <<>> /\ Has(F, RefusalKinds)
        /\ \A i \in DOMAIN F : F[i].kind \in RefusalKinds \cup {"AcceptUpload"}
    BY <2>2, <2>3, <2>4, <2>5, <2>6, <2>7 DEF F, Has, RefusalKinds
  <2> QED BY <2>8 DEF F, O
<1>9. Leaving(c) \in BOOLEAN
  BY DEF Leaving
<1>10. down' = Queued(down, c, E)
  BY DEF A
<1> HIDE DEF l, m, E
<1>11. Turn(l, Leaving(c), E, m, Leaving(c))
  BY <1>6, <1>8, <1>9 DEF Turn
<1>12. Open(c) => Turn(Side(q, c), Leaving(c), E, Side(q', c), Leaving(c)')
  BY <1>1, <1>11 DEF l, m
<1> QED BY <1>1, <1>5, <1>8, <1>10, <1>12, TurnStep

\* The time of a client is over.
LEMMA KickedStep ==
  ASSUME ExInv, serving # <<>>, NEW c, c = Head(serving), ServeKicked(c)
  PROVE  ExInv'
<1> DEFINE m == RemoveFromUploadQueue(q, c)
           r == [m EXCEPT !.kicking = FALSE]
<1>1. /\ Serve /\ IInv /\ Sound(q) /\ q.state[c] = "Uploading"
      /\ Served(AddClientToQueue(r, c, file[c])) /\ UNCHANGED <<peer, up>>
      /\ down' = Queued(down, c, <<Packet("OutOfParts")>> \o Answer(q', c))
  BY DEF ServeKicked, Kick, Serve, ExInv, IInv
<1>2. c \in Clients /\ c \in Uploading(q)
  BY <1>1, HeadOfLoop
<1>3. /\ Sound(m) /\ \A e \in Clients \ {c} : Side(m, e) = Side(q, e)
      /\ m.asked[c] = {} /\ m.sent[c] = {}
  BY <1>1, <1>2, RemovedSide, RemovedRemembers
<1> HIDE DEF m
<1>4. Sound(r) /\ Same(r, m)
  BY <1>3, FlagsKept
<1>5. Remembers(r, m)
  BY <1>3, QueueFields DEF Fields, Remembers
<1> HIDE DEF r
<1>6. r.asked[c] = {} /\ r.sent[c] = {} /\ \A e \in Clients \ {c} : Side(r, e) = Side(q, e)
  BY <1>3, <1>4, <1>5, SideKept DEF Remembers
<1> QED BY <1>1, <1>2, <1>4, <1>6, AsksAgainStep

\* A piece of the range is missing.
LEMMA RefusedStep ==
  ASSUME ExInv, serving # <<>>, NEW c, c = Head(serving), NEW b \in Parts, ServeRefused(c, b)
  PROVE  ExInv'
<1> DEFINE r == [q EXCEPT !.asked[c] = {}, !.sent[c] = {}]
<1>1. /\ Serve /\ IInv /\ Sound(q) /\ q.state[c] = "Uploading"
      /\ Served(AddClientToQueue(r, c, file[c])) /\ UNCHANGED <<peer, up>>
      /\ down' = Queued(down, c, <<Packet("OutOfParts")>> \o Answer(q', c))
  BY DEF ServeRefused, RefuseRange, CanServe, Serve, ServeRange, ExInv, IInv
<1>2. c \in Clients /\ c \in Uploading(q)
  BY <1>1, HeadOfLoop
<1>3. Sound(r) /\ Same(r, q)
  <2>1. {} \in SUBSET Parts
    OBVIOUS
  <2> QED BY <1>1, <1>2, <2>1, MemoryKept
<1>4. /\ r.asked = [q.asked EXCEPT ![c] = {}] /\ r.sent = [q.sent EXCEPT ![c] = {}]
      /\ q.asked \in [Clients -> SUBSET Parts] /\ q.sent \in [Clients -> SUBSET Parts]
  BY <1>1 DEF Sound, QueueType
<1> HIDE DEF r
<1>5. /\ r.asked[c] = {} /\ r.sent[c] = {}
      /\ \A e \in Clients \ {c} : r.asked[e] = q.asked[e] /\ r.sent[e] = q.sent[e]
  BY <1>2, <1>4
<1>6. \A e \in Clients \ {c} : Side(r, e) = Side(q, e)
  BY <1>3, <1>5 DEF Side, Same
<1> QED BY <1>1, <1>2, <1>3, <1>5, <1>6, AsksAgainStep

\* The range cannot be read, or not be sent.
LEMMA FailedStep ==
  ASSUME ExInv, serving # <<>>, NEW c, c = Head(serving), NEW b \in Parts, ServeFailed(c, b)
  PROVE  ExInv'
<1> DEFINE r == RemoveFromUploadQueue(q, c)
<1>1. Serve /\ Sound(q) /\ UNCHANGED <<peer, up, down>> /\ Served({r})
  BY DEF ServeFailed, FailRange, Serve, ServeRange, ExInv, IInv
<1>2. /\ IInv' /\ LoopOK' /\ UNCHANGED <<conn, suspending>> /\ c \in Clients
      /\ Leaving(c)' = Leaving(c) /\ \A e \in Clients : (Leaving(e)' <=> Leaving(e))
  BY <1>1, LoopKept
<1>3. /\ Sound(r) /\ \A e \in Clients \ {c} : Side(r, e) = Side(q, e)
      /\ Side(r, c) \in SideRec /\ ~Side(r, c).slot /\ ~Side(r, c).waits
      /\ Side(r, c).asked = {} /\ Side(r, c).sent = {} /\ Side(q, c) \in SideRec
  BY <1>1, <1>2, RemovedSide, SideOK
<1> HIDE DEF r
<1>4. \A e : Side(q', e) = Side(r, e)
  BY <1>1, <1>3, TurnTaken
<1>5. Turn(Side(q, c), Leaving(c), <<>>, Side(q', c), Leaving(c)')
  <2>1. Leaving(c) \in BOOLEAN
    BY DEF Leaving
  <2>2. Turn(Side(q, c), Leaving(c), <<>>, Side(r, c), Leaving(c))
    BY <1>3, <2>1, NoTurn
  <2> QED BY <1>2, <1>4, <2>2
<1>6. <<>> \in Seq(DownPackets)
  OBVIOUS
<1> QED BY <1>1, <1>2, <1>3, <1>4, <1>5, <1>6, TurnStep

\* A range is sent.
LEMMA SentStep ==
  ASSUME ExInv, serving # <<>>, NEW c, c = Head(serving), NEW b \in Parts, ServeSent(c, b)
  PROVE  ExInv'
<1> DEFINE A == q.asked[c] \ {b}
           B == q.sent[c] \union {b}
           r == [q EXCEPT !.asked[c] = A, !.sent[c] = B]
           E == [i \in 1..PacketsPerRange |-> Part(b)]
<1>1. /\ Serve /\ IInv /\ Sound(q) /\ q.state[c] = "Uploading" /\ b \in q.asked[c] /\ Open(c)
      /\ Served({r}) /\ UNCHANGED <<peer, up>> /\ down' = Queued(down, c, E)
  BY DEF ServeSent, SendRange, CanServe, Serve, ServeRange, ExInv, IInv
<1>2. /\ IInv' /\ LoopOK' /\ UNCHANGED <<conn, suspending>> /\ c \in Clients
      /\ Leaving(c)' = Leaving(c) /\ \A e \in Clients : (Leaving(e)' <=> Leaving(e))
  BY <1>1, LoopKept
<1>3. /\ q.asked \in [Clients -> SUBSET Parts] /\ q.sent \in [Clients -> SUBSET Parts]
      /\ c \in Uploading(q)
  BY <1>1, HeadOfLoop DEF Sound, QueueType
<1>4. A \in SUBSET Parts /\ B \in SUBSET Parts
  BY <1>2, <1>3
<1> HIDE DEF A, B
<1>5. Sound(r) /\ Same(r, q)
  BY <1>1, <1>2, <1>3, <1>4, MemoryKept
<1>6. r.asked = [q.asked EXCEPT ![c] = A] /\ r.sent = [q.sent EXCEPT ![c] = B]
  BY <1>1 DEF Sound, QueueType
<1> HIDE DEF r
<1>7. /\ r.asked[c] = A /\ r.sent[c] = B
      /\ \A e \in Clients \ {c} : r.asked[e] = q.asked[e] /\ r.sent[e] = q.sent[e]
  BY <1>2, <1>3, <1>6
<1>8. \A e \in Clients \ {c} : Side(r, e) = Side(q, e)
  BY <1>5, <1>7 DEF Side, Same
<1>9. \A e : Side(q', e) = Side(r, e)
  BY <1>1, <1>5, TurnTaken
<1> DEFINE l == Side(q, c)
           m == Side(q', c)
<1>10. /\ m \in SideRec /\ m.asked = l.asked \ {b} /\ m.sent = l.sent \cup {b}
       /\ m.slot = l.slot /\ m.waits = l.waits /\ b \in l.asked
  <2>1. /\ l.asked = q.asked[c] /\ l.sent = q.sent[c]
        /\ l.slot = (c \in Uploading(q)) /\ l.waits = (c \in Waiting(q))
    BY DEF Side
  <2>2. /\ Side(r, c).asked = r.asked[c] /\ Side(r, c).sent = r.sent[c]
        /\ Side(r, c).slot = (c \in Uploading(r)) /\ Side(r, c).waits = (c \in Waiting(r))
    BY DEF Side
  <2>3. m = Side(r, c)
    BY <1>9
  <2>4. m \in SideRec
    BY <1>2, <1>5, <2>3, SideOK
  <2> HIDE DEF l, m
  <2> QED BY <1>1, <1>5, <1>7, <2>1, <2>2, <2>3, <2>4 DEF Same, A, B
<1> HIDE DEF l, m
<1>11. E \in Seq(DownPackets)
  <2>1. PacketsPerRange \in Nat /\ Part(b) \in DownPackets
    BY ExchangeAssumption DEF Part, DownPackets, DataKinds
  <2> QED BY <2>1
<1>12. ASSUME Reached(c), ~peer[c].torn
       PROVE  Linked(peer[c], All(up[c]), All(down[c]) \o E, m, Leaving(c))
  <2>1. /\ Ends(peer[c], All(up[c]), All(down[c]), l, Leaving(c))
        /\ Linked(peer[c], All(up[c]), All(down[c]), l, Leaving(c))
    BY <1>2, <1>12, TalkingEnds DEF l
  <2>2. /\ m \in SideRec /\ m.asked = l.asked \ {b} /\ m.sent = l.sent \cup {b}
        /\ m.slot = l.slot /\ m.waits = l.waits /\ b \in l.asked
    BY <1>10
  <2>3. Linked(peer[c], All(up[c]), All(down[c]) \o RangeData(b), m, Leaving(c))
    BY <2>1, <2>2, RangeSent
  <2> QED BY <2>3 DEF RangeData
<1>13. Reached(c) /\ ~peer[c].torn =>
         Linked(peer[c], All(up[c]), All(down[c]) \o E, Side(q', c), Leaving(c)')
  BY <1>2, <1>12 DEF m
<1>14. \A e \in Clients \ {c} : Side(q', e) = Side(q, e) /\ (Leaving(e)' <=> Leaving(e))
  BY <1>2, <1>8, <1>9
<1> HIDE DEF E
<1> QED BY <1>1, <1>2, <1>11, <1>13, <1>14, SessionStep

\* The turn of a client in the loop of Process
LEMMA ServeNextStep ==
  ASSUME ExInv, ServeNext
  PROVE  ExInv'
<1>1. PICK c : /\ serving # <<>> /\ c = Head(serving)
               /\ \/ ServePassed(c) \/ ServeKicked(c)
                  \/ \E b \in Parts : ServeSent(c, b) \/ ServeRefused(c, b) \/ ServeFailed(c, b)
  BY Zenon DEF ServeNext
<1> QED BY <1>1, PassedStep, KickedStep, SentStep, RefusedStep, FailedStep

-----------------------------------------------------------------------------
(* Process, the API and the clock.                                         *)

\* Nothing is sent, and nothing changes for a client but that a call of
\* SuspendUpload looks for those in the slots.
LEMMA QuietStep ==
  ASSUME ExInv, IInv', LoopOK', UNCHANGED <<conn, peer, up, down>>,
         \A c \in Clients : /\ Side(q', c) = Side(q, c)
                            /\ Leaving(c)' => Leaving(c) \/ c \in Uploading(q)
  PROVE  ExInv'
<1>1. ASSUME NEW c \in Clients PROVE Fresh(peer[c])' /\ Talking(c)'
  <2>1. /\ Fresh(peer[c]) /\ Side(q, c) \in SideRec
        /\ Ends(peer[c], All(up[c]), All(down[c]), Side(q, c), Leaving(c))
    BY TalkingEnds DEF ExInv
  <2>2. ASSUME Reached(c), ~peer[c].torn
        PROVE  Linked(peer[c], All(up[c]), All(down[c]), Side(q, c), Leaving(c)')
    <3>1. Linked(peer[c], All(up[c]), All(down[c]), Side(q, c), Leaving(c))
      BY <2>2, TalkingEnds
    <3>2. Leaving(c) \in BOOLEAN /\ Leaving(c)' \in BOOLEAN
      BY DEF Leaving
    <3>3. Leaving(c)' => Leaving(c) \/ Side(q, c).slot
      <4>1. Side(q, c).slot = (c \in Uploading(q))
        BY DEF Side
      <4> QED BY <4>1
    <3>4. Turn(Side(q, c), Leaving(c), <<>>, Side(q, c), Leaving(c)')
      BY <2>1, <3>2, <3>3, NoTurn
    <3>5. Linked(peer[c], All(up[c]), All(down[c]) \o <<>>, Side(q, c), Leaving(c)')
      BY <2>1, <3>1, <3>4, Turned
    <3>6. All(down[c]) \in Seq(DownPackets)
      BY <2>1 DEF Ends
    <3>7. All(down[c]) \o <<>> = All(down[c])
      BY <3>6
    <3> QED BY <3>5, <3>7
  <2>3. Side(q', c) = Side(q, c) /\ UNCHANGED <<conn, peer, up, down>>
    OBVIOUS
  <2> QED BY <2>1, <2>2, <2>3 DEF Talking, Reached, Open, Fresh
<1>2. EndsOK'
  BY DEF ExInv, EndsOK
<1> QED BY <1>1, <1>2 DEF ExInv

\* A client that was chosen gets its slot.
LEMMA NextSlotRemembers ==
  ASSUME Sound(q)
  PROVE  Remembers(NextSlot(q), q)
<1> DEFINE k == [q EXCEPT !.kicking = FALSE, !.recent = TRUE]
<1>1. Fields(q)
  BY QueueFields
<1>2. /\ Remembers([q EXCEPT !.kicking = FALSE], q) /\ Remembers([q EXCEPT !.kicking = TRUE], q)
      /\ Remembers(k, q)
  BY <1>1 DEF Fields, Remembers
<1> HIDE DEF k
<1>3. Remembers(AddUpNextClient(k), k)
  BY <1>2, NextRemembers DEF Remembers
<1>4. NextSlot(q) \in {[q EXCEPT !.kicking = FALSE], [q EXCEPT !.kicking = TRUE], AddUpNextClient(k)}
  BY Zenon DEF NextSlot, k
<1> QED BY <1>2, <1>3, <1>4 DEF Remembers

\* The start of Process: one client at most gets a slot.
LEMMA ProcessQueueStep ==
  ASSUME ExInv, ProcessQueue
  PROVE  ExInv'
<1> DEFINE r == NextSlot(q)
<1>1. /\ EndsOK /\ IInv /\ Sound(q) /\ Process /\ UNCHANGED <<conn, suspending, peer, up>>
      /\ q' = r \/ q' \in EndOfLoop(r)
      /\ down' = [c \in Clients |->
                    IF c \in Uploading(q') \ Uploading(q) /\ Open(c)
                    THEN Queued(down, c, <<Packet("AcceptUpload")>>)[c] ELSE down[c]]
  BY DEF ProcessQueue, Process, ExInv, IInv
<1>2. IInv'
  BY <1>1, NextSound DEF Next, Tick
<1>3. LoopOK' /\ \A c \in Clients : Leaving(c)' = Leaving(c)
  BY <1>1 DEF ExInv, LoopOK, Leaving
<1>4. /\ Sound(r) /\ Fields(r) /\ Remembers(r, q)
      /\ Same(r, q) \/ \E c \in Clients : Starts(q, r, c)
  BY <1>1, NextSlotSound, NextSlotRemembers, QueueFields
<1> HIDE DEF r
<1>5. Sound(q') /\ Same(q', r) /\ Remembers(q', r)
  BY <1>1, <1>4, EndOfLoopSound, EndRemembers DEF Same, Remembers
<1>6. Remembers(q', q)
  BY <1>4, <1>5 DEF Remembers
<1>7. CASE Same(r, q)
  <2>1. Same(q', q)
    BY <1>5, <1>7 DEF Same
  <2>2. \A c \in Clients : Side(q', c) = Side(q, c)
    BY <1>6, <2>1, SideKept
  <2>3. down' = [c \in Clients |-> down[c]]
    BY <1>1, <2>1 DEF Same
  <2>4. down' = down
    BY <1>1, <2>3 DEF EndsOK
  <2> QED BY <1>1, <1>2, <1>3, <2>2, <2>4, QuietStep
<1>8. ASSUME NEW c \in Clients, Starts(q, r, c) PROVE ExInv'
  <2> DEFINE E == IF Open(c) THEN <<Packet("AcceptUpload")>> ELSE <<>>
             l == Side(q, c)
             m == Side(q', c)
  <2>1. /\ c \in Waiting(q) /\ c \notin Uploading(q)
        /\ Waiting(q') = Waiting(q) \ {c} /\ Uploading(q') = Uploading(q) \union {c}
    BY <1>1, <1>5, <1>8, QueueFields DEF Starts, Same
  <2>2. \A e \in Clients \ {c} : Side(q', e) = Side(q, e)
    BY <1>6, <2>1 DEF Side, Remembers
  <2>3. Packet("AcceptUpload") \in DownPackets /\ Packet("AcceptUpload").kind = "AcceptUpload"
    BY DEF Packet, DownPackets
  <2>4. E \in Seq(DownPackets) /\ \A i \in DOMAIN E : E[i].kind = "AcceptUpload"
    BY <2>3
  <2>5. down' = Queued(down, c, E) \/ (E = <<>> /\ down' = down)
    <3>1. down' = [e \in Clients |-> IF e = c /\ Open(c) THEN Queued(down, c, E)[c] ELSE down[e]]
      BY <1>1, <2>1
    <3>2. CASE ~Open(c)
      <4>1. down' = [e \in Clients |-> down[e]]
        BY <3>1, <3>2
      <4> QED BY <1>1, <3>2, <4>1 DEF EndsOK
    <3>3. CASE Open(c)
      <4> HIDE DEF E
      <4> DEFINE d == Longer(down[c], E)
      <4>1. Queued(down, c, E) = [down EXCEPT ![c] = d]
        BY <1>1, <2>4, SessionQueued
      <4> HIDE DEF d
      <4>2. down' = [e \in Clients |-> IF e = c THEN d ELSE down[e]]
        BY <1>1, <3>1, <3>3, <4>1 DEF EndsOK
      <4>3. [down EXCEPT ![c] = d] = [e \in Clients |-> IF e = c THEN d ELSE down[e]]
        BY <1>1 DEF EndsOK
      <4> QED BY <4>1, <4>2, <4>3
    <3> QED BY <3>2, <3>3
  <2>6. /\ l \in SideRec /\ m \in SideRec /\ l.waits /\ ~m.waits
        /\ m.asked = l.asked /\ m.sent = l.sent
    <3>1. l \in SideRec /\ m \in SideRec
      BY <1>1, <1>5, SideOK
    <3>2. l.waits = (c \in Waiting(q)) /\ m.waits = (c \in Waiting(q'))
      BY DEF Side
    <3>3. m.asked = l.asked /\ m.sent = l.sent
      BY <1>6 DEF Side, Remembers
    <3> HIDE DEF l, m
    <3> QED BY <2>1, <3>1, <3>2, <3>3
  <2>7. Leaving(c) \in BOOLEAN
    BY DEF Leaving
  <2> HIDE DEF E, l, m
  <2>8. Turn(l, Leaving(c), E, m, Leaving(c))
    BY <2>4, <2>6, <2>7 DEF Turn
  <2>9. Turn(Side(q, c), Leaving(c), E, Side(q', c), Leaving(c)')
    BY <1>3, <2>8 DEF l, m
  <2> QED BY <1>1, <1>2, <1>3, <2>2, <2>4, <2>5, <2>9, TurnStep
<1> QED BY <1>4, <1>7, <1>8

\* A call of SuspendUpload begins: it looks for those in the slots.
LEMMA SuspendFileStep ==
  ASSUME ExInv, NEW terminate \in BOOLEAN, SuspendFile(terminate)
  PROVE  ExInv'
<1>1. /\ IInv /\ Sound(q) /\ ListedAreConnected /\ q' = q
      /\ UNCHANGED <<conn, peer, up, down>> /\ SuspendUpload(File, terminate)
  BY DEF SuspendFile, SuspendUpload, ExInv, IInv, Connections
<1>2. suspending'.left = <<>> \/ suspending'.left = q.uploading
  BY <1>1 DEF SuspendUpload, NoCall
<1>3. IInv'
  BY <1>1, NextSound, ExchangeAssumption DEF Next, API, ExInv
<1>4. Distinct(q.uploading) /\ Distinct(<<>>) /\ ToSet(<<>>) = {}
  BY <1>1 DEF Sound, Lists, Distinct, ToSet
<1>5. Distinct(suspending'.left) /\ ToSet(suspending'.left) \subseteq Uploading(q)
  BY <1>2, <1>4 DEF Uploading
<1>6. \A c \in Clients : Side(q', c) = Side(q, c) /\ (Leaving(c)' => c \in Uploading(q))
  BY <1>1, <1>5 DEF Leaving
<1>7. LoopOK'
  BY <1>1, <1>5, <1>6 DEF LoopOK, ListedAreConnected
<1> QED BY <1>1, <1>3, <1>6, <1>7, QuietStep

\* The loop of SuspendUpload has one client less to look at.
LEMMA TailOfList ==
  ASSUME NEW S, NEW w \in Seq(S), w # <<>>, Distinct(w)
  PROVE  Distinct(Tail(w)) /\ ToSet(Tail(w)) = ToSet(w) \ {Head(w)}
<1> DEFINE t == Tail(w)
<1>1. /\ Len(w) \in Nat \ {0} /\ DOMAIN w = 1..Len(w) /\ DOMAIN t = 1..Len(w) - 1
      /\ \A i \in DOMAIN t : i + 1 \in DOMAIN w /\ t[i] = w[i + 1]
      /\ Head(w) = w[1] /\ 1 \in DOMAIN w
  OBVIOUS
<1> HIDE DEF t
<1>2. Distinct(t)
  BY <1>1 DEF Distinct
<1>3. ASSUME NEW i \in DOMAIN t PROVE t[i] \in ToSet(w) \ {Head(w)}
  BY <1>1, <1>3 DEF Distinct, ToSet
<1>4. ASSUME NEW i \in DOMAIN w, w[i] # Head(w) PROVE w[i] \in ToSet(t)
  <2>1. i - 1 \in DOMAIN t /\ t[i - 1] = w[i]
    BY <1>1, <1>4
  <2> QED BY <2>1 DEF ToSet
<1>5. ToSet(t) = ToSet(w) \ {Head(w)}
  <2>1. \A x : x \in ToSet(w) <=> \E i \in DOMAIN w : w[i] = x
    BY DEF ToSet
  <2>2. \A x : x \in ToSet(t) <=> \E i \in DOMAIN t : t[i] = x
    BY DEF ToSet
  <2> QED BY <1>3, <1>4, <2>1, <2>2
<1> QED BY <1>2, <1>5 DEF t

\* A client in a slot loses it, or has to wait for another and is told.
LEMMA SuspendedStep ==
  ASSUME ExInv, IInv', LoopOK', NEW c \in Clients, Leaving(c), UNCHANGED <<conn, peer, up>>,
         \A e \in Clients \ {c} : (Leaving(e)' <=> Leaving(e)), ~Leaving(c)',
         NEW r, r = RemoveFromUploadQueue(q, c),
         \/ q' = r /\ down' = down
         \/ /\ q' \in Sorted([r EXCEPT !.state[c] = "OnQueue"], Append(r.waiting, c))
            /\ down' = IF Open(c) THEN Queued(down, c, Answer(q', c)) ELSE down
  PROVE  ExInv'
<1>1. /\ Sound(q) /\ Leaving(c) \in BOOLEAN /\ Leaving(c)' \in BOOLEAN /\ Side(q, c) \in SideRec
      /\ <<>> \in Seq(DownPackets)
  BY TalkingEnds DEF ExInv, IInv, Leaving
<1>2. /\ Sound(r) /\ \A e \in Clients \ {c} : Side(r, e) = Side(q, e)
      /\ Side(r, c) \in SideRec /\ ~Side(r, c).slot /\ ~Side(r, c).waits
      /\ Side(r, c).asked = {} /\ Side(r, c).sent = {}
  BY <1>1, RemovedSide
<1>3. CASE q' = r /\ down' = down
  <2>1. Turn(Side(q, c), Leaving(c), <<>>, Side(q', c), Leaving(c)')
    BY <1>1, <1>2, <1>3, NoTurn
  <2> QED BY <1>1, <1>2, <1>3, <2>1, TurnStep
<1>4. CASE /\ q' \in Sorted([r EXCEPT !.state[c] = "OnQueue"], Append(r.waiting, c))
           /\ down' = IF Open(c) THEN Queued(down, c, Answer(q', c)) ELSE down
  <2> DEFINE o == [r EXCEPT !.state[c] = "OnQueue"]
             l == Side(q, c)
             m == Side(q', c)
             E == IF Open(c) THEN <<Packet("QueueRanking")>> ELSE <<>>
  <2>1. c \notin Waiting(r) \union Uploading(r) /\ r.asked[c] = {} /\ r.sent[c] = {}
    BY <1>1, ClientRemoved, RemovedRemembers
  <2>2. Aside(r, c)
    BY <1>2, <2>1 DEF Sound, Aside, Placed
  <2>3. Sound(q') /\ Waiting(q') = Waiting(r) \union {c} /\ Uploading(q') = Uploading(r)
    BY <1>4, <2>2, WaitingAdded
  <2>4. Remembers(o, r)
    BY <1>2, QueueFields DEF Fields, Remembers
  <2> HIDE DEF o
  <2>5. Remembers(q', r)
    <3>1. PICK s : q' = Ranked(o, s)
      BY <1>4 DEF Sorted, o
    <3>2. Remembers(q', o)
      BY <2>4, <3>1, RankedRemembers DEF Remembers
    <3> QED BY <2>4, <3>2 DEF Remembers
  <2>6. \A e \in Clients \ {c} : Side(q', e) = Side(r, e)
    BY <2>3, <2>5 DEF Side, Remembers
  <2>7. /\ m \in SideRec /\ m.asked = {} /\ m.sent = {} /\ ~m.slot
    <3>1. m \in SideRec
      BY <2>3, SideOK
    <3>2. m.asked = q'.asked[c] /\ m.sent = q'.sent[c] /\ m.slot = (c \in Uploading(q'))
      BY DEF Side
    <3> HIDE DEF m
    <3> QED BY <2>1, <2>3, <2>5, <3>1, <3>2 DEF Remembers
  <2>8. Answer(q', c) = <<Packet("QueueRanking")>>
    BY <2>3, AnswerIs
  <2>9. Packet("QueueRanking") \in DownPackets /\ Packet("QueueRanking").kind \in RefusalKinds
    BY DEF Packet, DownPackets, RefusalKinds
  <2>10. /\ E \in Seq(DownPackets) /\ \A i \in DOMAIN E : E[i].kind \in RefusalKinds
         /\ Open(c) => Has(E, RefusalKinds)
    <3>1. Has(<<Packet("QueueRanking")>>, RefusalKinds)
      BY <2>9, HasOne
    <3> QED BY <2>9, <3>1
  <2>11. down' = Queued(down, c, E) \/ (E = <<>> /\ down' = down)
    BY <1>4, <2>8
  <2> HIDE DEF l, m, E
  <2>12. Open(c) => Turn(l, Leaving(c), E, m, Leaving(c)')
    BY <1>1, <2>7, <2>10 DEF Turn
  <2>13. Open(c) => Turn(Side(q, c), Leaving(c), E, Side(q', c), Leaving(c)')
    BY <2>12 DEF l, m
  <2> QED BY <1>2, <2>6, <2>10, <2>11, <2>13, TurnStep
<1> QED BY <1>3, <1>4

\* The next client in the loop of SuspendUpload
LEMMA SuspendClientStep ==
  ASSUME ExInv, SuspendClient
  PROVE  ExInv'
<1> DEFINE w == suspending.left
<1>1. /\ IInv /\ LoopOK /\ UNCHANGED <<conn, peer, up>> /\ SuspendNext
      /\ w \in Seq(Clients) /\ Distinct(w)
  <2>1. w \in Seq(Clients)
    BY TypeParts DEF ExInv, IInv, OthersOK
  <2> QED BY <2>1 DEF SuspendClient, SuspendNext, ExInv, LoopOK
<1>2. IInv'
  BY <1>1, NextSound DEF Next, API
<1>3. suspending'.left = IF Len(w) <= 1 THEN <<>> ELSE Tail(w)
  <2>1. suspending' = IF Len(w) <= 1 THEN NoCall ELSE [suspending EXCEPT !.left = Tail(w)]
    BY <1>1 DEF SuspendNext
  <2>2. suspending \in [file : Files \union {NoFile}, terminate : BOOLEAN, left : Seq(Clients)]
    BY <1>1, TypeParts DEF IInv, OthersOK
  <2> QED BY <2>1, <2>2 DEF NoCall
<1>4. ToSet(<<>>) = {} /\ Distinct(<<>>)
  BY DEF ToSet, Distinct
<1>5. CASE w = <<>>
  <2>1. suspending'.left = <<>> /\ q' = q /\ down' = down
    BY <1>1, <1>3, <1>5 DEF SuspendClient, SuspendNext
  <2>2. \A c \in Clients : ~Leaving(c)' /\ Side(q', c) = Side(q, c)
    BY <1>4, <2>1 DEF Leaving
  <2>3. LoopOK'
    BY <1>4, <2>1, <2>2 DEF LoopOK
  <2> QED BY <1>1, <1>2, <2>1, <2>2, <2>3, QuietStep
<1>6. CASE w # <<>>
  <2>1. PICK c \in Clients : c = Head(w)
    BY <1>1, <1>6
  <2>2. /\ ToSet(suspending'.left) = ToSet(w) \ {c} /\ Distinct(suspending'.left)
        /\ c \in ToSet(w)
    <3>1. Distinct(Tail(w)) /\ ToSet(Tail(w)) = ToSet(w) \ {c}
      BY <1>1, <1>6, <2>1, TailOfList
    <3>2. Len(w) <= 1 => Tail(w) = <<>>
      BY <1>1, <1>6
    <3>3. c \in ToSet(w)
      BY <1>1, <1>6, <2>1, SetOfSeq
    <3> QED BY <1>3, <3>1, <3>2, <3>3
  <2>3. /\ Leaving(c) /\ ~Leaving(c)' /\ \A e \in Clients \ {c} : (Leaving(e)' <=> Leaving(e))
    BY <2>2 DEF Leaving
  <2>4. LoopOK'
    BY <1>1, <2>2, <2>3 DEF LoopOK
  <2>5. CASE file[c] # suspending.file
    <3>1. q' = q /\ down' = down
      BY <2>1, <2>5 DEF SuspendClient, SuspendNext
    <3> QED BY <1>1, <1>2, <2>3, <2>4, <3>1, QuietStep
  <2>6. CASE file[c] = suspending.file
    <3> DEFINE r == RemoveFromUploadQueue(q, c)
    <3>1. CASE suspending.terminate
      <4>1. q' = r /\ down' = down
        BY <1>6, <2>1, <2>6, <3>1 DEF SuspendClient, SuspendNext
      <4> QED BY <1>1, <1>2, <2>3, <2>4, <4>1, SuspendedStep
    <3>2. CASE ~suspending.terminate
      <4>1. /\ q' \in Sorted([r EXCEPT !.state[c] = "OnQueue"], Append(r.waiting, c))
            /\ down' = IF Open(c) THEN Queued(down, c, Answer(q', c)) ELSE down
        BY <1>6, <2>1, <2>6, <3>2, Zenon DEF SuspendClient, SuspendNext
      <4> HIDE DEF r
      <4>2. r = RemoveFromUploadQueue(q, c)
        BY DEF r
      <4> QED BY <1>1, <1>2, <2>3, <2>4, <4>1, <4>2, SuspendedStep
    <3> QED BY <3>1, <3>2
  <2> QED BY <2>5, <2>6
<1> QED BY <1>5, <1>6

\* The clock
LEMMA ClockStep ==
  ASSUME ExInv, SecondPasses \/ \E c \in Clients : SessionLasts(c)
  PROVE  ExInv'
<1>1. /\ Sound(q) /\ UNCHANGED <<conn, suspending, peer, up, down>>
      /\ Second \/ \E c \in Clients : SessionIsOver(c)
  BY DEF SecondPasses, SessionLasts, Second, SessionIsOver, exchange, ExInv, IInv
<1>2. IInv'
  BY <1>1, NextSound DEF Next, Time, ExInv
<1>3. /\ q'.waiting = q.waiting /\ q'.uploading = q.uploading
      /\ q'.asked = q.asked /\ q'.sent = q.sent
  BY <1>1 DEF Second, SessionIsOver, Sound, QueueType
<1>4. \A c \in Clients : Side(q', c) = Side(q, c) /\ (Leaving(c)' <=> Leaving(c))
  BY <1>1, <1>3 DEF Side, Waiting, Uploading, Leaving
<1>5. LoopOK'
  BY <1>1, <1>4 DEF ExInv, LoopOK
<1> QED BY <1>1, <1>2, <1>4, <1>5, QuietStep

-----------------------------------------------------------------------------
(* The specification.                                                      *)

\* At the start nobody is connected.
LEMMA InitTalks == ExchangeInit => ExInv
<1> SUFFICES ASSUME ExchangeInit PROVE ExInv
  OBVIOUS
<1>1. IInv /\ suspending = NoCall /\ conn = [c \in Clients |-> "Absent"]
  BY InitSound DEF ExchangeInit, Init
<1>2. PICK s \in Scenarios :
        peer = [c \in Clients |->
                  [on |-> "None", want |-> s.want[c], pending |-> {},
                   got |-> [b \in Parts |-> 0], bad |-> {}, failed |-> {}, torn |-> FALSE]]
  BY DEF ExchangeInit
<1>3. s.want \in [Clients -> SUBSET Parts]
  BY ExchangeAssumption
<1>4. EndsOK
  <2>1. peer \in [Clients -> PeerRec]
    BY <1>2, <1>3 DEF PeerRec, PeerStates
  <2>2. Pipe \in UpPipe /\ Pipe \in DownPipe
    BY DEF Pipe, UpPipe, DownPipe
  <2> QED BY <2>1, <2>2 DEF ExchangeInit, EndsOK
<1>5. LoopOK /\ \A c \in Clients : ~Open(c)
  BY <1>1 DEF LoopOK, Leaving, NoCall, Distinct, ToSet, Open
<1>6. \A c \in Clients : Fresh(peer[c])
  BY <1>2 DEF Fresh
<1> QED BY <1>1, <1>4, <1>5, <1>6 DEF ExInv, Talking, Reached

\* PumpIO, SecondTick and OnDisconnect of the client
LEMMA PeerVisitsStep ==
  ASSUME ExInv, NEW c \in Clients, PeerVisits(c)
  PROVE  ExInv'
<1>1. CASE PeerReceives(c)
  <2>1. CASE HandleHelloAnswer(c)
    BY <2>1, RepliesStep DEF HandleHelloAnswer, AskKinds, AnswerKinds
  <2>2. CASE HandleFileAnswer(c)
    BY <2>2, RepliesStep DEF HandleFileAnswer, AskKinds, AnswerKinds
  <2>3. CASE HandleFileStatusAnswer(c)
    <3>1. (IF Multipart THEN "HashSetRequest" ELSE "StartUpload") \in AskKinds
          /\ "FileStatusAnswer" \in AnswerKinds
      BY DEF AskKinds, AnswerKinds
    <3> QED BY <2>3, <3>1, RepliesStep DEF HandleFileStatusAnswer
  <2>4. CASE HandleHashSetAnswer(c)
    BY <2>4, RepliesStep DEF HandleHashSetAnswer, AskKinds, AnswerKinds
  <2>5. CASE HandleRefusal(c)
    BY <2>5, ClosesStep DEF HandleRefusal
  <2> QED BY <1>1, <2>1, <2>2, <2>3, <2>4, <2>5, AcceptStepOfPeer, SkipStep, ReceiveStep,
             GarbageStep DEF PeerReceives
<1>2. CASE FlushUp(c)
  BY <1>2, FlushUpStep
<1>3. CASE PeerSeesEnd(c) \/ PeerTimesOut(c) \/ PeerReturns(c)
  BY <1>3, ClosesStep DEF PeerSeesEnd, PeerTimesOut, PeerReturns
<1> QED BY <1>1, <1>2, <1>3, PeerDisconnectsStep, ConnectStep, HashFailsStep DEF PeerVisits

\* The same of the session
LEMMA SessionVisitsStep ==
  ASSUME ExInv, NEW c \in Clients, SessionVisits(c)
  PROVE  ExInv'
<1>1. CASE SessionReceives(c)
  <2>1. ASSUME NEW kind, Refuse(c, kind) PROVE ExInv'
    BY <2>1, CloseStep DEF Refuse
  <2>2. CASE HandleFileRequest(c)
    BY <2>1, <2>2, AnswerStep DEF HandleFileRequest, AskKinds, AnswerKinds
  <2>3. CASE HandleFileStatusRequest(c)
    BY <2>3, AnswerStep DEF HandleFileStatusRequest, AskKinds, AnswerKinds
  <2>4. CASE HandleHashSetRequest(c)
    BY <2>1, <2>4, AnswerStep DEF HandleHashSetRequest, AskKinds, AnswerKinds
  <2> QED BY <1>1, <2>2, <2>3, <2>4, HelloStep, StartUploadStep, RequestPartsStep
          DEF SessionReceives
<1>2. CASE FlushDown(c)
  BY <1>2, FlushDownStep
<1>3. CASE SessionSeesEnd(c) \/ SessionTimesOut(c)
  BY <1>3, CloseStep DEF SessionSeesEnd, SessionTimesOut
<1>4. CASE SessionDisconnects(c)
  BY <1>4, OnDisconnectStep DEF SessionDisconnects
<1> QED BY <1>1, <1>2, <1>3, <1>4 DEF SessionVisits

\* What may fail
LEMMA FaultsStep ==
  ASSUME ExInv, NEW c \in Clients, Faults(c)
  PROVE  ExInv'
<1>1. CASE PeerLeaves(c)
  BY <1>1, ClosesStep DEF PeerLeaves
<1>2. CASE SessionLeaves(c)
  BY <1>2, CloseStep DEF SessionLeaves
<1> QED BY <1>1, <1>2, VanishesStep, TornStep, DamageStep DEF Faults

\* Every step keeps every conversation in its stages.
LEMMA NextTalks == ExInv /\ [ExchangeNext]_allVars => ExInv'
<1> SUFFICES ASSUME ExInv, [ExchangeNext]_allVars PROVE ExInv'
  OBVIOUS
<1>1. CASE UNCHANGED allVars
  <2>1. IInv'
    BY <1>1, NextSound DEF allVars, ExInv
  <2>2. UNCHANGED <<q, conn, suspending, peer, up, down>>
    BY <1>1 DEF allVars, vars, exchange
  <2>3. LoopOK' /\ \A c \in Clients : Side(q', c) = Side(q, c) /\ (Leaving(c)' <=> Leaving(c))
    BY <2>2 DEF ExInv, LoopOK, Leaving
  <2> QED BY <2>1, <2>2, <2>3, QuietStep
<1>2. ASSUME NEW c \in Clients, PeerVisits(c) \/ SessionVisits(c) \/ SessionLasts(c) \/ Faults(c)
      PROVE  ExInv'
  BY <1>2, PeerVisitsStep, SessionVisitsStep, ClockStep, FaultsStep
<1>3. CASE ProcessQueue \/ ServeNext \/ SecondPasses \/ SuspendClient
  BY <1>3, ProcessQueueStep, ServeNextStep, ClockStep, SuspendClientStep
<1>4. CASE \E terminate \in BOOLEAN : SuspendFile(terminate)
  BY <1>4, SuspendFileStep
<1> QED BY <1>1, <1>2, <1>3, <1>4 DEF ExchangeNext

\* Two ends that reach each other are in one of the stages at any time.
LEMMA TalksAlways == ExchangeSpec => []ExInv
  BY InitTalks, NextTalks, PTL DEF ExchangeSpec

\* Data is sent for the blocks that are waited for, and once, as long as no write
\* was torn: whatever is refused, kicked, suspended, damaged, lost or closed in
\* between (SendBlockData, AddUploadRequest, RequestBlocks, ReceivePendingData).
THEOREM AwaitedPartsOnly == ExchangeSpec => []PartsAreAwaited
<1>1. ExInv => PartsAreAwaited
  <2> SUFFICES ASSUME ExInv, NEW c \in Clients, Reached(c), ~peer[c].torn, NEW b \in Parts
               PROVE  /\ peer[c].got[b] + PartsOnTheWay(c, b) <= PacketsPerRange
                      /\ PartsOnTheWay(c, b) > 0 => b \in peer[c].pending
    BY DEF PartsAreAwaited
  <2>1. PartsOnTheWay(c, b) = Carried(All(down[c]), b)
    BY Zenon DEF PartsOnTheWay, Carried, DataOf, All
  <2>2. /\ Staged(peer[c], All(up[c]), All(down[c]), Side(q, c), b)
        /\ peer[c] \in PeerRec /\ All(down[c]) \in Seq(DownPackets)
    BY TalkingEnds DEF Linked, Ends
  <2>3. peer[c].got[b] \in Nat /\ Carried(All(down[c]), b) \in Nat
    BY <2>2, DueIsNat
  <2> QED BY <2>1, <2>2, <2>3 DEF Staged, Due
<1> QED BY <1>1, TalksAlways, PTL

\* What is in one sequence is in the pipe.
LEMMA AllInPipe ==
  ASSUME NEW X, NEW pipe \in [out : Seq(X), wire : Seq(X)], NEW i \in DOMAIN All(pipe)
  PROVE  All(pipe)[i] \in InPipe(pipe)
<1> DEFINE w == pipe.wire
           o == pipe.out
<1>1. w \in Seq(X) /\ o \in Seq(X)
  OBVIOUS
<1>2. i \in DOMAIN (w \o o) /\ All(pipe)[i] = (w \o o)[i] /\ InPipe(pipe) = ToSet(w) \union ToSet(o)
  BY DEF All, InPipe
<1> HIDE DEF w, o
<1>3. \/ i \in DOMAIN w /\ (w \o o)[i] = w[i]
      \/ i - Len(w) \in DOMAIN o /\ (w \o o)[i] = o[i - Len(w)]
  BY <1>1, <1>2
<1> QED BY <1>2, <1>3 DEF ToSet

\* A block that a client waits for has a reason to come, or a refusal is on its
\* way, or the slot was taken away without a word; besides a torn write nothing
\* but the memory of a block whose hash failed leaves a request without answer
\* (uploadDone in AddUploadRequest, cleared with the slot only).
THEOREM UnansweredExplained == ExchangeSpec => []UnansweredIsExplained
<1>1. ExInv => UnansweredIsExplained
  <2> DEFINE Answerable(c, b) ==
        \/ \E p \in InPipe(up[c]) : b \in p.ranges
        \/ b \in q.asked[c]
        \/ peer[c].got[b] + PartsOnTheWay(c, b) = PacketsPerRange
        \/ InPipe(down[c]) \cap {Packet("OutOfParts"), Packet("QueueRanking")} # {}
        \/ c \notin Uploading(q)
        \/ b \in peer[c].failed \cap q.sent[c]
  <2>1. SUFFICES ASSUME ExInv, NEW c \in Clients, Reached(c), ~peer[c].torn,
                        NEW b \in peer[c].pending
                 PROVE  Answerable(c, b)
    BY DEF UnansweredIsExplained
  <2> DEFINE U == All(up[c])
             D == All(down[c])
  <2>2. /\ Ends(peer[c], U, D, Side(q, c), Leaving(c)) /\ up[c] \in UpPipe /\ down[c] \in DownPipe
        /\ Linked(peer[c], U, D, Side(q, c), Leaving(c)) /\ b \in Parts
    BY <2>1, TalkingEnds DEF PeerRec
  <2>3. Explained(peer[c], U, D, Side(q, c), b)
    BY <2>1, <2>2 DEF Linked, Staged
  <2>4. PartsOnTheWay(c, b) = Carried(D, b)
    BY Zenon DEF PartsOnTheWay, Carried, DataOf, All
  <2>5. /\ Side(q, c).asked = q.asked[c] /\ Side(q, c).sent = q.sent[c]
        /\ Side(q, c).slot = (c \in Uploading(q))
    BY DEF Side
  <2>6. ASSUME U # <<>> PROVE \E p \in InPipe(up[c]) : b \in p.ranges
    <3>1. U \in Seq(UpPackets) /\ 1 \in DOMAIN U /\ Head(U) = U[1] /\ Head(U) \in UpPackets
      BY <2>2, <2>6 DEF Ends
    <3>2. Head(U).kind \notin AskKinds
      <4>1. ~Greeting(U, D)
        BY <2>1, <2>2 DEF Linked, Orderly
      <4> QED BY <3>1, <4>1 DEF Greeting, Has
    <3>3. Head(U).kind = "RequestParts"
      BY <3>1, <3>2 DEF UpPackets
    <3>4. b \in Head(U).ranges
      BY <2>1, <2>2, <2>6, <3>3 DEF Linked, Orderly
    <3>5. U[1] \in InPipe(up[c])
      BY <2>2, <3>1, AllInPipe DEF UpPipe
    <3> QED BY <3>1, <3>4, <3>5
  <2>7. ASSUME Has(D, RefusalKinds)
        PROVE  InPipe(down[c]) \cap {Packet("OutOfParts"), Packet("QueueRanking")} # {}
    <3>1. PICK i \in DOMAIN D : D[i].kind \in RefusalKinds
      BY <2>7 DEF Has
    <3>2. D \in Seq(DownPackets) /\ D[i] \in DownPackets
      BY <2>2, <3>1 DEF Ends
    <3>3. D[i] \in {Packet("OutOfParts"), Packet("QueueRanking")}
      BY <3>1, <3>2 DEF DownPackets, RefusalKinds, DataKinds, Packet
    <3>4. D[i] \in InPipe(down[c])
      BY <2>2, <3>1, AllInPipe DEF DownPipe
    <3> QED BY <3>3, <3>4
  <2> HIDE DEF U, D
  <2> QED BY <2>3, <2>4, <2>5, <2>6, <2>7 DEF Explained, Due
<1> QED BY <1>1, TalksAlways, PTL

=============================================================================
