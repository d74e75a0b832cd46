----------------------------- MODULE KadProofs ------------------------------
(***************************************************************************)
(* Proofs about Kad for any network of contacts, any number of searches and*)
(* all faults. The invariant, KadInv, is TableInv for the routing table;   *)
(* Linked, between the transactions and the traversals: each observer that *)
(* is waited for has one transaction, and each transaction of a traversal  *)
(* is that of an observer which is waited for; and SearchOK, between the   *)
(* traversals and the searches that were accepted.                         *)
(*                                                                         *)
(* A packet, a time-out or a call goes through states between its steps in *)
(* which this is not so: an observer whose transaction was taken, a        *)
(* traversal with nothing out, a search with neither traversal nor answer. *)
(* TrackerInv has them as its parameters P, B and M, and each operation is *)
(* shown to preserve it for those it is used with. They are empty after    *)
(* every action.                                                           *)
(***************************************************************************)
EXTENDS KadTableProofs

-----------------------------------------------------------------------------
(* Requests and searches *)

Observers ==
  [to : Addrs, id : Ids, noID : BOOLEAN, queried : BOOLEAN, short : BOOLEAN,
   failed : BOOLEAN, alive : BOOLEAN, done : BOOLEAN, got : BOOLEAN,
   entries : SUBSET Entries]
Traversals ==
  [obs : Seq(Observers), order : Seq(Nat \ {0}), want : Int, branch : Nat,
   out : Nat, accum : SUBSET Entries, who : Nat]
Transactions ==
  [to : Addrs, op : {"bootstrapRes", "firewalledRes", "searchRes", "res", "helloRes"},
   target : Ids \cup {NoTarget}, multi : BOOLEAN, short : BOOLEAN,
   key : (Kinds \X Ids) \cup {Nobody}, obs : Nat]

\* The observers that were asked and have neither answered nor failed
Out(o) == o.queried /\ ~o.done /\ ~o.failed
Waiting(t) == {i \in DOMAIN t.obs : Out(t.obs[i])}
SlowOnes(t) == {i \in Waiting(t) : t.obs[i].short}

\* The list of a traversal has each of its observers at most once.
ListOK(t) ==
  /\ \A i \in DOMAIN t.order : t.order[i] \in DOMAIN t.obs
  /\ \A i, j \in DOMAIN t.order : t.order[i] = t.order[j] => i = j
  /\ \A i \in DOMAIN t.obs :
       t.obs[i].queried \/ (~t.obs[i].short /\ ~t.obs[i].done /\ ~t.obs[i].failed)
CountOK(t) ==
  /\ t.out = Cardinality(Waiting(t))
  /\ t.branch = Branching + Cardinality(SlowOnes(t))

\* What a transaction waits for goes with the kind of its traversal.
Fits(x) == IF x.key = Nobody THEN x.op = "helloRes" /\ ~x.multi
           ELSE x.op = Answer[x.key[1]] /\ (x.multi <=> x.key[1] \in Direct)

\* Each observer that is waited for has one transaction, but those in P, whose
\* transaction is taken already; only the traversals in B may have none out.
Awaits(run, key, i) == key \in DOMAIN run /\ i \in Waiting(run[key])
TxOK(tx) == tx \in Seq(Transactions) /\ \A j \in DOMAIN tx : Fits(tx[j])
RunOK(run, B) ==
  /\ DOMAIN run \subseteq Kinds \X Ids /\ run \in [DOMAIN run -> Traversals]
  /\ \A key \in DOMAIN run : /\ ListOK(run[key]) /\ CountOK(run[key])
                             /\ key \in B \/ run[key].out # 0
Linked(tx, run, P) ==
  /\ \A j \in DOMAIN tx : tx[j].key # Nobody =>
       Awaits(run, tx[j].key, tx[j].obs) /\ <<tx[j].key, tx[j].obs>> \notin P
  /\ \A i, j \in DOMAIN tx :
       tx[i].key # Nobody /\ tx[i].key = tx[j].key /\ tx[i].obs = tx[j].obs => i = j
  /\ \A key \in DOMAIN run : \A i \in Waiting(run[key]) :
       \/ <<key, i>> \in P
       \/ \E j \in DOMAIN tx : tx[j].key = key /\ tx[j].obs = i
  /\ \A p \in P : p = <<p[1], p[2]>> /\ Awaits(run, p[1], p[2])

\* Each search that was accepted has one traversal or its answer, but those in
\* M, and one that a rival pushed aside.
Searching == {"find-sources", "find-keywords"} \cup Direct
SearchOf(key) == <<IF key[1] \in {"find-sources", "search-sources"}
                   THEN "find-sources" ELSE "find-keywords", key[2]>>
RivalIn(A, n) == \E m \in DOMAIN A \ {n} : A[m] = A[n]
SearchOK(run, answers, A, M) ==
  /\ answers \in Seq({0, 1}) /\ Len(answers) = Len(A)
  /\ A \in Seq({"find-sources", "find-keywords"} \X Ids)
  /\ \A key \in DOMAIN run :
       IF key[1] \in Searching
       THEN run[key].who \in DOMAIN A /\ A[run[key].who] = SearchOf(key)
       ELSE run[key].who = 0
  /\ \A j, k \in DOMAIN run : run[j].who = run[k].who /\ run[j].who # 0 => j = k
  /\ \A key \in DOMAIN run : run[key].who # 0 => answers[run[key].who] = 0
  /\ \A n \in M : /\ n \in DOMAIN A /\ answers[n] = 0
                  /\ \A key \in DOMAIN run : run[key].who # n
  /\ \A n \in DOMAIN A :
       \/ answers[n] = 1 \/ n \in M \/ RivalIn(A, n)
       \/ \E key \in DOMAIN run : run[key].who = n

PlainOK(w, up) ==
  w.up = up /\ w.routers \subseteq Addrs /\ w.storage \in Addrs \cup {NoAddr}

TrackerInv(w, P, B, M, A, up) ==
  /\ TableInv(w) /\ PlainOK(w, up)
  /\ TxOK(w.tx) /\ RunOK(w.running, B) /\ Linked(w.tx, w.running, P)
  /\ SearchOK(w.running, w.answers, A, M)

KadInv ==
  /\ TrackerInv(dht, {}, {}, {}, asked, reader \in {"reading", "blocked"})
  /\ due \in BOOLEAN /\ reader \in {"new", "reading", "blocked", "failed", "closed"}

\* It holds of a tracker as long as no two threads were at work in it at once.
AloneInv == overlapped \in BOOLEAN /\ (~overlapped => KadInv)

-----------------------------------------------------------------------------
(* More about lists *)

LEMMA PrefixIs ==
  ASSUME NEW S, NEW s \in Seq(S), NEW n \in 0..Len(s)
  PROVE  /\ SubSeq(s, 1, n) \in Seq(S) /\ Len(SubSeq(s, 1, n)) = n
         /\ \A i \in 1..n : SubSeq(s, 1, n)[i] = s[i]
<1>1. Len(s) \in Nat /\ \A i \in 1..Len(s) : s[i] \in S
  BY LenProperties, ElementOfSeq
<1>2. n \in Int /\ 1 \in Int /\ \A i \in 1..n : s[i] \in S
  BY <1>1
<1> DEFINE a == SubSeq(s, 1, n)
<1>3. /\ a \in Seq(S) /\ Len(a) = IF 1 <= n THEN n - 1 + 1 ELSE 0
      /\ \A i \in 1..n - 1 + 1 : a[i] = s[1 + i - 1]
  BY <1>2, SubSeqProperties
<1> HIDE DEF a
<1>4. Len(a) = n
  BY <1>1, <1>3
<1>5. \A i \in 1..n : a[i] = s[i]
  BY <1>1, <1>3
<1> QED
  BY <1>3, <1>4, <1>5 DEF a

\* SequencesExt!InsertAt
LEMMA InsertAtIs ==
  ASSUME NEW S, NEW s \in Seq(S), NEW p \in 1..Len(s) + 1, NEW x \in S
  PROVE  /\ InsertAt(s, p, x) \in Seq(S)
         /\ Len(InsertAt(s, p, x)) = Len(s) + 1
         /\ \A i \in 1..Len(s) + 1 :
              InsertAt(s, p, x)[i] = IF i < p THEN s[i] ELSE IF i = p THEN x ELSE s[i - 1]
<1> DEFINE a == SubSeq(s, 1, p - 1)
           b == SubSeq(s, p, Len(s))
           c == <<x>>
<1>1. Len(s) \in Nat /\ p \in Nat /\ 1 <= p /\ p <= Len(s) + 1 /\ \A i \in 1..Len(s) : s[i] \in S
  BY LenProperties, ElementOfSeq
<1>2. a \in Seq(S) /\ Len(a) = p - 1 /\ \A i \in 1..p - 1 : a[i] = s[i]
  <2>1. p - 1 \in 0..Len(s)
    BY <1>1
  <2> QED
    BY <2>1, PrefixIs
<1>3. b \in Seq(S) /\ Len(b) = Len(s) + 1 - p /\ \A i \in 1..Len(s) + 1 - p : b[i] = s[p + i - 1]
  <2>1. \A i \in p..Len(s) : s[i] \in S
    BY <1>1
  <2>2. /\ b \in Seq(S) /\ Len(b) = IF p <= Len(s) THEN Len(s) - p + 1 ELSE 0
        /\ \A i \in 1..Len(s) - p + 1 : b[i] = s[p + i - 1]
    <3>1. p \in Int /\ Len(s) \in Int
      BY <1>1
    <3> QED
      BY <2>1, <3>1, SubSeqProperties
  <2> HIDE DEF b
  <2> QED
    BY <1>1, <2>2
<1>4. c \in Seq(S) /\ Len(c) = 1 /\ c[1] = x
  OBVIOUS
<1> DEFINE d == a \o c
<1> HIDE DEF a, b, c
<1>5. /\ d \in Seq(S) /\ Len(d) = p
      /\ \A i \in 1..p : d[i] = IF i < p THEN s[i] ELSE x
  <2>1. /\ d \in Seq(S) /\ Len(d) = Len(a) + Len(c)
        /\ \A i \in 1..Len(a) + Len(c) : d[i] = IF i <= Len(a) THEN a[i] ELSE c[i - Len(a)]
    BY <1>2, <1>4, ConcatProperties
  <2> HIDE DEF d
  <2>2. Len(d) = p
    BY <1>1, <1>2, <1>4, <2>1
  <2>3. ASSUME NEW i \in 1..p
        PROVE  d[i] = IF i < p THEN s[i] ELSE x
    <3>1. d[i] = IF i <= Len(a) THEN a[i] ELSE c[i - Len(a)]
      BY <1>1, <1>2, <1>4, <2>1
    <3>2. CASE i < p
      <4>1. i \in 1..p - 1 /\ i <= Len(a)
        BY <1>1, <1>2, <3>2
      <4> QED
        BY <1>2, <3>1, <3>2, <4>1
    <3>3. CASE ~(i < p)
      <4>1. i - Len(a) = 1 /\ ~(i <= Len(a))
        BY <1>1, <1>2, <3>3
      <4> QED
        BY <1>4, <3>1, <3>3, <4>1
    <3> QED
      BY <3>2, <3>3
  <2> QED
    BY <2>1, <2>2, <2>3
<1> DEFINE r == d \o b
<1> HIDE DEF d
<1>6. /\ r \in Seq(S) /\ Len(r) = Len(d) + Len(b)
      /\ \A i \in 1..Len(d) + Len(b) : r[i] = IF i <= Len(d) THEN d[i] ELSE b[i - Len(d)]
  BY <1>3, <1>5, ConcatProperties
<1>7. InsertAt(s, p, x) = r
  BY DEF InsertAt, a, b, c, d
<1> HIDE DEF r
<1>8. Len(r) = Len(s) + 1
  BY <1>1, <1>3, <1>5, <1>6
<1>9. ASSUME NEW i \in 1..Len(s) + 1
      PROVE  r[i] = IF i < p THEN s[i] ELSE IF i = p THEN x ELSE s[i - 1]
  <2>1. r[i] = IF i <= p THEN d[i] ELSE b[i - p]
    BY <1>1, <1>3, <1>5, <1>6
  <2>2. CASE i <= p
    <3>1. i \in 1..p /\ ~(i < p) => i = p
      BY <1>1, <2>2
    <3> QED
      BY <1>1, <1>5, <2>1, <2>2, <3>1
  <2>3. CASE ~(i <= p)
    <3>1. i - p \in 1..Len(s) + 1 - p /\ p + (i - p) - 1 = i - 1 /\ ~(i < p) /\ i # p
      BY <1>1, <2>3
    <3> QED
      BY <1>3, <2>1, <2>3, <3>1
  <2> QED
    BY <2>2, <2>3
<1> QED
  BY <1>6, <1>7, <1>8, <1>9

\* SequencesExt!SetToSeq
LEMMA SetToSeqIs ==
  ASSUME NEW S, IsFiniteSet(S)
  PROVE  LET s == SetToSeq(S)
         IN  /\ s \in Seq(S) /\ Len(s) \in Nat
             /\ \A i, j \in 1..Len(s) : s[i] = s[j] => i = j
             /\ \A x \in S : \E i \in 1..Len(s) : s[i] = x
<1> DEFINE n == Cardinality(S)
           s == SetToSeq(S)
<1>1. n \in Nat /\ ExistsBijection(1..n, S)
  BY FS_CardinalityType
<1>2. PICK f \in Bijection(1..n, S) : TRUE
  BY <1>1 DEF ExistsBijection
<1>3. f \in [1..n -> S] /\ IsInjective(f)
  <2>1. f \in [1..n -> S] /\ \A i, j \in 1..n : f[i] = f[j] => i = j
    BY <1>2 DEF Bijection, Injection, IsInjective
  <2> QED
    BY <2>1 DEF IsInjective
<1>4. s \in [1..n -> S] /\ IsInjective(s)
  <2>1. s = CHOOSE g \in [1..n -> S] : IsInjective(g)
    BY DEF SetToSeq
  <2> HIDE DEF s, n
  <2> QED
    BY <1>3, <2>1
<1> HIDE DEF s
<1>5. s \in Seq(S) /\ Len(s) = n /\ DOMAIN s = 1..n
  <2> HIDE DEF n
  <2> QED
    BY <1>1, <1>4
<1>6. \A i, j \in 1..n : s[i] = s[j] => i = j
  BY <1>4, <1>5 DEF IsInjective
<1>7. s \in Surjection(1..n, S)
  <2>1. s \in Injection(1..n, S)
    BY <1>4, <1>6 DEF Injection, IsInjective
  <2>2. Cardinality(1..n) = Cardinality(S)
    <3>1. 1 \in Int /\ n \in Int
      BY <1>1
    <3> HIDE DEF n
    <3>2. Cardinality(1..n) = n
      BY <1>1, <3>1, FS_Interval
    <3> QED
      BY <3>2 DEF n
  <2> QED
    BY <2>1, <2>2, FS_Injection
<1>8. \A x \in S : \E i \in 1..n : s[i] = x
  BY <1>7 DEF Surjection
<1> QED
  BY <1>1, <1>5, <1>6, <1>8 DEF s

-----------------------------------------------------------------------------
(* One traversal *)

LEMMA Parameters ==
  /\ Branching \in Nat \ {0} /\ MaxResults \in Nat \ {0} /\ Closest \in Nat
  /\ Drawn \subseteq Ids /\ Drawn # {} /\ NoAddr \notin Addrs /\ Nobody \notin Kinds \X Ids
BY TraversalAssumption, NobodyAssumption

LEMMA WaitingIs ==
  ASSUME NEW t \in Traversals
  PROVE  /\ t.obs \in Seq(Observers) /\ Len(t.obs) \in Nat /\ DOMAIN t.obs = 1..Len(t.obs)
         /\ \A i \in 1..Len(t.obs) : t.obs[i] \in Observers
         /\ t.order \in Seq(Nat \ {0}) /\ Len(t.order) \in Nat
         /\ DOMAIN t.order = 1..Len(t.order)
         /\ IsFiniteSet(Waiting(t)) /\ Cardinality(Waiting(t)) \in Nat
         /\ IsFiniteSet(SlowOnes(t)) /\ Cardinality(SlowOnes(t)) \in Nat
         /\ Waiting(t) \subseteq 1..Len(t.obs) /\ SlowOnes(t) \subseteq Waiting(t)
<1>1. t.obs \in Seq(Observers) /\ t.order \in Seq(Nat \ {0})
  BY DEF Traversals
<1>2. /\ Len(t.obs) \in Nat /\ DOMAIN t.obs = 1..Len(t.obs)
      /\ Len(t.order) \in Nat /\ DOMAIN t.order = 1..Len(t.order)
      /\ \A i \in 1..Len(t.obs) : t.obs[i] \in Observers
  BY <1>1, LenProperties, ElementOfSeq
<1>3. Waiting(t) \subseteq 1..Len(t.obs) /\ SlowOnes(t) \subseteq Waiting(t)
  BY <1>2 DEF Waiting, SlowOnes
<1>4. IsFiniteSet(1..Len(t.obs))
  <2>1. 1 \in Int /\ Len(t.obs) \in Int
    BY <1>2
  <2> QED
    BY <2>1, FS_Interval
<1>5. IsFiniteSet(Waiting(t))
  BY <1>3, <1>4, FS_Subset
<1>6. IsFiniteSet(SlowOnes(t))
  BY <1>3, <1>5, FS_Subset
<1> QED
  BY <1>1, <1>2, <1>3, <1>5, <1>6, FS_CardinalityType

\* An observer that was not asked yet
Unasked(o) == ~o.queried /\ ~o.short /\ ~o.done /\ ~o.failed

LEMMA ObserverIs ==
  ASSUME NEW a \in Addrs, NEW id \in Ids, NEW noID \in BOOLEAN
  PROVE  /\ Observer(a, id, noID) \in Observers /\ Unasked(Observer(a, id, noID))
         /\ Observer(a, id, noID).id = id
BY DEF Observer, Observers, Unasked

\* What makes the list longer leaves the requests alone.
Grows(t, v) ==
  /\ v \in Traversals /\ ListOK(v)
  /\ v.branch = t.branch /\ v.out = t.out /\ v.who = t.who
  /\ Waiting(v) = Waiting(t) /\ SlowOnes(v) = SlowOnes(t)

LEMMA GrowsAgain ==
  ASSUME NEW t, NEW u, NEW v, Grows(t, u), Grows(u, v)
  PROVE  Grows(t, v)
BY DEF Grows

LEMMA OneObserverMore ==
  ASSUME NEW t \in Traversals, ListOK(t), NEW o \in Observers, Unasked(o),
         NEW v \in Traversals, v.obs = Append(t.obs, o),
         v.branch = t.branch, v.out = t.out, v.who = t.who,
         \A i \in 1..Len(v.order) : v.order[i] \in 1..Len(t.obs) + 1,
         \A i, j \in 1..Len(v.order) : v.order[i] = v.order[j] => i = j
  PROVE  Grows(t, v)
<1>1. /\ t.obs \in Seq(Observers) /\ Len(t.obs) \in Nat /\ DOMAIN t.obs = 1..Len(t.obs)
      /\ DOMAIN v.order = 1..Len(v.order)
  BY WaitingIs
<1> DEFINE s == Append(t.obs, o)
           n == Len(t.obs)
<1>2. /\ DOMAIN s = 1..n + 1 /\ s[n + 1] = o
      /\ \A i \in 1..n : s[i] = t.obs[i]
  BY <1>1, AppendProperties, LenProperties
<1>3. 1..n + 1 = (1..n) \cup {n + 1} /\ n + 1 \notin 1..n
  BY <1>1
<1> HIDE DEF s, n
<1>4. v.obs = s
  BY DEF s
<1>5. Waiting(v) = Waiting(t)
  BY <1>1, <1>2, <1>3, <1>4 DEF Waiting, Out, Unasked, n
<1>6. SlowOnes(v) = SlowOnes(t)
  BY <1>1, <1>2, <1>3, <1>4, <1>5 DEF SlowOnes, Waiting, n
<1>7. \A i \in DOMAIN v.obs :
        v.obs[i].queried \/ (~v.obs[i].short /\ ~v.obs[i].done /\ ~v.obs[i].failed)
  BY <1>1, <1>2, <1>3, <1>4 DEF ListOK, Unasked, n
<1>8. ListOK(v)
  BY <1>1, <1>2, <1>4, <1>7 DEF ListOK, n
<1> QED
  BY <1>5, <1>6, <1>8 DEF Grows

\* kadTraversal.addNode
LEMMA AddCandidateGrows ==
  ASSUME NEW t \in Traversals, ListOK(t), NEW a \in Addrs, NEW id \in Ids
  PROVE  Grows(t, AddCandidate(t, a, id))
<1> DEFINE o == Observer(a, id, FALSE)
           p == Len(t.obs) + 1
           s == Append(t.obs, o)
           r == Append(t.order, p)
           v == AddCandidate(t, a, id)
<1>1. /\ t.obs \in Seq(Observers) /\ Len(t.obs) \in Nat /\ DOMAIN t.obs = 1..Len(t.obs)
      /\ t.order \in Seq(Nat \ {0}) /\ Len(t.order) \in Nat /\ DOMAIN t.order = 1..Len(t.order)
  BY WaitingIs
<1>2. o \in Observers /\ Unasked(o)
  BY ObserverIs
<1> HIDE DEF o
<1>3. s \in Seq(Observers)
  BY <1>1, <1>2, AppendProperties
<1>4. p \in Nat \ {0}
  BY <1>1
<1>5. /\ r \in Seq(Nat \ {0}) /\ Len(r) = Len(t.order) + 1 /\ r[Len(t.order) + 1] = p
      /\ \A i \in 1..Len(t.order) : r[i] = t.order[i]
  BY <1>1, <1>4, AppendProperties
<1>6. \A i \in 1..Len(t.order) : t.order[i] \in 1..Len(t.obs) /\ t.order[i] # p
  BY <1>1 DEF ListOK
<1> HIDE DEF s, r, p
<1> DEFINE m == Len(t.order) + 1
<1>7. v = [t EXCEPT !.obs = s, !.order = r, !.want = m]
  BY DEF AddCandidate, s, r, p, o
<1>8. /\ v \in Traversals /\ v.obs = s /\ v.order = r
      /\ v.branch = t.branch /\ v.out = t.out /\ v.who = t.who
  <2>1. m \in Int
    BY <1>1
  <2> HIDE DEF m, v
  <2> QED
    BY <1>3, <1>5, <1>7, <2>1 DEF Traversals
<1> HIDE DEF v
<1>9. \A i \in 1..Len(r) : i \in 1..Len(t.order) \/ i = Len(t.order) + 1
  BY <1>1, <1>5
<1>10. \A i \in 1..Len(r) : r[i] \in 1..Len(t.obs) + 1
  <2>1. p \in 1..Len(t.obs) + 1 /\ 1..Len(t.obs) \subseteq 1..Len(t.obs) + 1
    BY <1>1 DEF p
  <2> QED
    BY <1>5, <1>6, <1>9, <2>1
<1>11. \A i, j \in 1..Len(t.order) : t.order[i] = t.order[j] => i = j
  BY <1>1 DEF ListOK
<1>12. \A i, j \in 1..Len(r) : r[i] = r[j] => i = j
  BY <1>5, <1>6, <1>9, <1>11
<1> QED
  BY <1>2, <1>8, <1>10, <1>12, OneObserverMore DEF s, v

LEMMA FirstNumbers ==
  ASSUME NEW n \in Nat
  PROVE  IsFiniteSet(1..n) /\ Cardinality(1..n) = n
<1>1. 1 \in Int /\ n \in Int
  OBVIOUS
<1>2. IsFiniteSet(1..n) /\ Cardinality(1..n) = IF 1 > n THEN 0 ELSE n - 1 + 1
  BY <1>1, FS_Interval
<1> QED
  BY <1>2

\* addEntry
LEMMA AddEntryGrows ==
  ASSUME NEW t \in Traversals, ListOK(t), NEW target \in Ids, NEW a \in Addrs,
         NEW id \in Ids \cup {NoId}
  PROVE  Grows(t, AddEntry(t, target, a, id))
<1> DEFINE new == {d \in Drawn : \A i \in DOMAIN t.obs : t.obs[i].id # d}
           drawn == CHOOSE d \in Drawn : new # {} => d \in new
           o == IF id = NoId THEN Observer(a, drawn, TRUE) ELSE Observer(a, id, FALSE)
           A == {i \in DOMAIN t.order : Closer(t.obs[t.order[i]].id, o.id, target)}
           ahead == Cardinality(A)
           p == Len(t.obs) + 1
           grown == InsertAt(t.order, ahead + 1, p)
           m == IF Len(grown) > MaxResults THEN MaxResults ELSE Len(grown)
           r == SubSeq(grown, 1, m)
           s == Append(t.obs, o)
           v == [t EXCEPT !.obs = s, !.order = r]
<1>1. /\ t.obs \in Seq(Observers) /\ Len(t.obs) \in Nat /\ DOMAIN t.obs = 1..Len(t.obs)
      /\ t.order \in Seq(Nat \ {0}) /\ Len(t.order) \in Nat /\ DOMAIN t.order = 1..Len(t.order)
  BY WaitingIs
<1>2. AddEntry(t, target, a, id) = IF /\ ahead < Len(t.order)
                                      /\ t.obs[t.order[ahead + 1]].id = o.id
                                   THEN t ELSE v
  BY DEF AddEntry
<1>3. drawn \in Ids
  <2>1. \E d \in Drawn : new # {} => d \in new
    <3>1. new \subseteq Drawn
      OBVIOUS
    <3> HIDE DEF new
    <3> QED
      BY <3>1, Parameters
  <2>2. drawn \in Drawn
    <3> HIDE DEF new
    <3> QED
      BY <2>1
  <2> HIDE DEF drawn
  <2> QED
    BY <2>2, Parameters
<1> HIDE DEF drawn
<1>4. o \in Observers /\ Unasked(o)
  BY <1>3, ObserverIs
<1> HIDE DEF o
<1>5. ahead \in 0..Len(t.order)
  <2>1. A \subseteq 1..Len(t.order)
    BY <1>1
  <2>2. IsFiniteSet(1..Len(t.order)) /\ Cardinality(1..Len(t.order)) = Len(t.order)
    BY <1>1, FirstNumbers
  <2> HIDE DEF A
  <2>3. IsFiniteSet(A) /\ Cardinality(A) <= Len(t.order)
    BY <2>1, <2>2, FS_Subset
  <2>4. Cardinality(A) \in Nat
    BY <2>3, FS_CardinalityType
  <2> QED
    BY <1>1, <2>3, <2>4
<1> HIDE DEF ahead
<1>6. s \in Seq(Observers)
  BY <1>1, <1>4, AppendProperties
<1>7. p \in Nat \ {0} /\ ahead + 1 \in 1..Len(t.order) + 1
  BY <1>1, <1>5
<1>8. /\ grown \in Seq(Nat \ {0}) /\ Len(grown) = Len(t.order) + 1
      /\ \A i \in 1..Len(t.order) + 1 :
           grown[i] = IF i < ahead + 1 THEN t.order[i]
                      ELSE IF i = ahead + 1 THEN p ELSE t.order[i - 1]
  <2> DEFINE q == ahead + 1
             S == Nat \ {0}
  <2>1. t.order \in Seq(S) /\ p \in S /\ q \in 1..Len(t.order) + 1
    BY <1>1, <1>7
  <2>2. grown = InsertAt(t.order, q, p)
    OBVIOUS
  <2> HIDE DEF p, q, S, grown
  <2>3. PICK list : list = t.order
    OBVIOUS
  <2>4. list \in Seq(S) /\ p \in S /\ q \in 1..Len(list) + 1 /\ grown = InsertAt(list, q, p)
    BY <2>1, <2>2, <2>3
  <2>5. /\ grown \in Seq(S) /\ Len(grown) = Len(list) + 1
        /\ \A i \in 1..Len(list) + 1 :
             grown[i] = IF i < q THEN list[i] ELSE IF i = q THEN p ELSE list[i - 1]
    BY ONLY <2>4, InsertAtIs, SMTT(30)
  <2> QED
    BY <2>3, <2>5 DEF q, S
<1> HIDE DEF grown
<1>9. \A i \in 1..Len(t.order) : t.order[i] \in 1..Len(t.obs) /\ t.order[i] # p
  BY <1>1 DEF ListOK
<1>10. p \in 1..Len(t.obs) + 1 /\ 1..Len(t.obs) \subseteq 1..Len(t.obs) + 1
  BY <1>1
<1> HIDE DEF p
<1>11. ASSUME NEW i \in 1..Len(t.order) + 1
       PROVE  /\ i < ahead + 1 => i \in 1..Len(t.order) /\ grown[i] = t.order[i]
              /\ i > ahead + 1 => i - 1 \in 1..Len(t.order) /\ grown[i] = t.order[i - 1]
              /\ i = ahead + 1 => grown[i] = p
  BY <1>1, <1>5, <1>8
<1>12. \A i, j \in 1..Len(t.order) : t.order[i] = t.order[j] => i = j
  BY <1>1 DEF ListOK
<1>13. ASSUME NEW i \in 1..Len(t.order) + 1
       PROVE  grown[i] \in 1..Len(t.obs) + 1
  <2>1. CASE i < ahead + 1
    BY <1>9, <1>10, <1>11, <2>1
  <2>2. CASE i > ahead + 1
    BY <1>9, <1>10, <1>11, <2>2
  <2>3. CASE i = ahead + 1
    BY <1>10, <1>11, <2>3
  <2> QED
    BY <1>1, <1>5, <2>1, <2>2, <2>3
<1>14. ASSUME NEW i \in 1..Len(t.order) + 1, NEW j \in 1..Len(t.order) + 1,
              grown[i] = grown[j]
       PROVE  i = j
  <2> DEFINE q == ahead + 1
  <2>1. /\ q \in Int /\ i \in Int /\ j \in Int
        /\ \A k \in {i, j} : /\ k < q => k \in 1..Len(t.order) /\ grown[k] = t.order[k]
                             /\ k > q => k - 1 \in 1..Len(t.order) /\ grown[k] = t.order[k - 1]
                             /\ k = q => grown[k] = p
    BY <1>1, <1>5, <1>11
  <2> HIDE DEF q
  <2>2. CASE i = q \/ j = q
    BY <1>9, <1>14, <2>1, <2>2
  <2>3. CASE i < q /\ j < q
    BY <1>12, <1>14, <2>1, <2>3
  <2>4. CASE i > q /\ j > q
    <3>1. i - 1 = j - 1
      BY <1>12, <1>14, <2>1, <2>4
    <3> QED
      BY <2>1, <3>1
  <2>5. CASE i < q /\ j > q
    <3>1. i = j - 1
      BY <1>12, <1>14, <2>1, <2>5
    <3> QED
      BY <2>1, <2>5, <3>1
  <2>6. CASE i > q /\ j < q
    <3>1. j = i - 1
      BY <1>12, <1>14, <2>1, <2>6
    <3> QED
      BY <2>1, <2>6, <3>1
  <2> QED
    BY <2>1, <2>2, <2>3, <2>4, <2>5, <2>6
<1>15. m \in 0..Len(grown) /\ 1..m \subseteq 1..Len(t.order) + 1
  BY <1>1, <1>8, Parameters
<1> HIDE DEF m
<1>16. r \in Seq(Nat \ {0}) /\ Len(r) = m /\ \A i \in 1..m : r[i] = grown[i]
  BY <1>8, <1>15, PrefixIs
<1> HIDE DEF r, s
<1>17. /\ v \in Traversals /\ v.obs = s /\ v.order = r
       /\ v.branch = t.branch /\ v.out = t.out /\ v.who = t.who
  BY <1>6, <1>16 DEF Traversals
<1> HIDE DEF v
<1>18. /\ \A i \in 1..Len(r) : r[i] \in 1..Len(t.obs) + 1
       /\ \A i, j \in 1..Len(r) : r[i] = r[j] => i = j
  BY <1>13, <1>14, <1>15, <1>16
<1>19. Grows(t, v)
  BY <1>4, <1>17, <1>18, OneObserverMore DEF s
<1>20. Grows(t, t)
  BY DEF Grows
<1> QED
  BY <1>2, <1>19, <1>20

\* addEntry, again and again
LEMMA AddUnknownGrows ==
  ASSUME NEW t \in Traversals, ListOK(t), NEW target \in Ids, NEW list \in Seq(Addrs)
  PROVE  Grows(t, AddUnknown(t, target, list))
<1>1. PICK n \in Nat : n = Len(list)
  BY LenProperties
<1>steps. PICK now : StepsUnknown(now, t, target, list, n)
  BY ONLY <1>1, FoldUnknown
<1>2. /\ now[0] = t /\ now[n] = AddUnknown(t, target, list)
      /\ \A i \in 0..(n - 1) : now[i + 1] = AddEntry(now[i], target, list[i + 1], NoId)
  BY <1>steps DEF StepsUnknown
<1> DEFINE good == {i \in 0..n : Grows(t, now[i])}
<1>3. 0 \in good
  BY <1>1, <1>2 DEF Grows
<1>4. ASSUME NEW i \in 0..(n - 1), i \in good
      PROVE  i + 1 \in good
  <2>1. Grows(t, now[i]) /\ i + 1 \in 1..Len(list) /\ i + 1 \in 0..n
    BY <1>1, <1>4
  <2>2. list[i + 1] \in Addrs
    BY <2>1, ElementOfSeq
  <2>3. Grows(now[i], now[i + 1])
    BY <1>2, <2>1, <2>2, AddEntryGrows DEF Grows
  <2> QED
    BY <2>1, <2>3, GrowsAgain
<1>5. n \in good
  <2> HIDE DEF good
  <2> QED
    BY <1>1, <1>3, <1>4, UpTo, SMTT(30)
<1> QED
  BY <1>2, <1>5

\* The contacts that a search starts from
LEMMA AddContactsGrows ==
  ASSUME NEW w, TableInv(w), NEW t \in Traversals, ListOK(t), NEW list \in Seq(Named(w))
  PROVE  Grows(t, AddContacts(w, t, list))
<1>1. PICK n \in Nat : n = Len(list)
  BY LenProperties
<1>steps. PICK now : StepsCandidates(now, t, w, list, n)
  BY ONLY <1>1, FoldCandidates
<1>2. /\ now[0] = t /\ now[n] = AddContacts(w, t, list)
      /\ \A i \in 0..(n - 1) : now[i + 1] = AddContact(w, now[i], list[i + 1])
  BY <1>steps DEF StepsCandidates
<1> DEFINE good == {i \in 0..n : Grows(t, now[i])}
<1>3. 0 \in good
  BY <1>1, <1>2 DEF Grows
<1>4. ASSUME NEW i \in 0..(n - 1), i \in good
      PROVE  i + 1 \in good
  <2>1. Grows(t, now[i]) /\ i + 1 \in 1..Len(list) /\ i + 1 \in 0..n
    BY <1>1, <1>4
  <2>2. list[i + 1] \in Named(w)
    BY <2>1, ElementOfSeq
  <2>3. w.nodes[list[i + 1]].addr \in Addrs /\ w.nodes[list[i + 1]].id \in Ids
    BY <2>2 DEF Named, TableInv, NodesInv, Contact
  <2>4. Grows(now[i], now[i + 1])
    BY <1>2, <2>1, <2>3, AddCandidateGrows DEF Grows, AddContact
  <2> QED
    BY <2>1, <2>4, GrowsAgain
<1>5. n \in good
  <2> HIDE DEF good
  <2> QED
    BY <1>1, <1>3, <1>4, UpTo, SMTT(30)
<1> QED
  BY <1>2, <1>5

\* The observers that a find hands to the direct search
LEMMA HandOverGrows ==
  ASSUME NEW t \in Traversals, ListOK(t), NEW u \in Traversals, ListOK(u)
  PROVE  Grows(u, HandOverAll(t, u))
<1>0. /\ \A i \in 1..Len(t.obs) : t.obs[i] \in Observers
      /\ DOMAIN t.obs = 1..Len(t.obs) /\ DOMAIN t.order = 1..Len(t.order)
  BY WaitingIs
<1>1. PICK n \in Nat : n = Len(t.order)
  BY WaitingIs
<1>steps. PICK now : StepsDirect(now, u, t, n)
  BY ONLY <1>1, FoldDirect
<1>2. /\ now[0] = u /\ now[n] = HandOverAll(t, u)
      /\ \A i \in 0..(n - 1) : now[i + 1] = HandOver(t, now[i], t.order[i + 1])
  BY <1>steps DEF StepsDirect
<1> DEFINE good == {i \in 0..n : Grows(u, now[i])}
<1>3. 0 \in good
  BY <1>1, <1>2 DEF Grows
<1>4. ASSUME NEW i \in 0..(n - 1), i \in good
      PROVE  i + 1 \in good
  <2> DEFINE k == t.order[i + 1]
  <2>1. Grows(u, now[i]) /\ i + 1 \in 1..Len(t.order) /\ i + 1 \in 0..n
    BY <1>1, <1>4
  <2>2. k \in 1..Len(t.obs)
    BY <1>0, <2>1 DEF ListOK
  <2>3. t.obs[k].to \in Addrs /\ t.obs[k].id \in Ids
    BY <1>0, <2>2 DEF Observers
  <2>4. now[i + 1] = HandOver(t, now[i], k)
    BY <1>2
  <2> HIDE DEF k
  <2>5. Grows(now[i], now[i + 1])
    <3>1. CASE t.obs[k].failed
      BY <2>1, <2>4, <3>1 DEF HandOver, Grows
    <3>2. CASE ~t.obs[k].failed
      BY <2>1, <2>3, <2>4, <3>2, AddCandidateGrows DEF HandOver, Grows
    <3> QED
      BY <3>1, <3>2
  <2> QED
    BY <2>1, <2>5, GrowsAgain
<1>5. n \in good
  <2> HIDE DEF good
  <2> QED
    BY <1>1, <1>3, <1>4, UpTo, SMTT(30)
<1> QED
  BY <1>2, <1>5

-----------------------------------------------------------------------------
(* The contacts that a search starts from *)

LEMMA NearerIs ==
  ASSUME NEW S, NEW list \in Seq(S), NEW w, NEW target, NEW n \in S
  PROVE  Nearer(w, target, list, n) \in Seq(S)
<1> DEFINE A == {i \in DOMAIN list : ~Closer(w.nodes[n].id, w.nodes[list[i]].id, target)}
           p == Cardinality(A) + 1
<1>1. Len(list) \in Nat /\ DOMAIN list = 1..Len(list)
  BY LenProperties
<1>2. IsFiniteSet(1..Len(list)) /\ Cardinality(1..Len(list)) = Len(list)
  BY <1>1, FirstNumbers
<1>3. A \subseteq 1..Len(list)
  BY <1>1
<1>4. Nearer(w, target, list, n) = InsertAt(list, p, n)
  BY DEF Nearer
<1> HIDE DEF A
<1>5. IsFiniteSet(A) /\ Cardinality(A) <= Len(list)
  BY <1>2, <1>3, FS_Subset
<1>6. p \in 1..Len(list) + 1
  BY <1>1, <1>5, FS_CardinalityType
<1> HIDE DEF p
<1>7. InsertAt(list, p, n) \in Seq(S)
  BY ONLY <1>6, list \in Seq(S), n \in S, InsertAtIs
<1> QED
  BY ONLY <1>4, <1>7

LEMMA AllNearerIs ==
  ASSUME NEW S, NEW found \in Seq(S), NEW live \in Seq(S), NEW w, NEW target
  PROVE  AllNearer(w, target, found, live) \in Seq(S)
<1>1. PICK n \in Nat : n = Len(live)
  BY LenProperties
<1>steps. PICK now : StepsNearer(now, found, w, target, live, n)
  BY ONLY <1>1, FoldNearer
<1>2. /\ now[0] = found /\ now[n] = AllNearer(w, target, found, live)
      /\ \A i \in 0..(n - 1) : now[i + 1] = Nearer(w, target, now[i], live[i + 1])
  BY <1>steps DEF StepsNearer
<1> DEFINE good == {i \in 0..n : now[i] \in Seq(S)}
<1>3. 0 \in good
  BY <1>1, <1>2
<1>4. ASSUME NEW i \in 0..(n - 1), i \in good
      PROVE  i + 1 \in good
  <2>1. now[i] \in Seq(S) /\ i + 1 \in 1..Len(live) /\ i + 1 \in 0..n
    BY <1>1, <1>4
  <2>2. live[i + 1] \in S
    BY <2>1, ElementOfSeq
  <2>3. now[i + 1] \in Seq(S)
    BY <1>2, <2>1, <2>2, NearerIs
  <2> QED
    BY <2>1, <2>3
<1>5. n \in good
  <2> HIDE DEF good
  <2>1. n \in 0..n
    BY <1>1
  <2>2. \A i \in 0..n : i \in good
    BY ONLY <1>3, <1>4, n \in Nat, UpTo, ZenonT(30)
  <2> QED
    BY <2>1, <2>2
<1> QED
  BY <1>2, <1>5

LEMMA ByDistanceIs ==
  ASSUME NEW S, NEW T, T = Seq(S), NEW lists \in Seq(T), NEW found \in T,
         NEW w, NEW target
  PROVE  ByDistance(w, target, found, lists) \in Seq(S)
<1>1. PICK n \in Nat : n = Len(lists)
  BY LenProperties
<1>steps. PICK now : StepsAllLive(now, found, w, target, lists, n)
  BY ONLY <1>1, FoldAllLive
<1>2. /\ now[0] = found /\ now[n] = ByDistance(w, target, found, lists)
      /\ \A i \in 0..(n - 1) : now[i + 1] = AllNearer(w, target, now[i], lists[i + 1])
  BY <1>steps DEF StepsAllLive
<1> DEFINE good == {i \in 0..n : now[i] \in Seq(S)}
<1>3. 0 \in good
  BY <1>1, <1>2
<1>4. ASSUME NEW i \in 0..(n - 1), i \in good
      PROVE  i + 1 \in good
  <2>1. now[i] \in Seq(S) /\ i + 1 \in 1..Len(lists) /\ i + 1 \in 0..n
    BY <1>1, <1>4
  <2>2. lists[i + 1] \in T
    BY <2>1, ElementOfSeq
  <2>3. now[i + 1] \in Seq(S)
    BY <1>2, <2>1, <2>2, AllNearerIs
  <2> QED
    BY <2>1, <2>3
<1>5. n \in good
  <2> HIDE DEF good
  <2>1. n \in 0..n
    BY <1>1
  <2>2. \A i \in 0..n : i \in good
    BY ONLY <1>3, <1>4, n \in Nat, UpTo, ZenonT(30)
  <2> QED
    BY <2>1, <2>2
<1> QED
  BY <1>2, <1>5

\* FindClosest returns contacts that have an identifier.
LEMMA FindClosestIs ==
  ASSUME NEW w, TableInv(w), NEW target
  PROVE  FindClosest(w, target, Closest) \in Seq(Named(w))
<1> DEFINE S == Named(w)
           keys == ByDistance(w, target, << >>, w.live)
           m == IF Len(keys) < Closest THEN Len(keys) ELSE Closest
<1>1. FindClosest(w, target, Closest) = SubSeq(keys, 1, m)
  BY DEF FindClosest, ByDistance
<1> HIDE DEF S
<1>2. w.live \in Seq(Seq(S))
  <2>1. w.live \in [1..Bits -> Seq(Keys)] /\ Bits \in Nat
    BY Constants DEF TableInv, ListsInv
  <2>2. ASSUME NEW b \in 1..Bits
        PROVE  w.live[b] \in Seq(S)
    <3>1. PICK s : s = w.live[b]
      OBVIOUS
    <3>2. s \in Seq(Keys) /\ ToSet(s) \subseteq S
      BY <3>1, Constants DEF TableInv, ListsInv, BucketOK, Clean, S
    <3>3. s \in [1..Len(s) -> Keys] /\ Len(s) \in Nat
      BY <3>2, LenProperties
    <3>4. \A i \in 1..Len(s) : s[i] \in S
      BY <3>2, ToSetIs
    <3>5. s \in [1..Len(s) -> S]
      BY <3>3, <3>4
    <3> QED
      BY <3>1, <3>3, <3>5
  <2>3. w.live \in [1..Bits -> Seq(S)]
    BY <2>1, <2>2
  <2> DEFINE T == Seq(S)
  <2>4. w.live \in [1..Bits -> T]
    BY <2>3
  <2> HIDE DEF T
  <2> QED
    BY <2>1, <2>4 DEF T
<1>3. keys \in Seq(S)
  <2>1. << >> \in Seq(S)
    BY EmptySeq
  <2>2. PICK lists : lists = w.live
    OBVIOUS
  <2>3. lists \in Seq(Seq(S)) /\ keys = ByDistance(w, target, << >>, lists)
    BY <1>2, <2>2
  <2>4. PICK T : T = Seq(S)
    OBVIOUS
  <2>5. lists \in Seq(T) /\ << >> \in T
    BY <2>1, <2>3, <2>4
  <2> HIDE DEF keys
  <2> QED
    BY <2>3, <2>4, <2>5, ByDistanceIs
<1> HIDE DEF keys
<1>4. m \in 0..Len(keys)
  <2>1. Len(keys) \in Nat
    BY <1>3, LenProperties
  <2> QED
    BY <2>1, Parameters
<1> HIDE DEF m
<1>5. SubSeq(keys, 1, m) \in Seq(S)
  BY <1>3, <1>4, PrefixIs
<1> QED
  BY <1>1, <1>5 DEF S

-----------------------------------------------------------------------------
(* Requests that end, and requests that are made *)

\* One observer that was asked changes.
Changed(t, i, o, v) == v.obs = [t.obs EXCEPT ![i] = o] /\ v.order = t.order
LEMMA OneObserver ==
  ASSUME NEW t \in Traversals, ListOK(t), NEW i \in 1..Len(t.obs), t.obs[i].queried,
         NEW o \in Observers, o.queried,
         NEW v \in Traversals, Changed(t, i, o, v)
  PROVE  /\ ListOK(v)
         /\ Waiting(v) = IF Out(o) THEN Waiting(t) \cup {i} ELSE Waiting(t) \ {i}
         /\ SlowOnes(v) = IF Out(o) /\ o.short THEN SlowOnes(t) \cup {i}
                          ELSE SlowOnes(t) \ {i}
<1>1. /\ t.obs \in Seq(Observers) /\ DOMAIN t.obs = 1..Len(t.obs)
      /\ DOMAIN t.order = 1..Len(t.order)
  BY WaitingIs
<1> DEFINE s == [t.obs EXCEPT ![i] = o]
<1>2. /\ DOMAIN s = DOMAIN t.obs /\ s[i] = o
      /\ \A j \in DOMAIN t.obs : j # i => s[j] = t.obs[j]
  BY <1>1
<1> HIDE DEF s
<1>3. v.obs = s /\ v.order = t.order
  BY DEF s, Changed
<1>4. ListOK(v)
  BY <1>1, <1>2, <1>3 DEF ListOK
<1>5. Waiting(v) = IF Out(o) THEN Waiting(t) \cup {i} ELSE Waiting(t) \ {i}
  BY <1>1, <1>2, <1>3 DEF Waiting
<1>6. SlowOnes(v) = IF Out(o) /\ o.short THEN SlowOnes(t) \cup {i} ELSE SlowOnes(t) \ {i}
  BY <1>1, <1>2, <1>3 DEF SlowOnes, Waiting
<1> QED
  BY <1>4, <1>5, <1>6

\* finished, failed: the request is counted off, with its place if it was slow.
LEMMA EndedIs ==
  ASSUME NEW t \in Traversals, ListOK(t), CountOK(t), NEW i \in Waiting(t),
         NEW o \in Observers, o.queried, o.done, NEW v \in Traversals,
         Changed(t, i, o, v),
         v.out = Ended(t, i).out, v.branch = Ended(t, i).branch
  PROVE  ListOK(v) /\ CountOK(v) /\ Waiting(v) = Waiting(t) \ {i}
<1>1. /\ i \in 1..Len(t.obs) /\ t.obs[i].queried
      /\ IsFiniteSet(Waiting(t)) /\ Cardinality(Waiting(t)) \in Nat
      /\ IsFiniteSet(SlowOnes(t)) /\ Cardinality(SlowOnes(t)) \in Nat
      /\ i \in SlowOnes(t) <=> t.obs[i].short
  BY WaitingIs DEF Waiting, Out, SlowOnes
<1>2. ListOK(v) /\ Waiting(v) = Waiting(t) \ {i} /\ SlowOnes(v) = SlowOnes(t) \ {i}
  BY <1>1, OneObserver DEF Out
<1>3. Cardinality(Waiting(t)) > 0 /\ (t.obs[i].short => Cardinality(SlowOnes(t)) > 0)
  <2>1. Waiting(t) # {} /\ (t.obs[i].short => SlowOnes(t) # {})
    BY <1>1
  <2> QED
    BY <1>1, <2>1, FS_EmptySet
<1>4. v.out = t.out - 1
  <2>1. v.out = IF t.out > 0 THEN t.out - 1 ELSE t.out
    BY DEF Ended, Traversals
  <2> QED
    BY <1>3, <2>1 DEF CountOK
<1>5. v.branch = IF t.obs[i].short THEN t.branch - 1 ELSE t.branch
  <2>1. v.branch = IF t.obs[i].short /\ t.branch > 1 THEN t.branch - 1 ELSE t.branch
    BY DEF Ended, Traversals
  <2>2. t.obs[i].short => t.branch > 1
    BY <1>1, <1>3, Parameters DEF CountOK
  <2> QED
    BY <2>1, <2>2
<1>6. Cardinality(Waiting(v)) = Cardinality(Waiting(t)) - 1
  BY <1>1, <1>2, FS_RemoveElement, ZenonT(40)
<1>7. Cardinality(SlowOnes(v)) = IF t.obs[i].short THEN Cardinality(SlowOnes(t)) - 1
                                 ELSE Cardinality(SlowOnes(t))
  BY <1>1, <1>2, FS_RemoveElement, ZenonT(40)
<1>8. CountOK(v)
  <2>1. v.out = Cardinality(Waiting(v))
    BY <1>1, <1>4, <1>6 DEF CountOK
  <2>2. v.branch = Branching + Cardinality(SlowOnes(v))
    BY <1>1, <1>5, <1>7, Parameters DEF CountOK
  <2> QED
    BY <2>1, <2>2 DEF CountOK
<1> QED
  BY <1>2, <1>8

\* The short time-out makes room for one more request.
LEMMA SlowedIs ==
  ASSUME NEW t \in Traversals, ListOK(t), CountOK(t), NEW i \in Waiting(t),
         ~t.obs[i].short, NEW v,
         v = [t EXCEPT !.obs[i].short = TRUE, !.branch = @ + 1]
  PROVE  /\ v \in Traversals /\ ListOK(v) /\ CountOK(v)
         /\ Waiting(v) = Waiting(t) /\ v.out = t.out /\ v.who = t.who
<1>1. /\ t.obs \in Seq(Observers) /\ i \in 1..Len(t.obs) /\ t.obs[i] \in Observers
      /\ Out(t.obs[i]) /\ t.obs[i].queried
      /\ IsFiniteSet(SlowOnes(t)) /\ Cardinality(SlowOnes(t)) \in Nat
      /\ i \notin SlowOnes(t)
  BY WaitingIs DEF Waiting, Out, SlowOnes
<1> DEFINE o == [t.obs[i] EXCEPT !.short = TRUE]
           s == [t.obs EXCEPT ![i] = o]
           b == t.branch + 1
<1>2. o \in Observers /\ o.queried /\ o.short /\ Out(o)
  BY <1>1 DEF Observers, Out
<1> HIDE DEF o
<1>3. s \in Seq(Observers)
  BY <1>1, <1>2, ExceptSeq
<1>4. v = [t EXCEPT !.obs = s, !.branch = b]
  BY <1>1 DEF o, Traversals
<1>5. t.branch \in Nat /\ b \in Nat
  BY DEF Traversals
<1> HIDE DEF s, b
<1>6. /\ v \in Traversals /\ v.obs = s /\ v.order = t.order /\ v.branch = b
      /\ v.out = t.out /\ v.who = t.who
  BY <1>3, <1>4, <1>5 DEF Traversals
<1>7. ListOK(v) /\ Waiting(v) = Waiting(t) /\ SlowOnes(v) = SlowOnes(t) \cup {i}
  <2>1. Changed(t, i, o, v)
    BY <1>6 DEF s, Changed
  <2>2. /\ Waiting(v) = IF Out(o) THEN Waiting(t) \cup {i} ELSE Waiting(t) \ {i}
        /\ SlowOnes(v) = IF Out(o) /\ o.short THEN SlowOnes(t) \cup {i}
                         ELSE SlowOnes(t) \ {i}
        /\ ListOK(v)
    BY ONLY <1>1, <1>2, <1>6, <2>1, ListOK(t), OneObserver
  <2> QED
    BY <1>1, <1>2, <2>2
<1>8. Cardinality(SlowOnes(v)) = Cardinality(SlowOnes(t)) + 1
  BY <1>1, <1>7, FS_AddElement
<1>9. CountOK(v)
  BY <1>1, <1>6, <1>7, <1>8, Parameters DEF CountOK, b
<1> QED
  BY <1>6, <1>7, <1>9

\* An answer of a direct search changes no count.
Finds(t, i, es, v) ==
  v = [t EXCEPT !.obs[i].entries = @ \cup es, !.obs[i].got = TRUE]
LEMMA FoundIs ==
  ASSUME NEW t \in Traversals, ListOK(t), CountOK(t), NEW i \in Waiting(t),
         NEW es \in SUBSET Entries, NEW v, Finds(t, i, es, v)
  PROVE  /\ v \in Traversals /\ ListOK(v) /\ CountOK(v)
         /\ Waiting(v) = Waiting(t) /\ v.out = t.out /\ v.who = t.who
<1>1. /\ t.obs \in Seq(Observers) /\ i \in 1..Len(t.obs) /\ t.obs[i] \in Observers
      /\ Out(t.obs[i]) /\ t.obs[i].queried
      /\ i \in SlowOnes(t) <=> t.obs[i].short
  BY WaitingIs DEF Waiting, Out, SlowOnes
<1> DEFINE e == t.obs[i].entries \cup es
           o == [t.obs[i] EXCEPT !.entries = e, !.got = TRUE]
           s == [t.obs EXCEPT ![i] = o]
<1>2. e \in SUBSET Entries
  BY <1>1 DEF Observers
<1>3. v = [t EXCEPT !.obs = s]
  BY <1>1, ZenonT(40) DEF Traversals, Observers, Finds
<1> HIDE DEF e
<1>4. o \in Observers /\ o.queried /\ o.short = t.obs[i].short /\ Out(o)
  BY <1>1, <1>2 DEF Observers, Out
<1> HIDE DEF o
<1>5. s \in Seq(Observers)
  BY <1>1, <1>4, ExceptSeq
<1> HIDE DEF s
<1>6. /\ v \in Traversals /\ v.obs = s /\ v.order = t.order /\ v.branch = t.branch
      /\ v.out = t.out /\ v.who = t.who
  BY <1>3, <1>5 DEF Traversals
<1>7. ListOK(v) /\ Waiting(v) = Waiting(t) /\ SlowOnes(v) = SlowOnes(t)
  <2>1. Changed(t, i, o, v)
    BY <1>6 DEF s, Changed
  <2>2. /\ Waiting(v) = IF Out(o) THEN Waiting(t) \cup {i} ELSE Waiting(t) \ {i}
        /\ SlowOnes(v) = IF Out(o) /\ o.short THEN SlowOnes(t) \cup {i}
                         ELSE SlowOnes(t) \ {i}
        /\ ListOK(v)
    BY ONLY <1>1, <1>4, <1>6, <2>1, ListOK(t), OneObserver
  <2> QED
    BY <1>1, <1>4, <2>2
<1> QED
  BY <1>6, <1>7 DEF CountOK

\* What addRequests has done after the first m observers of its list
Passes == [left : Int, out : Nat, sent : Seq(Nat), lost : SUBSET Nat]
PassOK(t, m, acc) ==
  /\ acc \in Passes /\ acc.out = t.out + Len(acc.sent)
  /\ \A i, j \in 1..Len(acc.sent) : acc.sent[i] = acc.sent[j] => i = j
  /\ \A i \in 1..Len(acc.sent) : /\ acc.sent[i] \notin acc.lost
                                 /\ ~t.obs[acc.sent[i]].queried
                                 /\ \E k \in 1..m : acc.sent[i] = t.order[k]
  /\ \A x \in acc.lost : ~t.obs[x].queried /\ \E k \in 1..m : x = t.order[k]

LEMMA VisitIs ==
  ASSUME NEW w, NEW t \in Traversals, ListOK(t), NEW m \in 0..(Len(t.order) - 1),
         NEW acc, PassOK(t, m, acc), NEW v, v = Visit(w, t, acc, t.order[m + 1])
  PROVE  PassOK(t, m + 1, v)
<1> DEFINE x == t.order[m + 1]
           o == t.obs[x]
           left == IF o.alive THEN acc.left - 1 ELSE acc.left
           s == acc.sent
           n == Len(s)
<1>1. /\ Len(t.order) \in Nat /\ m \in Nat /\ m + 1 \in 1..Len(t.order)
      /\ 1..m \subseteq 1..(m + 1) /\ m + 1 \in 1..(m + 1)
      /\ DOMAIN t.order = 1..Len(t.order) /\ DOMAIN t.obs = 1..Len(t.obs)
      /\ \A k \in 1..m : k \in 1..Len(t.order) /\ k # m + 1
  BY WaitingIs
<1>2. x \in 1..Len(t.obs) /\ x \in Nat /\ \A k \in 1..m : t.order[k] # x
  <2>1. x \in 1..Len(t.obs)
    BY <1>1 DEF ListOK
  <2>2. \A k \in 1..m : t.order[k] # x
    BY <1>1 DEF ListOK
  <2> HIDE DEF x
  <2> QED
    BY <2>1, <2>2, WaitingIs
<1>3. /\ acc \in Passes /\ s \in Seq(Nat) /\ n \in Nat /\ acc.left \in Int /\ acc.out \in Nat
      /\ acc.lost \in SUBSET Nat
  BY LenProperties DEF PassOK, Passes
<1>4. left \in Int
  BY <1>3
<1>5. v = IF acc.left = 0 \/ acc.out >= t.branch THEN acc
          ELSE IF o.queried THEN [acc EXCEPT !.left = left]
          ELSE IF w.up /\ o.to \notin Unwritable
          THEN [acc EXCEPT !.left = left, !.out = acc.out + 1, !.sent = Append(acc.sent, x)]
          ELSE [acc EXCEPT !.left = left, !.lost = acc.lost \cup {x}]
  BY <1>3 DEF Visit, Passes
<1> HIDE DEF x, left
<1>6. PassOK(t, m + 1, acc)
  BY <1>1 DEF PassOK
<1>7. PassOK(t, m + 1, [acc EXCEPT !.left = left])
  <2> DEFINE u == [acc EXCEPT !.left = left]
  <2>1. u \in Passes /\ u.out = acc.out /\ u.sent = acc.sent /\ u.lost = acc.lost
    BY <1>3, <1>4 DEF Passes
  <2> HIDE DEF u
  <2>2. PassOK(t, m + 1, u)
    BY <1>6, <2>1 DEF PassOK
  <2> QED
    BY <2>2 DEF u
<1>8. \A i \in 1..n : s[i] # x
  BY <1>2, SMTT(30) DEF PassOK
<1>9. x \notin acc.lost
  BY <1>2, SMTT(30) DEF PassOK
<1>10. ASSUME ~o.queried
       PROVE  PassOK(t, m + 1, [acc EXCEPT !.left = left, !.out = acc.out + 1,
                                           !.sent = Append(acc.sent, x)])
  <2> DEFINE r == Append(s, x)
             p == acc.out + 1
             u == [acc EXCEPT !.left = left, !.out = p, !.sent = r]
  <2>1. /\ r \in Seq(Nat) /\ Len(r) = n + 1 /\ r[n + 1] = x
        /\ \A i \in 1..n : r[i] = s[i]
    BY <1>2, <1>3, AppendProperties
  <2>2. p \in Nat
    BY <1>3
  <2> HIDE DEF r, p
  <2>3. u \in Passes /\ u.out = p /\ u.sent = r /\ u.lost = acc.lost
    BY <1>3, <1>4, <2>1, <2>2 DEF Passes
  <2> HIDE DEF u
  <2>4. 1..(n + 1) = (1..n) \cup {n + 1} /\ n + 1 \notin 1..n
    BY <1>3
  <2>5. p = t.out + (n + 1)
    BY <1>3 DEF PassOK, p, Traversals
  <2>6. \A i, j \in 1..n : s[i] = s[j] => i = j
    BY DEF PassOK
  <2>7. \A i \in 1..n : /\ s[i] \notin acc.lost /\ ~t.obs[s[i]].queried
                        /\ \E k \in 1..(m + 1) : s[i] = t.order[k]
    BY <1>6 DEF PassOK
  <2> HIDE DEF n, s
  <2>8. \A i, j \in 1..(n + 1) : r[i] = r[j] => i = j
    BY <1>8, <2>1, <2>4, <2>6
  <2>9. \A i \in 1..(n + 1) : /\ r[i] \notin acc.lost /\ ~t.obs[r[i]].queried
                              /\ \E k \in 1..(m + 1) : r[i] = t.order[k]
    <3>1. \E k \in 1..(m + 1) : x = t.order[k]
      BY <1>1 DEF x
    <3> QED
      BY <1>9, <1>10, <2>1, <2>4, <2>7, <3>1
  <2>10. u.out = t.out + Len(u.sent)
    BY <2>1, <2>3, <2>5
  <2>11. PassOK(t, m + 1, u)
    BY <1>6, <2>1, <2>3, <2>8, <2>9, <2>10, SMTT(30) DEF PassOK
  <2> QED
    BY <2>11 DEF u, p, r, s
<1>11. ASSUME ~o.queried
       PROVE  PassOK(t, m + 1, [acc EXCEPT !.left = left, !.lost = acc.lost \cup {x}])
  <2> DEFINE lost == acc.lost \cup {x}
             u == [acc EXCEPT !.left = left, !.lost = lost]
  <2>1. lost \in SUBSET Nat
    BY <1>2, <1>3
  <2>2. \A y \in lost : ~t.obs[y].queried /\ \E k \in 1..(m + 1) : y = t.order[k]
    <3>1. \E k \in 1..(m + 1) : x = t.order[k]
      BY <1>1 DEF x
    <3> QED
      BY <1>6, <1>11, <3>1 DEF PassOK
  <2>3. \A i \in 1..n : s[i] \notin lost
    BY <1>8 DEF PassOK
  <2> HIDE DEF lost
  <2>4. u \in Passes /\ u.out = acc.out /\ u.sent = acc.sent /\ u.lost = lost
    BY <1>3, <1>4, <2>1 DEF Passes
  <2> HIDE DEF u
  <2>5. PassOK(t, m + 1, u)
    BY <1>6, <2>2, <2>3, <2>4 DEF PassOK
  <2> QED
    BY <2>5 DEF u, lost
<1> QED
  BY <1>5, <1>6, <1>7, <1>10, <1>11

\* The whole pass
LEMMA PassIs ==
  ASSUME NEW w, NEW t \in Traversals, ListOK(t), NEW acc,
         acc = [left |-> t.want, out |-> t.out, sent |-> << >>, lost |-> {}]
  PROVE  PassOK(t, Len(t.order), Pass(w, t, acc, t.order))
<1>1. PICK n \in Nat : n = Len(t.order)
  BY WaitingIs
<1>2. PICK list : list = t.order
  OBVIOUS
<1>steps. PICK now : StepsVisits(now, acc, w, t, list, n)
  <2>1. n = Len(list)
    BY <1>1, <1>2
  <2> QED
    BY ONLY <2>1, n \in Nat, FoldVisits
<1>3. /\ now[0] = acc /\ now[n] = Pass(w, t, acc, list)
      /\ \A i \in 0..(n - 1) : now[i + 1] = Visit(w, t, now[i], list[i + 1])
  BY <1>steps DEF StepsVisits
<1> DEFINE good == {i \in 0..n : PassOK(t, i, now[i])}
<1>4. 0 \in good
  <2>1. << >> \in Seq(Nat) /\ Len(<< >>) = 0 /\ 1..0 = {}
    BY EmptySeq
  <2>2. acc \in Passes /\ acc.out = t.out + 0
    BY <2>1 DEF Passes, Traversals
  <2> QED
    BY <1>1, <1>3, <2>1, <2>2 DEF PassOK
<1>5. ASSUME NEW i \in 0..(n - 1), i \in good
      PROVE  i + 1 \in good
  <2>1. /\ PassOK(t, i, now[i]) /\ i + 1 \in 0..n /\ i \in 0..(Len(t.order) - 1)
        /\ now[i + 1] = Visit(w, t, now[i], t.order[i + 1])
    BY <1>1, <1>2, <1>3, <1>5
  <2>2. PassOK(t, i + 1, now[i + 1])
    BY <2>1, VisitIs
  <2> QED
    BY <2>1, <2>2
<1>6. n \in good
  <2> HIDE DEF good
  <2>1. n \in 0..n
    BY <1>1
  <2>2. \A i \in 0..n : i \in good
    BY ONLY <1>4, <1>5, n \in Nat, UpTo, ZenonT(30)
  <2> QED
    BY <2>1, <2>2
<1> QED
  BY <1>1, <1>2, <1>3, <1>6

\* What addRequests leaves of an observer
Marked(t, acc, i) ==
  [t.obs[i] EXCEPT !.queried = @ \/ i \in ToSet(acc.sent) \cup acc.lost,
                   !.failed = @ \/ i \in acc.lost]
Asked(t, acc) == [i \in DOMAIN t.obs |-> Marked(t, acc, i)]

\* As many requests more are out as were sent.
LEMMA AskedIs ==
  ASSUME NEW t \in Traversals, ListOK(t), CountOK(t), NEW acc,
         PassOK(t, Len(t.order), acc), NEW u,
         u = [t EXCEPT !.obs = Asked(t, acc), !.out = acc.out]
  PROVE  /\ u \in Traversals /\ ListOK(u) /\ CountOK(u) /\ u.who = t.who
         /\ Waiting(u) = Waiting(t) \cup ToSet(acc.sent)
         /\ \A i \in 1..Len(acc.sent) : acc.sent[i] \in 1..Len(t.obs) /\ acc.sent[i] \notin Waiting(t)
<1> DEFINE S == ToSet(acc.sent)
           n == Len(acc.sent)
           s == Asked(t, acc)
<1>1. /\ t.obs \in Seq(Observers) /\ Len(t.obs) \in Nat /\ DOMAIN t.obs = 1..Len(t.obs)
      /\ DOMAIN t.order = 1..Len(t.order)
      /\ \A i \in 1..Len(t.obs) : t.obs[i] \in Observers
      /\ IsFiniteSet(Waiting(t)) /\ Cardinality(Waiting(t)) \in Nat
  BY WaitingIs
<1>2. acc.sent \in Seq(Nat) /\ acc.out \in Nat /\ acc.out = t.out + n
  BY DEF PassOK, Passes
<1>3. n \in Nat /\ S = {acc.sent[i] : i \in 1..n}
  BY <1>2, LenProperties, ToSetIs
<1>4. \A i \in 1..n : /\ acc.sent[i] \in 1..Len(t.obs) /\ ~t.obs[acc.sent[i]].queried
                      /\ acc.sent[i] \notin acc.lost
  BY <1>1 DEF PassOK, ListOK
<1>5. \A x \in acc.lost : x \in 1..Len(t.obs) /\ ~t.obs[x].queried
  BY <1>1 DEF PassOK, ListOK
<1>6. \A x \in S : x \in 1..Len(t.obs) /\ ~t.obs[x].queried /\ x \notin acc.lost
  BY <1>3, <1>4
<1>7. ASSUME NEW i \in 1..Len(t.obs)
      PROVE  /\ s[i] \in Observers
             /\ s[i].queried = (t.obs[i].queried \/ i \in S \/ i \in acc.lost)
             /\ s[i].failed = (t.obs[i].failed \/ i \in acc.lost)
             /\ s[i].short = t.obs[i].short /\ s[i].done = t.obs[i].done
  <2>1. s[i] = Marked(t, acc, i)
    BY <1>1 DEF Asked
  <2>2. PICK o : o = t.obs[i]
    OBVIOUS
  <2>3. o \in Observers
    BY <1>1, <2>2
  <2> DEFINE q == o.queried \/ i \in S \cup acc.lost
             f == o.failed \/ i \in acc.lost
  <2>4. q \in BOOLEAN /\ f \in BOOLEAN
    OBVIOUS
  <2>5. s[i] = [o EXCEPT !.queried = q, !.failed = f]
    BY <2>1, <2>2 DEF Marked
  <2> HIDE DEF q, f, s
  <2>6. /\ s[i] \in Observers /\ s[i].queried = q /\ s[i].failed = f
        /\ s[i].short = o.short /\ s[i].done = o.done
    BY <2>3, <2>4, <2>5 DEF Observers
  <2> QED
    BY <2>2, <2>6 DEF q, f
<1>8. s \in Seq(Observers) /\ DOMAIN s = 1..Len(t.obs)
  <2>1. s \in [1..Len(t.obs) -> Observers]
    <3>1. s = [i \in 1..Len(t.obs) |-> s[i]]
      BY <1>1 DEF Asked
    <3> HIDE DEF s
    <3> QED
      BY <1>7, <3>1
  <2> HIDE DEF s
  <2> QED
    BY <1>1, <2>1
<1> HIDE DEF S, s, n
<1>9. /\ u \in Traversals /\ u.obs = s /\ u.order = t.order /\ u.out = acc.out
      /\ u.branch = t.branch /\ u.who = t.who
  BY <1>2, <1>8 DEF Traversals, s
<1>10. \A i \in 1..Len(t.obs) :
         t.obs[i].queried \/ (~t.obs[i].short /\ ~t.obs[i].done /\ ~t.obs[i].failed)
  BY <1>1 DEF ListOK
<1>11. ListOK(u)
  <2>1. \A i \in DOMAIN u.obs :
          u.obs[i].queried \/ (~u.obs[i].short /\ ~u.obs[i].done /\ ~u.obs[i].failed)
    <3> SUFFICES ASSUME NEW i \in 1..Len(t.obs)
                 PROVE  \/ u.obs[i].queried
                        \/ ~u.obs[i].short /\ ~u.obs[i].done /\ ~u.obs[i].failed
      BY <1>8, <1>9
    <3>1. i \in acc.lost => u.obs[i].queried
      BY <1>7, <1>9
    <3>2. i \notin acc.lost => u.obs[i].failed = t.obs[i].failed
      BY <1>1, <1>7, <1>9 DEF Observers
    <3>3. t.obs[i].queried => u.obs[i].queried
      BY <1>7, <1>9
    <3>4. u.obs[i].short = t.obs[i].short /\ u.obs[i].done = t.obs[i].done
      BY <1>7, <1>9
    <3> QED
      BY <1>10, <3>1, <3>2, <3>3, <3>4
  <2> QED
    BY <1>1, <1>8, <1>9, <2>1, SMTT(30) DEF ListOK
<1>12. ASSUME NEW i \in 1..Len(t.obs)
       PROVE  /\ Out(u.obs[i]) <=> Out(t.obs[i]) \/ i \in S
              /\ i \in S => ~u.obs[i].short /\ ~Out(t.obs[i])
              /\ u.obs[i].short = t.obs[i].short
  <2>1. PICK o, p : o = t.obs[i] /\ p = u.obs[i]
    OBVIOUS
  <2>2. /\ p.queried = (o.queried \/ i \in S \cup acc.lost)
        /\ p.failed = (o.failed \/ i \in acc.lost) /\ p.short = o.short /\ p.done = o.done
    BY <1>7, <1>9, <2>1
  <2>3. i \in S \cup acc.lost => ~o.queried
    BY <1>5, <1>6, <2>1
  <2>4. i \in S => i \notin acc.lost
    BY <1>5, <1>6
  <2>5. o.queried \/ (~o.short /\ ~o.done /\ ~o.failed)
    BY <1>10, <2>1
  <2> HIDE DEF S
  <2> QED
    BY ONLY <2>1, <2>2, <2>3, <2>4, <2>5 DEF Out
<1>13. Waiting(u) = Waiting(t) \cup S
  BY <1>1, <1>6, <1>8, <1>9, <1>12 DEF Waiting
<1>14. SlowOnes(u) = SlowOnes(t)
  BY <1>1, <1>6, <1>12, <1>13 DEF SlowOnes, Waiting
<1>15. Waiting(t) \cap S = {}
  BY <1>1, <1>12 DEF Waiting
<1>16. IsFiniteSet(S) /\ Cardinality(S) = n
  <2> DEFINE f == [i \in 1..n |-> acc.sent[i]]
  <2>1. f \in [1..n -> S] /\ \A x \in S : \E i \in 1..n : f[i] = x
    BY <1>3
  <2>2. \A i, j \in 1..n : f[i] = f[j] => i = j
    BY DEF PassOK, n
  <2> HIDE DEF f
  <2>3. f \in Bijection(1..n, S)
    BY <2>1, <2>2 DEF Bijection, Injection, Surjection, IsInjective
  <2>4. ExistsBijection(1..n, S)
    BY <2>3 DEF ExistsBijection
  <2>5. IsFiniteSet(1..n) /\ Cardinality(1..n) = n
    BY <1>3, FirstNumbers
  <2> QED
    BY <2>4, <2>5, FS_Bijection
<1>17. Cardinality(Waiting(u)) = Cardinality(Waiting(t)) + n
  <2>1. Cardinality(Waiting(t) \cap S) = 0
    BY <1>15, FS_EmptySet
  <2> QED
    <3>1. /\ IsFiniteSet(Waiting(t)) /\ IsFiniteSet(S)
          /\ Waiting(u) = Waiting(t) \cup S
      BY <1>1, <1>13, <1>16
    <3>2. Cardinality(Waiting(t) \cup S) =
            Cardinality(Waiting(t)) + Cardinality(S) - Cardinality(Waiting(t) \cap S)
      BY ONLY <3>1, FS_Union
    <3>3. /\ Cardinality(Waiting(u)) = Cardinality(Waiting(t)) + Cardinality(S) - 0
          /\ Cardinality(S) = n /\ Cardinality(Waiting(t)) \in Nat /\ n \in Nat
      BY <1>1, <1>3, <1>16, <2>1, <3>1, <3>2
    <3> QED
      BY ONLY <3>3
<1>18. CountOK(u)
  BY <1>2, <1>9, <1>14, <1>17 DEF CountOK
<1>19. \A i \in 1..n : acc.sent[i] \notin Waiting(t)
  BY <1>3, <1>15
<1> QED
  BY <1>4, <1>9, <1>11, <1>13, <1>18, <1>19 DEF S, n

-----------------------------------------------------------------------------
(* The traversals and their transactions *)

Pending(run, key) == IF key \in DOMAIN run THEN Waiting(run[key]) ELSE {}

\* The traversal of one key starts, or is another now.
Becomes(run, key, t, v) ==
  /\ DOMAIN v = DOMAIN run \cup {key} /\ v = [k \in DOMAIN v |-> v[k]]
  /\ v[key] = t /\ \A k \in DOMAIN run : k # key => v[k] = run[k]

LEMMA PutBecomes ==
  ASSUME NEW run, NEW key, NEW t
  PROVE  Becomes(run, key, t, Put(run, key, t))
<1> DEFINE v == Put(run, key, t)
<1>1. v = [j \in DOMAIN run \cup {key} |-> IF j = key THEN t ELSE run[j]]
  BY DEF Put
<1>2. DOMAIN v = DOMAIN run \cup {key}
  BY <1>1
<1>3. v = [k \in DOMAIN v |-> v[k]]
  BY <1>1
<1> QED
  BY <1>1, <1>2, <1>3 DEF Becomes

LEMMA ExceptBecomes ==
  ASSUME NEW run, NEW B, RunOK(run, B), NEW key \in DOMAIN run, NEW t
  PROVE  Becomes(run, key, t, [run EXCEPT ![key] = t])
<1> DEFINE v == [run EXCEPT ![key] = t]
<1>1. run = [k \in DOMAIN run |-> run[k]]
  BY DEF RunOK
<1>2. /\ DOMAIN v = DOMAIN run \cup {key} /\ v[key] = t
      /\ \A k \in DOMAIN run : k # key => v[k] = run[k]
  BY <1>1
<1>3. v = [k \in DOMAIN v |-> v[k]]
  BY <1>1
<1> HIDE DEF v
<1>4. Becomes(run, key, t, v)
  BY <1>2, <1>3 DEF Becomes
<1> QED
  BY <1>4 DEF v

LEMMA RunBecomes ==
  ASSUME NEW run, NEW B, RunOK(run, B), NEW key \in Kinds \X Ids, NEW t \in Traversals,
         ListOK(t), CountOK(t), NEW v, Becomes(run, key, t, v)
  PROVE  RunOK(v, B \cup {key}) /\ (t.out # 0 => RunOK(v, B \ {key}))
<1>1. /\ DOMAIN v = DOMAIN run \cup {key} /\ v[key] = t
      /\ \A k \in DOMAIN run : k # key => v[k] = run[k]
      /\ v = [k \in DOMAIN v |-> v[k]]
  BY DEF Becomes
<1>2. \A k \in DOMAIN v : v[k] \in Traversals /\ ListOK(v[k]) /\ CountOK(v[k])
  BY <1>1 DEF RunOK
<1>3. v \in [DOMAIN v -> Traversals]
  BY <1>1, <1>2
<1>4. DOMAIN v \subseteq Kinds \X Ids
  BY <1>1 DEF RunOK
<1>5. \A k \in DOMAIN v : k \in B \cup {key} \/ v[k].out # 0
  BY <1>1 DEF RunOK
<1>6. t.out # 0 => \A k \in DOMAIN v : k \in B \ {key} \/ v[k].out # 0
  BY <1>1 DEF RunOK
<1> QED
  BY <1>2, <1>3, <1>4, <1>5, <1>6 DEF RunOK

\* The requests of a traversal are as they were.
LEMMA LinkedSame ==
  ASSUME NEW tx, NEW run, NEW P, Linked(tx, run, P), NEW key, NEW t, NEW v,
         Becomes(run, key, t, v), Waiting(t) = Pending(run, key)
  PROVE  Linked(tx, v, P)
<1>1. /\ DOMAIN v = DOMAIN run \cup {key} /\ v[key] = t
      /\ \A k \in DOMAIN run : k # key => v[k] = run[k]
  BY DEF Becomes
<1>2. \A k, i : Awaits(v, k, i) <=> Awaits(run, k, i)
  BY <1>1 DEF Awaits, Pending
<1>3. \A k \in DOMAIN v : \A i \in Waiting(v[k]) : k \in DOMAIN run /\ i \in Waiting(run[k])
  BY <1>2 DEF Awaits
<1>4. \A j \in DOMAIN tx : tx[j].key # Nobody =>
        Awaits(v, tx[j].key, tx[j].obs) /\ <<tx[j].key, tx[j].obs>> \notin P
  BY <1>2 DEF Linked
<1>5. \A k \in DOMAIN v : \A i \in Waiting(v[k]) :
        \/ <<k, i>> \in P
        \/ \E j \in DOMAIN tx : tx[j].key = k /\ tx[j].obs = i
  BY <1>3, ZenonT(40) DEF Linked
<1>6. \A p \in P : p = <<p[1], p[2]>> /\ Awaits(v, p[1], p[2])
  BY <1>2 DEF Linked
<1> QED
  BY <1>4, <1>5, <1>6 DEF Linked

\* A request ends whose transaction was taken.
LEMMA LinkedEnd ==
  ASSUME NEW tx, NEW run, NEW P, Linked(tx, run, P), NEW key \in DOMAIN run, NEW i,
         <<key, i>> \in P, NEW t, NEW v, Becomes(run, key, t, v),
         Waiting(t) = Waiting(run[key]) \ {i}
  PROVE  Linked(tx, v, P \ {<<key, i>>})
<1>1. /\ DOMAIN v = DOMAIN run /\ v[key] = t
      /\ \A k \in DOMAIN run : k # key => v[k] = run[k]
  BY DEF Becomes
<1>2. \A k, m : Awaits(v, k, m) <=> Awaits(run, k, m) /\ <<k, m>> # <<key, i>>
  BY <1>1 DEF Awaits
<1> DEFINE Q == P \ {<<key, i>>}
<1>3. \A j \in DOMAIN tx : tx[j].key # Nobody =>
        Awaits(v, tx[j].key, tx[j].obs) /\ <<tx[j].key, tx[j].obs>> \notin Q
  BY <1>2 DEF Linked
<1>4. \A k \in DOMAIN v : \A m \in Waiting(v[k]) :
        \/ <<k, m>> \in Q
        \/ \E j \in DOMAIN tx : tx[j].key = k /\ tx[j].obs = m
  <2> TAKE k \in DOMAIN v
  <2> TAKE m \in Waiting(v[k])
  <2>1. Awaits(run, k, m) /\ <<k, m>> # <<key, i>>
    BY <1>2 DEF Awaits
  <2> QED
    BY <2>1 DEF Linked, Awaits
<1>5. \A p \in Q : p = <<p[1], p[2]>> /\ Awaits(v, p[1], p[2])
  <2> TAKE p \in Q
  <2>1. p = <<p[1], p[2]>> /\ Awaits(run, p[1], p[2]) /\ p # <<key, i>>
    BY DEF Linked
  <2> QED
    BY <1>2, <2>1
<1> HIDE DEF Q
<1>6. Linked(tx, v, Q)
  BY <1>3, <1>4, <1>5 DEF Linked
<1> QED
  BY <1>6 DEF Q

\* Requests are sent, a transaction for each.
Sends(tx, more, key, sent, before) ==
  /\ sent \in Seq(Nat) /\ DOMAIN more = 1..Len(tx) + Len(sent)
  /\ \A i \in 1..Len(sent) : sent[i] \notin before
  /\ \A i, j \in 1..Len(sent) : sent[i] = sent[j] => i = j
  /\ \A j \in 1..Len(tx) : more[j] = tx[j]
  /\ \A i \in 1..Len(sent) : more[Len(tx) + i].key = key /\ more[Len(tx) + i].obs = sent[i]

LEMMA LinkedAsk ==
  ASSUME NEW tx \in Seq(Transactions), NEW run, NEW P, Linked(tx, run, P),
         NEW key \in Kinds \X Ids, NEW sent, NEW t, NEW v, Becomes(run, key, t, v),
         Waiting(t) = Pending(run, key) \cup ToSet(sent),
         NEW more, Sends(tx, more, key, sent, Pending(run, key))
  PROVE  Linked(more, v, P)
<1>0. /\ sent \in Seq(Nat) /\ DOMAIN more = 1..Len(tx) + Len(sent)
      /\ \A i \in 1..Len(sent) : sent[i] \notin Pending(run, key)
      /\ \A i, j \in 1..Len(sent) : sent[i] = sent[j] => i = j
      /\ \A j \in 1..Len(tx) : more[j] = tx[j]
      /\ \A i \in 1..Len(sent) : more[Len(tx) + i].key = key /\ more[Len(tx) + i].obs = sent[i]
  BY DEF Sends
<1> DEFINE m == Len(tx)
           n == Len(sent)
<1>1. /\ m \in Nat /\ n \in Nat /\ DOMAIN tx = 1..m
      /\ ToSet(sent) = {sent[i] : i \in 1..n} /\ Nobody \notin Kinds \X Ids
  BY <1>0, LenProperties, ToSetIs, Parameters
<1>2. /\ DOMAIN v = DOMAIN run \cup {key} /\ v[key] = t
      /\ \A k \in DOMAIN run : k # key => v[k] = run[k]
  BY DEF Becomes
<1>3. \A k, i : Awaits(v, k, i) <=> Awaits(run, k, i) \/ (k = key /\ i \in ToSet(sent))
  BY <1>2 DEF Awaits, Pending
<1>4. \A i \in 1..n : ~Awaits(run, key, sent[i])
  BY <1>0 DEF Awaits, Pending
<1>5. ASSUME NEW j \in 1..m + n
      PROVE  \/ j \in 1..m /\ more[j] = tx[j]
             \/ \E i \in 1..n : j = m + i /\ more[j].key = key /\ more[j].obs = sent[i]
  <2>1. CASE j \in 1..m
    BY <1>0, <2>1
  <2>2. CASE j \notin 1..m
    <3>1. j - m \in 1..n /\ j = m + (j - m)
      BY <1>1, <2>2
    <3> QED
      BY <1>0, <3>1, ZenonT(40)
  <2> QED
    BY <2>1, <2>2
<1> HIDE DEF m, n
<1>6. ASSUME NEW j \in 1..m + n, more[j].key # Nobody
      PROVE  Awaits(v, more[j].key, more[j].obs) /\ <<more[j].key, more[j].obs>> \notin P
  <2>1. CASE j \in 1..m /\ more[j] = tx[j]
    BY <1>1, <1>3, <1>6, <2>1 DEF Linked
  <2>2. CASE \E i \in 1..n : j = m + i /\ more[j].key = key /\ more[j].obs = sent[i]
    <3>1. PICK i \in 1..n : more[j].key = key /\ more[j].obs = sent[i]
      BY <2>2
    <3>2. \A p \in P : Awaits(run, p[1], p[2])
      BY DEF Linked
    <3>3. <<key, sent[i]>> \notin P
      BY <1>4, <3>2
    <3> QED
      BY <1>1, <1>3, <3>1, <3>3
  <2> QED
    BY <1>5, <2>1, <2>2
<1>7. ASSUME NEW i \in 1..m + n, NEW j \in 1..m + n,
             more[i].key # Nobody, more[i].key = more[j].key, more[i].obs = more[j].obs
      PROVE  i = j
  <2>1. ASSUME NEW k \in 1..m + n, more[k].key # Nobody
        PROVE  \/ k \in 1..m /\ more[k] = tx[k] /\ Awaits(run, more[k].key, more[k].obs)
               \/ \E l \in 1..n : /\ k = m + l /\ more[k].key = key /\ more[k].obs = sent[l]
                                  /\ ~Awaits(run, more[k].key, more[k].obs)
    <3>1. CASE k \in 1..m /\ more[k] = tx[k]
      BY <1>1, <2>1, <3>1 DEF Linked
    <3>2. CASE \E l \in 1..n : k = m + l /\ more[k].key = key /\ more[k].obs = sent[l]
      BY <1>4, <3>2
    <3> QED
      BY <1>5, <3>1, <3>2
  <2>2. CASE i \in 1..m /\ j \in 1..m /\ more[i] = tx[i] /\ more[j] = tx[j]
    BY <1>1, <1>7, <2>2 DEF Linked
  <2>3. CASE \E k, l \in 1..n : /\ i = m + k /\ more[i].obs = sent[k]
                                /\ j = m + l /\ more[j].obs = sent[l]
    BY <1>0, <1>7, <2>3, SMTT(30) DEF n
  <2> QED
    BY <1>7, <2>1, <2>2, <2>3
<1>8. ASSUME NEW k \in DOMAIN v, NEW i \in Waiting(v[k])
      PROVE  \/ <<k, i>> \in P
             \/ \E j \in 1..m + n : more[j].key = k /\ more[j].obs = i
  <2>1. CASE Awaits(run, k, i)
    <3>1. CASE <<k, i>> \in P
      BY <3>1
    <3>2. CASE <<k, i>> \notin P
      <4>1. PICK j \in 1..m : tx[j].key = k /\ tx[j].obs = i
        BY <1>1, <2>1, <3>2 DEF Linked, Awaits
      <4>2. j \in 1..m + n /\ more[j] = tx[j]
        BY <1>0, <1>1 DEF m
      <4> QED
        BY <4>1, <4>2
    <3> QED
      BY <3>1, <3>2
  <2>2. CASE k = key /\ i \in ToSet(sent)
    <3>1. PICK l \in 1..n : sent[l] = i
      <4>1. i \in {sent[l] : l \in 1..n}
        BY <1>1, <2>2
      <4> QED
        BY ONLY <4>1
    <3>2. m + l \in 1..m + n /\ more[m + l].key = key /\ more[m + l].obs = sent[l]
      BY <1>0, <1>1 DEF m, n
    <3> QED
      BY <2>2, <3>1, <3>2
  <2> QED
    BY <1>3, <2>1, <2>2 DEF Awaits
<1>9. \A p \in P : p = <<p[1], p[2]>> /\ Awaits(v, p[1], p[2])
  BY <1>3 DEF Linked
<1>10. DOMAIN more = 1..m + n
  BY <1>0 DEF m, n
<1> QED
  <2>1. \A j \in DOMAIN more : more[j].key # Nobody =>
          Awaits(v, more[j].key, more[j].obs) /\ <<more[j].key, more[j].obs>> \notin P
    BY <1>6, <1>10
  <2>2. \A i, j \in DOMAIN more :
          more[i].key # Nobody /\ more[i].key = more[j].key /\ more[i].obs = more[j].obs => i = j
    BY <1>7, <1>10
  <2>3. \A k \in DOMAIN v : \A i \in Waiting(v[k]) :
          \/ <<k, i>> \in P
          \/ \E j \in DOMAIN more : more[j].key = k /\ more[j].obs = i
    <3> TAKE k \in DOMAIN v
    <3> TAKE i \in Waiting(v[k])
    <3>1. \/ <<k, i>> \in P
          \/ \E j \in 1..m + n : more[j].key = k /\ more[j].obs = i
      BY <1>8
    <3> QED
      BY ONLY <1>10, <3>1
  <2> QED
    BY ONLY <1>9, <2>1, <2>2, <2>3 DEF Linked

\* A traversal with nothing out ends.
Without(run, key, v) ==
  /\ DOMAIN v = DOMAIN run \ {key} /\ v = [k \in DOMAIN v |-> v[k]]
  /\ \A k \in DOMAIN v : v[k] = run[k]

LEMMA ForgetWithout ==
  ASSUME NEW run, NEW key
  PROVE  Without(run, key, [k \in DOMAIN run \ {key} |-> run[k]])
<1> DEFINE v == [k \in DOMAIN run \ {key} |-> run[k]]
<1>1. DOMAIN v = DOMAIN run \ {key} /\ \A k \in DOMAIN v : v[k] = run[k]
  OBVIOUS
<1>2. v = [k \in DOMAIN v |-> v[k]]
  OBVIOUS
<1> HIDE DEF v
<1>3. Without(run, key, v)
  BY <1>1, <1>2 DEF Without
<1> QED
  BY <1>3 DEF v

LEMMA NothingOut ==
  ASSUME NEW t \in Traversals, CountOK(t)
  PROVE  /\ t.out \in Nat /\ (t.out = 0 <=> Waiting(t) = {})
<1>1. IsFiniteSet(Waiting(t)) /\ Cardinality(Waiting(t)) \in Nat
  BY WaitingIs
<1>2. Cardinality(Waiting(t)) = 0 <=> Waiting(t) = {}
  BY <1>1, FS_EmptySet
<1> QED
  BY <1>1, <1>2 DEF CountOK

LEMMA RunForget ==
  ASSUME NEW tx, NEW run, NEW P, NEW B, RunOK(run, B), Linked(tx, run, P),
         NEW key \in DOMAIN run, run[key].out = 0, NEW v, Without(run, key, v)
  PROVE  RunOK(v, B \ {key}) /\ Linked(tx, v, P)
<1>1. /\ DOMAIN v = DOMAIN run \ {key} /\ v = [k \in DOMAIN v |-> v[k]]
      /\ \A k \in DOMAIN v : v[k] = run[k]
  BY DEF Without
<1>2. Waiting(run[key]) = {}
  <2>1. run[key] \in Traversals /\ CountOK(run[key])
    BY DEF RunOK
  <2> QED
    BY <2>1, NothingOut
<1>3. \A k \in DOMAIN v : v[k] \in Traversals
  BY <1>1 DEF RunOK
<1>4. v \in [DOMAIN v -> Traversals]
  BY <1>1, <1>3
<1>5. RunOK(v, B \ {key})
  <2>1. DOMAIN v \subseteq Kinds \X Ids
    BY <1>1 DEF RunOK
  <2>2. \A k \in DOMAIN v : ListOK(v[k]) /\ CountOK(v[k]) /\ (k \in B \ {key} \/ v[k].out # 0)
    BY <1>1 DEF RunOK
  <2> QED
    BY <1>4, <2>1, <2>2 DEF RunOK
<1>6. \A k, i : Awaits(v, k, i) <=> Awaits(run, k, i)
  BY <1>1, <1>2 DEF Awaits
<1>7. \A j \in DOMAIN tx : tx[j].key # Nobody =>
        Awaits(v, tx[j].key, tx[j].obs) /\ <<tx[j].key, tx[j].obs>> \notin P
  BY <1>6 DEF Linked
<1>8. \A k \in DOMAIN v : \A i \in Waiting(v[k]) :
        \/ <<k, i>> \in P
        \/ \E j \in DOMAIN tx : tx[j].key = k /\ tx[j].obs = i
  <2> TAKE k \in DOMAIN v
  <2> TAKE i \in Waiting(v[k])
  <2>1. k \in DOMAIN run /\ i \in Waiting(run[k])
    BY <1>1
  <2> QED
    BY <2>1 DEF Linked
<1>9. \A p \in P : p = <<p[1], p[2]>> /\ Awaits(v, p[1], p[2])
  BY <1>6 DEF Linked
<1>10. Linked(tx, v, P)
  BY <1>7, <1>8, <1>9 DEF Linked
<1> QED
  BY <1>5, <1>10

\* Some transactions are taken: f says where the others were.
Part(tx, less, f, taken) ==
  /\ \A j \in DOMAIN less : /\ f[j] \in DOMAIN tx /\ f[j] \notin taken
                            /\ less[j].key = tx[f[j]].key /\ less[j].obs = tx[f[j]].obs
  /\ \A i, j \in DOMAIN less : f[i] = f[j] => i = j
  /\ taken \subseteq DOMAIN tx
  /\ \A j \in DOMAIN tx : j \in taken \/ \E i \in DOMAIN less : f[i] = j
Claims(tx, taken) ==
  {<<tx[j].key, tx[j].obs>> : j \in {k \in taken : tx[k].key # Nobody}}

LEMMA LinkedPart ==
  ASSUME NEW tx, NEW run, Nobody \notin DOMAIN run, NEW P, Linked(tx, run, P), NEW less,
         NEW f, NEW taken, Part(tx, less, f, taken)
  PROVE  Linked(less, run, P \cup Claims(tx, taken))
<1> DEFINE Q == Claims(tx, taken)
<1>1. \A j \in DOMAIN less : less[j].key # Nobody =>
        Awaits(run, less[j].key, less[j].obs) /\ <<less[j].key, less[j].obs>> \notin P \cup Q
  <2> TAKE j \in DOMAIN less
  <2>1. SUFFICES ASSUME less[j].key # Nobody
                 PROVE  /\ Awaits(run, less[j].key, less[j].obs)
                        /\ <<less[j].key, less[j].obs>> \notin P \cup Q
    OBVIOUS
  <2>2. /\ Awaits(run, less[j].key, less[j].obs) /\ <<less[j].key, less[j].obs>> \notin P
    BY <2>1 DEF Linked, Part
  <2>3. ASSUME NEW k \in taken, tx[k].key # Nobody,
               <<less[j].key, less[j].obs>> = <<tx[k].key, tx[k].obs>>
        PROVE  FALSE
    <3>1. f[j] = k
      BY <2>3 DEF Linked, Part
    <3> QED
      BY <3>1 DEF Part
  <2> QED
    BY <2>2, <2>3 DEF Claims
<1>2. \A i, j \in DOMAIN less :
        less[i].key # Nobody /\ less[i].key = less[j].key /\ less[i].obs = less[j].obs => i = j
  <2> TAKE i, j \in DOMAIN less
  <2> HAVE less[i].key # Nobody /\ less[i].key = less[j].key /\ less[i].obs = less[j].obs
  <2>1. f[i] = f[j]
    BY DEF Linked, Part
  <2> QED
    BY <2>1 DEF Part
<1>3. \A k \in DOMAIN run : \A i \in Waiting(run[k]) :
        \/ <<k, i>> \in P \cup Q
        \/ \E j \in DOMAIN less : less[j].key = k /\ less[j].obs = i
  <2> TAKE k \in DOMAIN run
  <2> TAKE i \in Waiting(run[k])
  <2>1. CASE <<k, i>> \in P
    BY <2>1
  <2>2. CASE <<k, i>> \notin P
    <3>1. PICK j \in DOMAIN tx : tx[j].key = k /\ tx[j].obs = i
      BY <2>2 DEF Linked
    <3>2. CASE j \in taken
      <4>1. tx[j].key # Nobody
        BY <3>1
      <4> QED
        BY <3>1, <3>2, <4>1 DEF Claims
    <3>3. CASE \E l \in DOMAIN less : f[l] = j
      BY <3>1, <3>3 DEF Part
    <3> QED
      BY <3>2, <3>3 DEF Part
  <2> QED
    BY <2>1, <2>2
<1>4. \A p \in P \cup Q : p = <<p[1], p[2]>> /\ Awaits(run, p[1], p[2])
  BY DEF Linked, Claims, Part
<1> HIDE DEF Q
<1> QED
  <2>1. Linked(less, run, P \cup Q)
    BY <1>1, <1>2, <1>3, <1>4 DEF Linked
  <2> QED
    BY <2>1 DEF Q

\* RemoveAt(tx, p): the observer of the transaction is told next.
LEMMA LinkedTake ==
  ASSUME NEW tx, TxOK(tx), NEW run, NEW B, RunOK(run, B), NEW P, Linked(tx, run, P),
         NEW p \in 1..Len(tx), NEW less, less = RemoveAt(tx, p)
  PROVE  /\ TxOK(less)
         /\ tx[p].key # Nobody => Linked(less, run, P \cup {<<tx[p].key, tx[p].obs>>})
         /\ tx[p].key = Nobody => Linked(less, run, P)
<1>1. /\ tx \in Seq(Transactions) /\ Len(tx) \in Nat /\ DOMAIN tx = 1..Len(tx)
      /\ Nobody \notin DOMAIN run
  BY LenProperties, Parameters DEF TxOK, RunOK
<1>2. /\ less \in Seq(Transactions) /\ Len(less) = Len(tx) - 1
      /\ \A i \in 1..Len(tx) - 1 : less[i] = IF i < p THEN tx[i] ELSE tx[i + 1]
  BY <1>1, RemoveAtIs
<1>3. DOMAIN less = 1..Len(tx) - 1
  BY <1>2, LenProperties
<1>4. PICK m : m = Len(tx)
  OBVIOUS
<1> DEFINE f == [i \in 1..m - 1 |-> IF i < p THEN i ELSE i + 1]
<1>5. ASSUME NEW i \in 1..m - 1
      PROVE  f[i] \in 1..m /\ f[i] # p /\ less[i] = tx[f[i]]
  BY <1>1, <1>2, <1>4
<1>6. \A i, j \in 1..m - 1 : f[i] = f[j] => i = j
  BY <1>1, <1>4
<1>7. ASSUME NEW j \in 1..m, j # p
      PROVE  \E i \in 1..m - 1 : f[i] = j
  <2>1. CASE j < p
    <3>1. j \in 1..m - 1 /\ f[j] = j
      BY <1>1, <1>4, <2>1
    <3> QED
      BY <3>1
  <2>2. CASE ~(j < p)
    <3>1. j - 1 \in 1..m - 1 /\ f[j - 1] = j
      BY <1>1, <1>4, <1>7, <2>2
    <3> QED
      BY <3>1
  <2> QED
    BY <2>1, <2>2
<1> HIDE DEF f
<1> DEFINE taken == {p}
           Q == Claims(tx, taken)
<1>8. Linked(less, run, P \cup Q)
  <2>1. \A j \in DOMAIN less : /\ f[j] \in DOMAIN tx /\ f[j] \notin taken
                               /\ less[j].key = tx[f[j]].key /\ less[j].obs = tx[f[j]].obs
    BY <1>1, <1>3, <1>4, <1>5
  <2>2. \A i, j \in DOMAIN less : f[i] = f[j] => i = j
    BY <1>3, <1>4, <1>6
  <2>3. /\ taken \subseteq DOMAIN tx
        /\ \A j \in DOMAIN tx : j \in taken \/ \E i \in DOMAIN less : f[i] = j
    BY <1>1, <1>3, <1>4, <1>7
  <2> HIDE DEF taken
  <2>4. Part(tx, less, f, taken)
    BY <2>1, <2>2, <2>3 DEF Part
  <2> QED
    BY <1>1, <2>4, LinkedPart
<1>9. TxOK(less)
  <2>1. \A i \in DOMAIN less : Fits(less[i])
    BY <1>1, <1>3, <1>4, <1>5 DEF TxOK
  <2> QED
    BY <1>2, <2>1 DEF TxOK
<1>10. /\ tx[p].key # Nobody => Q = {<<tx[p].key, tx[p].obs>>}
       /\ tx[p].key = Nobody => Q = {}
  BY DEF Claims
<1> HIDE DEF Q
<1> QED
  BY <1>8, <1>9, <1>10

\* A greeting, which no traversal waits for
LEMMA LinkedHello ==
  ASSUME NEW tx, TxOK(tx), NEW run, NEW P, Linked(tx, run, P),
         NEW x \in Transactions, x.key = Nobody, Fits(x), NEW more, more = Append(tx, x)
  PROVE  TxOK(more) /\ Linked(more, run, P)
<1> DEFINE m == Len(tx)
<1>1. tx \in Seq(Transactions) /\ m \in Nat /\ DOMAIN tx = 1..m
  BY LenProperties DEF TxOK
<1>2. /\ more \in Seq(Transactions) /\ Len(more) = m + 1 /\ more[m + 1] = x
      /\ \A i \in 1..m : more[i] = tx[i]
  BY <1>1, AppendProperties
<1>3. DOMAIN more = 1..m + 1
  BY <1>2, LenProperties
<1> HIDE DEF m
<1>4. \A j \in DOMAIN more : more[j].key # Nobody => j \in DOMAIN tx /\ more[j] = tx[j]
  BY <1>1, <1>2, <1>3
<1>5. \A j \in DOMAIN tx : j \in DOMAIN more /\ more[j] = tx[j]
  BY <1>1, <1>2, <1>3
<1>6. \A j \in DOMAIN more : Fits(more[j])
  <2> TAKE j \in DOMAIN more
  <2>1. CASE j \in DOMAIN tx
    BY <1>5, <2>1 DEF TxOK
  <2>2. CASE j \notin DOMAIN tx
    <3>1. j = m + 1
      BY <1>1, <1>3, <2>2
    <3> QED
      BY <1>2, <3>1
  <2> QED
    BY <2>1, <2>2
<1>7. TxOK(more)
  BY <1>2, <1>6 DEF TxOK
<1>8. \A j \in DOMAIN more : more[j].key # Nobody =>
        Awaits(run, more[j].key, more[j].obs) /\ <<more[j].key, more[j].obs>> \notin P
  BY <1>4 DEF Linked
<1>9. \A i, j \in DOMAIN more :
        more[i].key # Nobody /\ more[i].key = more[j].key /\ more[i].obs = more[j].obs => i = j
  <2> TAKE i, j \in DOMAIN more
  <2> HAVE more[i].key # Nobody /\ more[i].key = more[j].key /\ more[i].obs = more[j].obs
  <2>1. /\ i \in DOMAIN tx /\ j \in DOMAIN tx /\ more[i] = tx[i] /\ more[j] = tx[j]
    BY <1>4
  <2> QED
    BY <2>1 DEF Linked
<1>10. \A k \in DOMAIN run : \A i \in Waiting(run[k]) :
         \/ <<k, i>> \in P
         \/ \E j \in DOMAIN more : more[j].key = k /\ more[j].obs = i
  <2> TAKE k \in DOMAIN run
  <2> TAKE i \in Waiting(run[k])
  <2>1. CASE <<k, i>> \in P
    BY <2>1
  <2>2. CASE <<k, i>> \notin P
    <3>1. PICK j \in DOMAIN tx : tx[j].key = k /\ tx[j].obs = i
      BY <2>2 DEF Linked
    <3> QED
      BY <1>5, <3>1
  <2> QED
    BY <2>1, <2>2
<1>11. \A p \in P : p = <<p[1], p[2]>> /\ Awaits(run, p[1], p[2])
  BY DEF Linked
<1>12. Linked(more, run, P)
  BY <1>8, <1>9, <1>10, <1>11 DEF Linked
<1> QED
  BY <1>7, <1>12

-----------------------------------------------------------------------------
(* Searches and their answers *)

\* The traversals of searches: each belongs to one search, which is not
\* answered yet.
LEMMA SearchIs ==
  ASSUME NEW run, NEW answers, NEW A, NEW M, SearchOK(run, answers, A, M)
  PROVE  /\ Len(A) \in Nat /\ DOMAIN A = 1..Len(A) /\ DOMAIN answers = DOMAIN A
         /\ 0 \notin DOMAIN A /\ M \subseteq DOMAIN A
         /\ \A n \in DOMAIN A : answers[n] \in {0, 1}
<1>1. answers \in Seq({0, 1}) /\ Len(answers) = Len(A)
  BY DEF SearchOK
<1>2. A \in Seq({"find-sources", "find-keywords"} \X Ids)
  BY DEF SearchOK
<1>3. M \subseteq DOMAIN A
  BY DEF SearchOK
<1>4. Len(A) \in Nat /\ DOMAIN A = 1..Len(A)
  BY <1>2, LenProperties
<1>5. DOMAIN answers = 1..Len(A) /\ \A n \in 1..Len(A) : answers[n] \in {0, 1}
  BY <1>1, LenProperties, ElementOfSeq
<1> QED
  BY <1>3, <1>4, <1>5

\* A traversal goes on for the same search.
LEMMA SearchSame ==
  ASSUME NEW run, NEW answers, NEW A, NEW M, SearchOK(run, answers, A, M),
         NEW key \in DOMAIN run, NEW t, t.who = run[key].who, NEW v, Becomes(run, key, t, v)
  PROVE  SearchOK(v, answers, A, M)
<1>1. DOMAIN v = DOMAIN run /\ \A k \in DOMAIN v : v[k].who = run[k].who
  BY DEF Becomes
<1> QED
  BY <1>1 DEF SearchOK

\* A traversal starts for a search that had none.
LEMMA SearchStarts ==
  ASSUME NEW run, NEW answers, NEW A, NEW M, SearchOK(run, answers, A, M),
         NEW key, key \notin DOMAIN run, NEW t, NEW v, Becomes(run, key, t, v),
         IF key[1] \in Searching THEN t.who \in M /\ A[t.who] = SearchOf(key)
                                 ELSE t.who = 0
  PROVE  SearchOK(v, answers, A, M \ {t.who})
<1> DEFINE n == t.who
           N == M \ {n}
<1>1. /\ DOMAIN v = DOMAIN run \cup {key} /\ v[key].who = n
      /\ \A k \in DOMAIN run : k # key /\ v[k].who = run[k].who
  BY DEF Becomes
<1>2. 0 \notin DOMAIN A /\ M \subseteq DOMAIN A
  BY SearchIs
<1>3. \A k \in DOMAIN v : IF k[1] \in Searching
                          THEN v[k].who \in DOMAIN A /\ A[v[k].who] = SearchOf(k)
                          ELSE v[k].who = 0
  <2> TAKE k \in DOMAIN v
  <2>1. CASE k = key
    BY <1>1, <1>2, <2>1
  <2>2. CASE k # key
    <3>1. k \in DOMAIN run /\ v[k].who = run[k].who
      BY <1>1, <2>2
    <3> QED
      BY <3>1 DEF SearchOK
  <2> QED
    BY <2>1, <2>2
<1>4. n = 0 \/ (n \in M /\ answers[n] = 0 /\ \A k \in DOMAIN run : run[k].who # n)
  BY DEF SearchOK
<1>5. \A j, k \in DOMAIN v : v[j].who = v[k].who /\ v[j].who # 0 => j = k
  <2> TAKE j, k \in DOMAIN v
  <2> HAVE v[j].who = v[k].who /\ v[j].who # 0
  <2>1. CASE j = key \/ k = key
    BY <1>1, <1>4, <2>1
  <2>2. CASE j # key /\ k # key
    <3>1. /\ j \in DOMAIN run /\ k \in DOMAIN run /\ v[j].who = run[j].who
          /\ v[k].who = run[k].who
      BY <1>1, <2>2
    <3> QED
      BY <3>1 DEF SearchOK
  <2> QED
    BY <2>1, <2>2
<1>6. \A k \in DOMAIN v : v[k].who # 0 => answers[v[k].who] = 0
  <2> TAKE k \in DOMAIN v
  <2> HAVE v[k].who # 0
  <2>1. CASE k = key
    BY <1>1, <1>4, <2>1
  <2>2. CASE k # key
    <3>1. k \in DOMAIN run /\ v[k].who = run[k].who
      BY <1>1, <2>2
    <3> QED
      BY <3>1 DEF SearchOK
  <2> QED
    BY <2>1, <2>2
<1>7. \A m \in N : m \in DOMAIN A /\ answers[m] = 0 /\ \A k \in DOMAIN v : v[k].who # m
  <2> TAKE m \in N
  <2>1. m \in M /\ m # n
    OBVIOUS
  <2>2. m \in DOMAIN A /\ answers[m] = 0 /\ \A k \in DOMAIN run : run[k].who # m
    BY <2>1 DEF SearchOK
  <2> QED
    BY <1>1, <2>1, <2>2
<1>8. \A m \in DOMAIN A : \/ answers[m] = 1 \/ m \in N \/ RivalIn(A, m)
                          \/ \E k \in DOMAIN v : v[k].who = m
  <2> TAKE m \in DOMAIN A
  <2>1. CASE m = n
    BY <1>1, <2>1
  <2>2. CASE m # n
    <3>1. \/ answers[m] = 1 \/ m \in M \/ RivalIn(A, m)
          \/ \E k \in DOMAIN run : run[k].who = m
      BY DEF SearchOK
    <3> QED
      BY <1>1, <2>2, <3>1
  <2> QED
    BY <2>1, <2>2
<1>9. /\ answers \in Seq({0, 1}) /\ Len(answers) = Len(A)
      /\ A \in Seq({"find-sources", "find-keywords"} \X Ids)
  BY DEF SearchOK
<1> HIDE DEF N
<1>10. SearchOK(v, answers, A, N)
  BY ONLY <1>3, <1>5, <1>6, <1>7, <1>8, <1>9 DEF SearchOK
<1> QED
  BY <1>10 DEF N

\* A traversal ends: its search is to be answered, or goes to its next stage.
LEMMA SearchEnds ==
  ASSUME NEW run, NEW answers, NEW A, NEW M, SearchOK(run, answers, A, M),
         NEW key \in DOMAIN run, NEW v, Without(run, key, v)
  PROVE  /\ SearchOK(v, answers, A, IF key[1] \in Searching THEN M \cup {run[key].who} ELSE M)
         /\ key[1] \in Searching =>
              run[key].who \notin M /\ run[key].who # 0 /\ A[run[key].who] = SearchOf(key)
<1> DEFINE n == run[key].who
           N == IF key[1] \in Searching THEN M \cup {n} ELSE M
<1>1. DOMAIN v = DOMAIN run \ {key} /\ \A k \in DOMAIN v : v[k].who = run[k].who
  BY DEF Without
<1>2. 0 \notin DOMAIN A /\ M \subseteq DOMAIN A
  BY SearchIs
<1>3. /\ key[1] \in Searching => n \in DOMAIN A /\ n # 0 /\ n \notin M /\ A[n] = SearchOf(key)
      /\ key[1] \notin Searching => n = 0
  BY <1>2 DEF SearchOK
<1>4. \A k \in DOMAIN v : k \in DOMAIN run /\ k # key
  BY <1>1
<1>5. \A k \in DOMAIN v : IF k[1] \in Searching
                          THEN v[k].who \in DOMAIN A /\ A[v[k].who] = SearchOf(k)
                          ELSE v[k].who = 0
  BY <1>1, <1>4 DEF SearchOK
<1>6. \A j, k \in DOMAIN v : v[j].who = v[k].who /\ v[j].who # 0 => j = k
  BY <1>1, <1>4 DEF SearchOK
<1>7. \A k \in DOMAIN v : v[k].who # 0 => answers[v[k].who] = 0
  BY <1>1, <1>4 DEF SearchOK
<1>8. \A m \in N : m \in DOMAIN A /\ answers[m] = 0 /\ \A k \in DOMAIN v : v[k].who # m
  <2> TAKE m \in N
  <2>1. CASE m \in M
    BY <1>1, <1>4, <2>1 DEF SearchOK
  <2>2. CASE m = n /\ key[1] \in Searching
    <3>1. m \in DOMAIN A /\ m # 0
      BY <1>3, <2>2
    <3>2. answers[m] = 0
      BY <1>3, <2>2 DEF SearchOK
    <3>3. \A k \in DOMAIN v : v[k].who # m
      BY <1>1, <1>3, <1>4, <2>2 DEF SearchOK
    <3> QED
      BY <3>1, <3>2, <3>3
  <2> QED
    BY <2>1, <2>2
<1>9. \A m \in DOMAIN A : \/ answers[m] = 1 \/ m \in N \/ RivalIn(A, m)
                          \/ \E k \in DOMAIN v : v[k].who = m
  <2> TAKE m \in DOMAIN A
  <2>1. \/ answers[m] = 1 \/ m \in M \/ RivalIn(A, m)
        \/ \E k \in DOMAIN run : run[k].who = m
    BY DEF SearchOK
  <2>2. CASE n = m
    BY <1>2, <1>3, <2>2
  <2>3. CASE n # m
    BY <1>1, <2>1, <2>3
  <2> QED
    BY <2>2, <2>3
<1>10. /\ answers \in Seq({0, 1}) /\ Len(answers) = Len(A)
       /\ A \in Seq({"find-sources", "find-keywords"} \X Ids)
  BY DEF SearchOK
<1> HIDE DEF N
<1>11. SearchOK(v, answers, A, N)
  BY ONLY <1>5, <1>6, <1>7, <1>8, <1>9, <1>10 DEF SearchOK
<1> QED
  BY <1>3, <1>11 DEF N

\* The listener is called.
LEMMA SearchTold ==
  ASSUME NEW run, NEW answers, NEW A, NEW M, SearchOK(run, answers, A, M),
         NEW n \in M, NEW more, more = [answers EXCEPT ![n] = @ + 1]
  PROVE  SearchOK(run, more, A, M \ {n})
<1>1. /\ DOMAIN answers = DOMAIN A /\ M \subseteq DOMAIN A /\ DOMAIN A = 1..Len(A)
      /\ Len(A) \in Nat /\ \A m \in DOMAIN A : answers[m] \in {0, 1}
  BY SearchIs
<1>2. answers[n] = 0 /\ n \in DOMAIN A /\ \A k \in DOMAIN run : run[k].who # n
  BY DEF SearchOK
<1>3. /\ answers \in Seq({0, 1}) /\ Len(answers) = Len(A)
      /\ A \in Seq({"find-sources", "find-keywords"} \X Ids)
  BY DEF SearchOK
<1>4. more = [answers EXCEPT ![n] = 1]
  BY <1>1, <1>2
<1>5. more \in Seq({0, 1}) /\ Len(more) = Len(A)
  BY <1>1, <1>2, <1>3, <1>4, ExceptSeq
<1>6. more[n] = 1 /\ \A m \in DOMAIN A : m # n => more[m] = answers[m]
  BY <1>1, <1>2, <1>4
<1>7. \A k \in DOMAIN run : run[k].who # 0 => more[run[k].who] = 0
  <2> TAKE k \in DOMAIN run
  <2> HAVE run[k].who # 0
  <2>1. run[k].who \in DOMAIN A /\ answers[run[k].who] = 0
    BY DEF SearchOK
  <2> QED
    BY <1>2, <1>6, <2>1
<1>8. \A m \in M \ {n} : m \in DOMAIN A /\ more[m] = 0 /\ \A k \in DOMAIN run : run[k].who # m
  BY <1>6 DEF SearchOK
<1>9. \A m \in DOMAIN A : \/ more[m] = 1 \/ m \in M \ {n} \/ RivalIn(A, m)
                          \/ \E k \in DOMAIN run : run[k].who = m
  <2> TAKE m \in DOMAIN A
  <2>1. \/ answers[m] = 1 \/ m \in M \/ RivalIn(A, m)
        \/ \E k \in DOMAIN run : run[k].who = m
    BY DEF SearchOK
  <2> QED
    BY <1>6, <2>1
<1>10. /\ \A k \in DOMAIN run : IF k[1] \in Searching
                          THEN run[k].who \in DOMAIN A /\ A[run[k].who] = SearchOf(k)
                          ELSE run[k].who = 0
       /\ \A j, k \in DOMAIN run : run[j].who = run[k].who /\ run[j].who # 0 => j = k
  BY DEF SearchOK
<1> QED
  BY ONLY <1>3, <1>5, <1>7, <1>8, <1>9, <1>10 DEF SearchOK

\* A search that is pushed aside by its rival
LEMMA SearchPushed ==
  ASSUME NEW run, NEW answers, NEW A, NEW M, SearchOK(run, answers, A, M),
         NEW n, RivalIn(A, n)
  PROVE  SearchOK(run, answers, A, M \ {n})
BY DEF SearchOK

\* A search is accepted.
LEMMA SearchAccepted ==
  ASSUME NEW run, NEW answers, NEW A, SearchOK(run, answers, A, {}),
         NEW key \in {"find-sources", "find-keywords"} \X Ids
  PROVE  SearchOK(run, Append(answers, 0), Append(A, key), {Len(A) + 1})
<1> DEFINE more == Append(answers, 0)
           C == Append(A, key)
<1>1. /\ DOMAIN answers = DOMAIN A /\ DOMAIN A = 1..Len(A) /\ Len(A) \in Nat
  BY SearchIs
<1>2. /\ answers \in Seq({0, 1}) /\ Len(answers) = Len(A)
      /\ A \in Seq({"find-sources", "find-keywords"} \X Ids)
  BY DEF SearchOK
<1>3. PICK n : n = Len(A)
  OBVIOUS
<1>4. /\ more \in Seq({0, 1}) /\ Len(more) = n + 1 /\ more[n + 1] = 0
      /\ \A m \in 1..n : more[m] = answers[m]
  BY <1>2, <1>3, AppendIs
<1>5. /\ C \in Seq({"find-sources", "find-keywords"} \X Ids) /\ Len(C) = n + 1
      /\ \A m \in 1..n : C[m] = A[m]
  BY <1>2, <1>3, AppendIs
<1>6. DOMAIN C = 1..n + 1
  BY <1>5, LenProperties
<1>7. n \in Nat /\ DOMAIN A = 1..n
  BY <1>1, <1>3
<1> HIDE DEF more, C
<1>8. \A k \in DOMAIN run :
        /\ IF k[1] \in Searching THEN run[k].who \in 1..n /\ A[run[k].who] = SearchOf(k)
                                 ELSE run[k].who = 0
        /\ run[k].who # 0 => answers[run[k].who] = 0
  BY <1>7 DEF SearchOK
<1>9. \A k \in DOMAIN run : run[k].who # n + 1
  BY <1>7, <1>8
<1>10. \A k \in DOMAIN run :
         IF k[1] \in Searching THEN run[k].who \in DOMAIN C /\ C[run[k].who] = SearchOf(k)
                               ELSE run[k].who = 0
  BY <1>5, <1>6, <1>7, <1>8
<1>11. \A k \in DOMAIN run : run[k].who # 0 => more[run[k].who] = 0
  BY <1>4, <1>8
<1>12. \A m \in {n + 1} : m \in DOMAIN C /\ more[m] = 0 /\ \A k \in DOMAIN run : run[k].who # m
  BY <1>4, <1>6, <1>7, <1>9
<1>13. \A m \in DOMAIN C : \/ more[m] = 1 \/ m \in {n + 1} \/ RivalIn(C, m)
                           \/ \E k \in DOMAIN run : run[k].who = m
  <2> TAKE m \in DOMAIN C
  <2>1. CASE m = n + 1
    BY <2>1
  <2>2. CASE m # n + 1
    <3>1. m \in 1..n
      BY <1>6, <1>7, <2>2
    <3>2. \/ answers[m] = 1 \/ RivalIn(A, m) \/ \E k \in DOMAIN run : run[k].who = m
      BY <1>7, <3>1 DEF SearchOK
    <3>3. ASSUME RivalIn(A, m) PROVE RivalIn(C, m)
      <4>1. PICK l \in 1..n : l # m /\ A[l] = A[m]
        BY <1>7, <3>3 DEF RivalIn
      <4>2. l \in DOMAIN C /\ C[l] = C[m]
        BY <1>5, <1>6, <1>7, <3>1, <4>1
      <4> QED
        BY <4>1, <4>2 DEF RivalIn
    <3> QED
      BY <1>4, <3>1, <3>2, <3>3
  <2> QED
    BY <2>1, <2>2
<1>14. \A j, k \in DOMAIN run : run[j].who = run[k].who /\ run[j].who # 0 => j = k
  BY DEF SearchOK
<1>15. SearchOK(run, more, C, {n + 1})
  BY ONLY <1>4, <1>5, <1>10, <1>11, <1>12, <1>13, <1>14 DEF SearchOK
<1> QED
  BY <1>3, <1>15 DEF more, C

-----------------------------------------------------------------------------
(* Operations of the tracker *)

\* The table and the settings stay.
SameTable(w, v) ==
  /\ IsTracker(v) /\ v.nodes = w.nodes /\ v.at = w.at /\ v.live = w.live /\ v.repl = w.repl
  /\ v.up = w.up /\ v.routers = w.routers /\ v.storage = w.storage

LEMMA SameTableInv ==
  ASSUME NEW w, TableInv(w), NEW up, PlainOK(w, up), NEW v, SameTable(w, v)
  PROVE  TableInv(v) /\ PlainOK(v, up)
<1>1. Named(v) = Named(w)
  BY DEF SameTable, Named
<1>2. \A k : Sole(v, k) <=> Sole(w, k)
  BY DEF SameTable, Sole
<1>3. NodesInv(v)
  BY <1>1, <1>2 DEF SameTable, TableInv, NodesInv
<1>4. ListsInv(v)
  BY <1>1, SameLists DEF SameTable, TableInv
<1> QED
  BY <1>3, <1>4 DEF SameTable, TableInv, PlainOK

\* An operation on the table leaves the requests alone.
LEMMA MovesInv ==
  ASSUME NEW w, NEW P, NEW B, NEW M, NEW A, NEW up, TrackerInv(w, P, B, M, A, up),
         NEW v, Moves(w, v)
  PROVE  /\ TrackerInv(v, P, B, M, A, up)
         /\ v.tx = w.tx /\ v.running = w.running /\ v.answers = w.answers
<1>1. TableInv(v) /\ Rest(v) = Rest(w)
  BY DEF Moves
<1>2. /\ v.up = w.up /\ v.routers = w.routers /\ v.storage = w.storage
      /\ v.tx = w.tx /\ v.running = w.running /\ v.answers = w.answers
  BY <1>1 DEF Rest
<1> QED
  BY <1>1, <1>2 DEF TrackerInv, PlainOK

\* The requests change, the table stays.
LEMMA InvAgain ==
  ASSUME NEW w, NEW P, NEW B, NEW M, NEW A, NEW up, TrackerInv(w, P, B, M, A, up),
         NEW v, SameTable(w, v), NEW Q, NEW C, NEW N,
         TxOK(v.tx), RunOK(v.running, C), Linked(v.tx, v.running, Q),
         SearchOK(v.running, v.answers, A, N)
  PROVE  TrackerInv(v, Q, C, N, A, up)
<1>1. TableInv(v) /\ PlainOK(v, up)
  BY SameTableInv DEF TrackerInv
<1> QED
  BY <1>1 DEF TrackerInv

\* A traversal that has requests out need not be looked at.
LEMMA OutsideInv ==
  ASSUME NEW w, NEW P, NEW B, NEW M, NEW A, NEW up, TrackerInv(w, P, B, M, A, up),
         NEW key, key \in DOMAIN w.running => w.running[key].out # 0
  PROVE  TrackerInv(w, P, B \ {key}, M, A, up)
<1>1. RunOK(w.running, B \ {key})
  BY DEF TrackerInv, RunOK
<1> QED
  BY <1>1 DEF TrackerInv

LEMMA WiderInv ==
  ASSUME NEW w, NEW P, NEW B, NEW M, NEW A, NEW up, TrackerInv(w, P, B, M, A, up),
         NEW C, B \subseteq C
  PROVE  TrackerInv(w, P, C, M, A, up)
<1>1. RunOK(w.running, C)
  BY DEF TrackerInv, RunOK
<1> QED
  BY <1>1 DEF TrackerInv

LEMMA RunningIs ==
  ASSUME NEW w, NEW P, NEW B, NEW M, NEW A, NEW up, TrackerInv(w, P, B, M, A, up),
         NEW key \in DOMAIN w.running
  PROVE  /\ IsTracker(w) /\ w.running = [k \in DOMAIN w.running |-> w.running[k]]
         /\ w.running[key] \in Traversals /\ ListOK(w.running[key]) /\ CountOK(w.running[key])
         /\ key \in Kinds \X Ids /\ key[1] \in Kinds /\ key[2] \in Ids /\ key # Nobody
<1>1. IsTracker(w)
  BY DEF TrackerInv, TableInv
<1>2. /\ w.running[key] \in Traversals /\ ListOK(w.running[key]) /\ CountOK(w.running[key])
      /\ key \in Kinds \X Ids /\ w.running = [k \in DOMAIN w.running |-> w.running[k]]
  BY DEF TrackerInv, RunOK
<1> QED
  BY <1>1, <1>2, Parameters

\* Some counts add up: what follows two lists one after the other
LEMMA ConcatIs ==
  ASSUME NEW S, NEW s \in Seq(S), NEW r \in Seq(S)
  PROVE  /\ s \o r \in Seq(S) /\ Len(s \o r) = Len(s) + Len(r)
         /\ DOMAIN (s \o r) = 1..Len(s) + Len(r)
         /\ \A j \in 1..Len(s) : (s \o r)[j] = s[j]
         /\ \A i \in 1..Len(r) : (s \o r)[Len(s) + i] = r[i]
<1>1. s \o r \in Seq(S) /\ Len(s \o r) = Len(s) + Len(r)
  BY ConcatProperties
<1>2. DOMAIN (s \o r) = 1..Len(s) + Len(r)
  BY <1>1, LenProperties
<1>3. \A i \in 1..Len(s) + Len(r) : (s \o r)[i] = IF i <= Len(s) THEN s[i] ELSE r[i - Len(s)]
  BY ConcatProperties
<1>4. PICK m, n : m = Len(s) /\ n = Len(r)
  OBVIOUS
<1>5. m \in Nat /\ n \in Nat
  BY <1>4, LenProperties
<1>6. ASSUME NEW j \in 1..m PROVE (s \o r)[j] = s[j]
  <2>1. j \in 1..m + n /\ j <= m
    BY <1>5
  <2> QED
    BY <1>3, <1>4, <2>1
<1>7. ASSUME NEW i \in 1..n PROVE (s \o r)[m + i] = r[i]
  <2>1. m + i \in 1..m + n /\ ~(m + i <= m) /\ (m + i) - m = i
    BY <1>5
  <2> QED
    BY <1>3, <1>4, <2>1
<1> QED
  BY <1>1, <1>2, <1>4, <1>6, <1>7

LEMMA RequestIs ==
  ASSUME NEW key \in Kinds \X Ids, NEW t \in Traversals, NEW i \in 1..Len(t.obs)
  PROVE  LET x == Request(key, t, i)
         IN  x \in Transactions /\ Fits(x) /\ x.key = key /\ x.obs = i /\ key # Nobody
<1> DEFINE x == Request(key, t, i)
<1>1. key[1] \in Kinds /\ key[2] \in Ids /\ key # Nobody
  BY Parameters
<1>2. t.obs[i].to \in Addrs /\ i \in Nat
  BY WaitingIs DEF Observers
<1>3. Answer[key[1]] \in {"bootstrapRes", "firewalledRes", "searchRes", "res", "helloRes"}
  BY <1>1 DEF Answer, Kinds, Direct
<1>4. AnswerTarget(key) \in Ids \cup {NoTarget}
  BY <1>1 DEF AnswerTarget
<1>5. (key[1] \in Direct) \in BOOLEAN
  OBVIOUS
<1>6. x = [to |-> t.obs[i].to, op |-> Answer[key[1]], target |-> AnswerTarget(key),
           multi |-> key[1] \in Direct, short |-> FALSE, key |-> key, obs |-> i]
  BY DEF Request
<1> HIDE DEF x
<1>7. x \in Transactions
  BY <1>2, <1>3, <1>4, <1>5, <1>6 DEF Transactions
<1>8. Fits(x)
  BY <1>1, <1>6 DEF Fits
<1> QED
  BY <1>1, <1>6, <1>7, <1>8 DEF x

\* The requests of a pass
Requests(key, t, sent) == [i \in DOMAIN sent |-> Request(key, t, sent[i])]
First0(t) == [left |-> t.want, out |-> t.out, sent |-> << >>, lost |-> {}]

LEMMA AddRequestsAre ==
  ASSUME NEW w, NEW key
  PROVE  LET t == w.running[key]
             end == Pass(w, t, First0(t), t.order)
         IN  AddRequests(w, key) = [w EXCEPT !.running[key].obs = Asked(t, end),
                                             !.running[key].out = end.out,
                                             !.tx = @ \o Requests(key, t, end.sent)]
BY DEF AddRequests, Pass, First0, Asked, Marked, Requests

\* addRequests on a traversal t, up to the end of its pass, makes it u.
OnePass(w, key, t, end, u, v) ==
  /\ t = w.running[key] /\ v = AddRequests(w, key)
  /\ end = Pass(w, t, First0(t), t.order)
  /\ u = [t EXCEPT !.obs = Asked(t, end), !.out = end.out]
  /\ SameTable(w, v) /\ v.answers = w.answers
  /\ v.running = [w.running EXCEPT ![key] = u]
  /\ v.tx = w.tx \o Requests(key, t, end.sent)

LEMMA AddRequestsIs ==
  ASSUME NEW w, IsTracker(w), NEW key \in DOMAIN w.running
  PROVE  \E t, end, u, v : OnePass(w, key, t, end, u, v)
<1>1. PICK t : t = w.running[key]
  OBVIOUS
<1>2. PICK end : end = Pass(w, t, First0(t), t.order)
  OBVIOUS
<1>3. PICK v : v = AddRequests(w, key)
  OBVIOUS
<1>4. v = [w EXCEPT !.running[key].obs = Asked(t, end),
                    !.running[key].out = end.out,
                    !.tx = @ \o Requests(key, t, end.sent)]
  BY <1>1, <1>2, <1>3, AddRequestsAre
<1>5. PICK obs : obs = Asked(t, end)
  OBVIOUS
<1>6. PICK out : out = end.out
  OBVIOUS
<1>7. PICK more : more = Requests(key, t, end.sent)
  OBVIOUS
<1>8. v = [w EXCEPT !.running[key].obs = obs, !.running[key].out = out, !.tx = @ \o more]
  BY <1>4, <1>5, <1>6, <1>7
<1>9. /\ SameTable(w, v) /\ v.answers = w.answers /\ v.tx = w.tx \o more
  BY ONLY <1>8, IsTracker(w) DEF SameTable, IsTracker
<1>10. PICK u : u = [t EXCEPT !.obs = obs, !.out = out]
  OBVIOUS
<1>11. v.running = [w.running EXCEPT ![key] = u]
  BY <1>1, <1>8, <1>10 DEF IsTracker
<1>12. u = [t EXCEPT !.obs = Asked(t, end), !.out = end.out]
  BY <1>5, <1>6, <1>10
<1>13. /\ t = w.running[key] /\ v = AddRequests(w, key)
       /\ end = Pass(w, t, First0(t), t.order)
       /\ SameTable(w, v) /\ v.answers = w.answers
       /\ v.running = [w.running EXCEPT ![key] = u]
       /\ v.tx = w.tx \o Requests(key, t, end.sent)
  BY <1>1, <1>2, <1>3, <1>7, <1>9, <1>11
<1>14. OnePass(w, key, t, end, u, v)
  BY ONLY <1>12, <1>13 DEF OnePass
<1> QED
  BY <1>14

\* addRequests: a transaction for each request
LEMMA AddRequestsInv ==
  ASSUME NEW w, NEW P, NEW B, NEW M, NEW A, NEW up, TrackerInv(w, P, B, M, A, up),
         NEW key \in DOMAIN w.running, NEW v, v = AddRequests(w, key)
  PROVE  /\ TrackerInv(v, P, B \cup {key}, M, A, up)
         /\ DOMAIN v.running = DOMAIN w.running /\ v.running[key].who = w.running[key].who
<1>1. IsTracker(w)
  BY RunningIs
<1>2. PICK t, end, u, x : OnePass(w, key, t, end, u, x)
  BY ONLY <1>1, key \in DOMAIN w.running, AddRequestsIs
<1>3. /\ SameTable(w, v) /\ v.answers = w.answers
      /\ v.running = [w.running EXCEPT ![key] = u]
      /\ v.tx = w.tx \o Requests(key, t, end.sent)
  BY <1>2 DEF OnePass
<1>4. /\ w.running = [k \in DOMAIN w.running |-> w.running[k]]
      /\ t \in Traversals /\ ListOK(t) /\ CountOK(t) /\ key \in Kinds \X Ids
  BY <1>2, RunningIs DEF OnePass
<1>5. u = [t EXCEPT !.obs = Asked(t, end), !.out = end.out]
  BY <1>2 DEF OnePass
<1>6. PassOK(t, Len(t.order), end)
  <2>1. PICK acc : acc = First0(t)
    OBVIOUS
  <2>2. acc = [left |-> t.want, out |-> t.out, sent |-> << >>, lost |-> {}]
    BY <2>1 DEF First0
  <2>3. PassOK(t, Len(t.order), Pass(w, t, acc, t.order))
    BY <1>4, <2>2, PassIs
  <2> QED
    BY <1>2, <2>1, <2>3 DEF OnePass
<1>7. /\ u \in Traversals /\ ListOK(u) /\ CountOK(u) /\ u.who = t.who
      /\ Waiting(u) = Waiting(t) \cup ToSet(end.sent)
      /\ \A i \in 1..Len(end.sent) : end.sent[i] \in 1..Len(t.obs) /\ end.sent[i] \notin Waiting(t)
  BY ONLY <1>4, <1>5, <1>6, AskedIs
<1>8. PICK sent : sent = end.sent
  OBVIOUS
<1>9. sent \in Seq(Nat) /\ \A i, j \in 1..Len(sent) : sent[i] = sent[j] => i = j
  BY <1>6, <1>8 DEF PassOK, Passes
<1>10. PICK run : run = w.running
  OBVIOUS
<1>11. PICK tx : tx = w.tx
  OBVIOUS
<1>12. RunOK(run, B) /\ Linked(tx, run, P) /\ TxOK(tx) /\ SearchOK(run, w.answers, A, M)
  BY <1>10, <1>11 DEF TrackerInv
<1>13. Becomes(run, key, u, v.running)
  <2>1. Becomes(run, key, u, [run EXCEPT ![key] = u])
    BY <1>10, <1>12, ExceptBecomes
  <2> QED
    BY <1>3, <1>10, <2>1
<1>14. PICK more : more = Requests(key, t, sent)
  OBVIOUS
<1>15. /\ more \in Seq(Transactions) /\ Len(more) = Len(sent)
       /\ \A i \in 1..Len(sent) : Fits(more[i]) /\ more[i].key = key /\ more[i].obs = sent[i]
  <2>1. Len(sent) \in Nat /\ DOMAIN sent = 1..Len(sent)
    BY <1>9, LenProperties
  <2>2. more = [i \in 1..Len(sent) |-> Request(key, t, sent[i])]
    BY <1>14, <2>1 DEF Requests
  <2>3. \A i \in 1..Len(sent) :
          /\ Request(key, t, sent[i]) \in Transactions /\ Fits(Request(key, t, sent[i]))
          /\ Request(key, t, sent[i]).key = key /\ Request(key, t, sent[i]).obs = sent[i]
    BY <1>4, <1>7, <1>8, RequestIs
  <2>4. \A i \in 1..Len(sent) : more[i] = Request(key, t, sent[i])
    BY <2>2
  <2>5. more \in Seq(Transactions) /\ Len(more) = Len(sent)
    <3>1. more \in [1..Len(sent) -> Transactions]
      BY <2>2, <2>3
    <3> QED
      BY <2>1, <3>1, SeqDef, LenProperties
  <2> QED
    BY <2>3, <2>4, <2>5
<1>16. tx \in Seq(Transactions)
  BY <1>12 DEF TxOK
<1>17. PICK all : all = tx \o more
  OBVIOUS
<1>18. /\ all \in Seq(Transactions) /\ DOMAIN all = 1..Len(tx) + Len(sent)
       /\ \A j \in 1..Len(tx) : all[j] = tx[j]
       /\ \A i \in 1..Len(sent) : all[Len(tx) + i] = more[i]
  <2>1. /\ tx \o more \in Seq(Transactions) /\ DOMAIN (tx \o more) = 1..Len(tx) + Len(more)
        /\ \A j \in 1..Len(tx) : (tx \o more)[j] = tx[j]
        /\ \A i \in 1..Len(more) : (tx \o more)[Len(tx) + i] = more[i]
    <3>1. more \in Seq(Transactions)
      BY <1>15
    <3> QED
      BY ONLY <1>16, <3>1, ConcatIs
  <2> QED
    BY <1>15, <1>17, <2>1
<1>19. v.tx = all
  BY <1>3, <1>8, <1>11, <1>14, <1>17
<1>20. Linked(all, v.running, P)
  <2>1. Waiting(u) = Pending(run, key) \cup ToSet(sent)
    BY <1>2, <1>7, <1>8, <1>10 DEF Pending, OnePass
  <2>2. \A i \in 1..Len(sent) : sent[i] \notin Pending(run, key)
    BY <1>2, <1>7, <1>8, <1>10 DEF Pending, OnePass
  <2>3. \A i \in 1..Len(sent) : all[Len(tx) + i].key = key /\ all[Len(tx) + i].obs = sent[i]
    BY <1>15, <1>18
  <2>4. Sends(tx, all, key, sent, Pending(run, key))
    BY <1>9, <1>18, <2>2, <2>3 DEF Sends
  <2>5. PICK run2 : run2 = v.running
    OBVIOUS
  <2>6. Becomes(run, key, u, run2)
    BY <1>13, <2>5
  <2>7. Linked(all, run2, P)
    BY ONLY <1>4, <1>12, <1>16, <2>1, <2>4, <2>6, LinkedAsk
  <2> QED
    BY <2>5, <2>7
<1>21. TxOK(all)
  <2>1. \A j \in DOMAIN all : Fits(all[j])
    <3> TAKE j \in DOMAIN all
    <3>1. PICK m, n : m = Len(tx) /\ n = Len(sent)
      OBVIOUS
    <3>2. m \in Nat /\ n \in Nat /\ DOMAIN tx = 1..m
      BY <1>9, <1>16, <3>1, LenProperties
    <3>3. j \in 1..m + n
      BY <1>18, <3>1
    <3>4. CASE j \in 1..m
      BY <1>12, <1>18, <3>1, <3>2, <3>4 DEF TxOK
    <3>5. CASE j \notin 1..m
      <4>1. j - m \in 1..n /\ j = m + (j - m)
        BY <3>2, <3>3, <3>5
      <4>2. all[m + (j - m)] = more[j - m] /\ Fits(more[j - m])
        BY <1>15, <1>18, <3>1, <4>1
      <4> QED
        BY <4>1, <4>2
    <3> QED
      BY <3>4, <3>5
  <2> QED
    BY <1>18, <2>1 DEF TxOK
<1>22. RunOK(v.running, B \cup {key})
  BY <1>4, <1>7, <1>12, <1>13, RunBecomes
<1>23. SearchOK(v.running, v.answers, A, M)
  BY <1>2, <1>3, <1>7, <1>10, <1>12, <1>13, SearchSame DEF OnePass
<1>24. TrackerInv(v, P, B \cup {key}, M, A, up)
  BY <1>3, <1>19, <1>20, <1>21, <1>22, <1>23, InvAgain
<1>25. DOMAIN v.running = DOMAIN w.running /\ v.running[key].who = w.running[key].who
  BY <1>2, <1>7, <1>10, <1>13 DEF Becomes, OnePass
<1> QED
  BY <1>24, <1>25

\* A traversal that did not ask yet
Idle(t, who) ==
  t \in Traversals /\ ListOK(t) /\ Waiting(t) = {} /\ t.out = 0 /\ t.who = who

LEMMA NewTraversalIs ==
  ASSUME NEW who \in Nat
  PROVE  Idle(NewTraversal(who), who) /\ NewTraversal(who).branch = 0
<1> DEFINE t == NewTraversal(who)
<1>1. t = [obs |-> << >>, order |-> << >>, want |-> 2 * BucketSize, branch |-> 0,
           out |-> 0, accum |-> {}, who |-> who]
  BY DEF NewTraversal
<1>2. 2 * BucketSize \in Int
  BY Constants
<1> HIDE DEF t
<1>3. /\ t \in Traversals /\ t.obs = << >> /\ t.order = << >> /\ t.out = 0 /\ t.who = who
      /\ t.branch = 0
  BY <1>1, <1>2 DEF Traversals
<1>4. DOMAIN t.obs = {} /\ DOMAIN t.order = {}
  BY <1>3
<1>5. ListOK(t) /\ Waiting(t) = {}
  BY <1>4 DEF ListOK, Waiting
<1> QED
  BY <1>3, <1>5 DEF Idle, t

LEMMA IdleGrows ==
  ASSUME NEW t, NEW who, Idle(t, who), NEW v, Grows(t, v)
  PROVE  Idle(v, who)
BY DEF Idle, Grows

LEMMA RoutersAre ==
  ASSUME NEW w, w.routers \subseteq Addrs
  PROVE  Routers(w) \in Seq(Addrs)
<1>1. IsFiniteSet(w.routers)
  BY Constants, FS_Subset
<1>2. PICK s : s = SetToSeq(w.routers)
  OBVIOUS
<1>3. s \in Seq(w.routers)
  BY <1>1, <1>2, SetToSeqIs
<1>4. s \in Seq(Addrs)
  BY <1>3
<1> QED
  BY <1>2, <1>4 DEF Routers

\* What start makes of a new traversal before it asks
Sized(w, key, t) ==
  LET sized == [t EXCEPT !.branch = Branching,
                         !.want = CASE key[1] = "refresh" -> 1
                                    [] key[1] \in Direct -> Len(t.order)
                                    [] OTHER -> @]
  IN IF t.order = << >> THEN AddUnknown(sized, key[2], Routers(w)) ELSE sized

LEMMA SizedIs ==
  ASSUME NEW w, w.routers \subseteq Addrs, NEW key \in Kinds \X Ids,
         NEW who, NEW t, Idle(t, who)
  PROVE  Idle(Sized(w, key, t), who) /\ CountOK(Sized(w, key, t))
<1>1. PICK want : want = CASE key[1] = "refresh" -> 1
                           [] key[1] \in Direct -> Len(t.order)
                           [] OTHER -> t.want
  OBVIOUS
<1>2. t \in Traversals /\ ListOK(t) /\ Waiting(t) = {} /\ t.out = 0 /\ t.who = who
  BY DEF Idle
<1>3. want \in Int
  BY <1>1, <1>2, WaitingIs DEF Traversals
<1>4. PICK u : u = [t EXCEPT !.branch = Branching, !.want = want]
  OBVIOUS
<1>5. /\ u \in Traversals /\ u.obs = t.obs /\ u.order = t.order /\ u.out = 0 /\ u.who = who
      /\ u.branch = Branching
  BY <1>2, <1>3, <1>4, Parameters DEF Traversals
<1>6. ListOK(u) /\ Waiting(u) = {}
  BY <1>2, <1>5 DEF ListOK, Waiting
<1>7. PICK full : full = Sized(w, key, t)
  OBVIOUS
<1>8. full = IF t.order = << >> THEN AddUnknown(u, key[2], Routers(w)) ELSE u
  BY <1>1, <1>4, <1>7 DEF Sized
<1>9. Idle(u, who)
  BY <1>5, <1>6 DEF Idle
<1>10. Idle(full, who) /\ full.branch = Branching
  <2>1. CASE t.order = << >>
    <3>1. Routers(w) \in Seq(Addrs) /\ key[2] \in Ids
      BY RoutersAre
    <3>2. Grows(u, AddUnknown(u, key[2], Routers(w)))
      BY <1>5, <1>6, <3>1, AddUnknownGrows
    <3>3. Grows(u, full)
      BY <1>8, <2>1, <3>2
    <3>4. full.branch = Branching
      BY <1>5, <3>3 DEF Grows
    <3> QED
      BY <1>9, <3>3, <3>4, IdleGrows
  <2>2. CASE t.order # << >>
    BY <1>5, <1>8, <1>9, <2>2
  <2> QED
    BY <2>1, <2>2
<1>11. CountOK(full)
  <2>1. Waiting(full) = {} /\ full.out = 0
    BY <1>10 DEF Idle
  <2>2. SlowOnes(full) = {}
    BY <2>1 DEF SlowOnes
  <2> QED
    BY <1>10, <2>1, <2>2, FS_EmptySet, Parameters DEF CountOK
<1> QED
  BY <1>7, <1>10, <1>11

\* start: a traversal of a new kind and target
LEMMA LaunchInv ==
  ASSUME NEW w, NEW P, NEW B, NEW M, NEW A, NEW up, TrackerInv(w, P, B, M, A, up),
         NEW key \in Kinds \X Ids, key \notin DOMAIN w.running,
         NEW who, NEW t, Idle(t, who),
         IF key[1] \in Searching THEN who \in M /\ A[who] = SearchOf(key) ELSE who = 0,
         NEW v, v = Launch(w, key, t)
  PROVE  TrackerInv(v, P, B \cup {key}, M \ {who}, A, up) /\ key \in DOMAIN v.running
<1>1. PICK full : full = Sized(w, key, t)
  OBVIOUS
<1>2. PICK x : x = [w EXCEPT !.running = Put(@, key, full)]
  OBVIOUS
<1>3. v = AddRequests(x, key)
  BY <1>1, <1>2 DEF Launch, Sized
<1>4. IsTracker(w) /\ w.routers \subseteq Addrs
  BY DEF TrackerInv, TableInv, PlainOK
<1>5. Idle(full, who) /\ CountOK(full)
  BY <1>1, <1>4, SizedIs
<1>6. /\ SameTable(w, x) /\ x.tx = w.tx /\ x.answers = w.answers
      /\ x.running = Put(w.running, key, full)
  BY <1>2, <1>4 DEF SameTable, IsTracker
<1>7. PICK run, new : run = w.running /\ new = x.running
  OBVIOUS
<1>8. RunOK(run, B) /\ Linked(w.tx, run, P) /\ TxOK(w.tx) /\ SearchOK(run, w.answers, A, M)
  BY <1>7 DEF TrackerInv
<1>9. Becomes(run, key, full, new)
  BY <1>6, <1>7, PutBecomes
<1>10. RunOK(new, B \cup {key})
  BY <1>5, <1>8, <1>9, RunBecomes DEF Idle
<1>11. Linked(w.tx, new, P)
  <2>1. Waiting(full) = Pending(run, key)
    BY <1>5, <1>7 DEF Idle, Pending
  <2> QED
    BY <1>8, <1>9, <2>1, LinkedSame
<1>12. SearchOK(new, w.answers, A, M \ {who})
  <2>1. full.who = who
    BY <1>5 DEF Idle
  <2>2. IF key[1] \in Searching THEN full.who \in M /\ A[full.who] = SearchOf(key)
                                ELSE full.who = 0
    BY <2>1
  <2>3. SearchOK(new, w.answers, A, M \ {full.who})
    BY <1>7, <1>8, <1>9, <2>2, SearchStarts
  <2> QED
    BY <2>1, <2>3
<1>13. TrackerInv(x, P, B \cup {key}, M \ {who}, A, up)
  BY <1>6, <1>7, <1>8, <1>10, <1>11, <1>12, InvAgain
<1>14. key \in DOMAIN x.running
  BY <1>7, <1>9 DEF Becomes
<1>15. /\ TrackerInv(v, P, (B \cup {key}) \cup {key}, M \ {who}, A, up)
       /\ DOMAIN v.running = DOMAIN x.running
  BY <1>3, <1>13, <1>14, AddRequestsInv
<1>16. (B \cup {key}) \cup {key} = B \cup {key}
  OBVIOUS
<1> QED
  BY <1>14, <1>15, <1>16

LEMMA ForgetIs ==
  ASSUME NEW w, IsTracker(w), NEW key
  PROVE  /\ SameTable(w, Forget(w, key)) /\ Forget(w, key).tx = w.tx
         /\ Forget(w, key).answers = w.answers
         /\ Without(w.running, key, Forget(w, key).running)
<1>1. PICK v : v = Forget(w, key)
  OBVIOUS
<1>2. PICK less : less = [k \in DOMAIN w.running \ {key} |-> w.running[k]]
  OBVIOUS
<1>3. v = [w EXCEPT !.running = less]
  BY <1>1, <1>2 DEF Forget
<1>4. SameTable(w, v) /\ v.tx = w.tx /\ v.answers = w.answers /\ v.running = less
  BY <1>3 DEF SameTable, IsTracker
<1>5. Without(w.running, key, less)
  BY <1>2, ForgetWithout
<1> QED
  BY <1>1, <1>4, <1>5

\* The traversal is over and out of the map, its search is in nobody's hands.
LEMMA ForgetInv ==
  ASSUME NEW w, NEW P, NEW B, NEW M, NEW A, NEW up, TrackerInv(w, P, B, M, A, up),
         NEW key \in DOMAIN w.running, w.running[key].out = 0,
         NEW v, v = Forget(w, key), NEW n, n = w.running[key].who
  PROVE  /\ key[1] \in Searching => TrackerInv(v, P, B \ {key}, M \cup {n}, A, up)
         /\ key[1] \notin Searching => TrackerInv(v, P, B \ {key}, M, A, up)
         /\ DOMAIN v.running = DOMAIN w.running \ {key} /\ v.answers = w.answers
         /\ \A k \in DOMAIN v.running : v.running[k] = w.running[k]
         /\ key[1] \in Searching => n \notin M /\ n # 0 /\ A[n] = SearchOf(key)
<1>1. IsTracker(w)
  BY DEF TrackerInv, TableInv
<1>2. PICK run, less : run = w.running /\ less = v.running
  OBVIOUS
<1>3. SameTable(w, v) /\ v.tx = w.tx /\ v.answers = w.answers /\ Without(run, key, less)
  BY <1>1, <1>2, ForgetIs
<1>4. RunOK(run, B) /\ Linked(w.tx, run, P) /\ TxOK(w.tx) /\ SearchOK(run, w.answers, A, M)
  BY <1>2 DEF TrackerInv
<1>5. RunOK(less, B \ {key}) /\ Linked(w.tx, less, P)
  BY <1>2, <1>3, <1>4, RunForget
<1>6. PICK N : N = IF key[1] \in Searching THEN M \cup {run[key].who} ELSE M
  OBVIOUS
<1>7. /\ SearchOK(less, w.answers, A, N)
      /\ key[1] \in Searching => n \notin M /\ n # 0 /\ A[n] = SearchOf(key)
  BY <1>2, <1>3, <1>4, <1>6, SearchEnds
<1>8. TrackerInv(v, P, B \ {key}, N, A, up)
  BY <1>2, <1>3, <1>4, <1>5, <1>7, InvAgain
<1>9. /\ DOMAIN less = DOMAIN run \ {key} /\ \A k \in DOMAIN less : less[k] = run[k]
  BY <1>3 DEF Without
<1> QED
  BY <1>2, <1>3, <1>6, <1>7, <1>8, <1>9

\* done of a direct search: its listener is called.
LEMMA FinishSearchInv ==
  ASSUME NEW w, NEW P, NEW B, NEW M, NEW A, NEW up, TrackerInv(w, P, B, M, A, up),
         NEW key \in DOMAIN w.running, w.running[key].out = 0, key[1] \in Direct,
         NEW v, v = FinishSearch(w, key)
  PROVE  TrackerInv(v, P, B \ {key}, M, A, up)
<1>1. PICK x : x = Forget(w, key)
  OBVIOUS
<1>2. PICK n : n = w.running[key].who
  OBVIOUS
<1>3. key[1] \in Searching
  BY DEF Searching
<1>4. /\ TrackerInv(x, P, B \ {key}, M \cup {n}, A, up) /\ n \notin M
  BY <1>1, <1>2, <1>3, ForgetInv
<1>5. PICK what : what = IF key[1] = "search-sources" THEN "sources" ELSE "keywords"
  OBVIOUS
<1>6. PICK more : more = {key[2]} \X w.running[key].accum
  OBVIOUS
<1>7. v = [x EXCEPT !.index[what] = @ \cup more, !.answers[n] = @ + 1]
  BY <1>1, <1>2, <1>5, <1>6 DEF FinishSearch
<1>8. IsTracker(x)
  BY <1>4 DEF TrackerInv, TableInv
<1>9. /\ SameTable(x, v) /\ v.tx = x.tx /\ v.running = x.running
      /\ v.answers = [x.answers EXCEPT ![n] = @ + 1]
  BY <1>8, <1>7 DEF SameTable, IsTracker
<1>10. PICK run, answers : run = x.running /\ answers = v.answers
  OBVIOUS
<1>11. /\ RunOK(run, B \ {key}) /\ Linked(x.tx, run, P) /\ TxOK(x.tx)
      /\ SearchOK(run, x.answers, A, M \cup {n})
  BY <1>4, <1>10 DEF TrackerInv
<1>12. SearchOK(run, answers, A, (M \cup {n}) \ {n})
  BY <1>9, <1>10, <1>11, SearchTold
<1>13. (M \cup {n}) \ {n} = M
  BY <1>4
<1>14. SearchOK(run, answers, A, M)
  BY <1>12, <1>13
<1> QED
  BY <1>4, <1>9, <1>10, <1>11, <1>14, InvAgain

\* A find and the direct search that follows belong to the same search.
LEMMA NextStage ==
  ASSUME NEW key \in Kinds \X Ids, key[1] \in {"find-sources", "find-keywords"}, NEW next,
         next = <<IF key[1] = "find-sources" THEN "search-sources" ELSE "search-keywords", key[2]>>
  PROVE  /\ next \in Kinds \X Ids /\ next[1] \in Direct /\ next # key /\ key[1] \in Searching
         /\ next[1] \in Searching /\ SearchOf(next) = SearchOf(key) /\ SearchOf(key) = key
<1>1. key[2] \in Ids /\ key = <<key[1], key[2]>>
  OBVIOUS
<1>2. /\ next[2] = key[2]
      /\ next[1] = IF key[1] = "find-sources" THEN "search-sources" ELSE "search-keywords"
  OBVIOUS
<1>3. next \in Kinds \X Ids /\ next[1] \in Direct /\ next[1] \in Searching
  BY <1>1, <1>2 DEF Kinds, Direct, Searching
<1>4. key[1] \in Searching /\ next # key
  BY <1>2 DEF Searching
<1>5. SearchOf(key) = key /\ SearchOf(next) = key
  <2>1. CASE key[1] = "find-sources"
    <3>1. next[1] = "search-sources"
      BY <1>2, <2>1
    <3> QED
      BY <1>1, <1>2, <2>1, <3>1 DEF SearchOf
  <2>2. CASE key[1] = "find-keywords"
    <3>1. next[1] = "search-keywords"
      BY <1>2, <2>2
    <3> QED
      BY <1>1, <1>2, <2>2, <3>1 DEF SearchOf
  <2> QED
    BY <2>1, <2>2
<1> QED
  BY <1>3, <1>4, <1>5

\* What a direct search starts from
LEMMA HandedOver ==
  ASSUME NEW t \in Traversals, ListOK(t), NEW storage \in Addrs \cup {NoAddr}, NEW id \in Ids,
         NEW first, first = IF storage = NoAddr THEN NewTraversal(t.who)
                            ELSE AddCandidate(NewTraversal(t.who), storage, id)
  PROVE  Idle(HandOverAll(t, first), t.who)
<1>1. PICK u : u = NewTraversal(t.who)
  OBVIOUS
<1>2. Idle(u, t.who)
  BY <1>1, NewTraversalIs DEF Traversals
<1>3. Idle(first, t.who)
  <2>1. CASE storage = NoAddr
    BY <1>1, <1>2, <2>1
  <2>2. CASE storage # NoAddr
    <3>1. Grows(u, AddCandidate(u, storage, id))
      BY <1>2, <2>2, AddCandidateGrows DEF Idle
    <3> QED
      BY <1>1, <1>2, <2>2, <3>1, IdleGrows
  <2> QED
    BY <2>1, <2>2
<1>4. Grows(first, HandOverAll(t, first))
  BY <1>3, HandOverGrows DEF Idle
<1> QED
  BY <1>3, <1>4, IdleGrows

LEMMA StartDirectAre ==
  ASSUME NEW w, NEW key
  PROVE  LET t == w.running[key]
             next == <<IF key[1] = "find-sources" THEN "search-sources"
                       ELSE "search-keywords", key[2]>>
             first == IF w.storage = NoAddr THEN NewTraversal(t.who)
                      ELSE AddCandidate(NewTraversal(t.who), w.storage, key[2])
             started == Launch(Forget(w, key), next, HandOverAll(t, first))
         IN  StartDirect(w, key) =
               IF next \in DOMAIN w.running THEN Forget(w, key)
               ELSE IF started.running[next].out = 0 THEN FinishSearch(started, next)
               ELSE started
BY DEF StartDirect, HandOverAll

\* done of a find: its search goes on with the direct search, is answered at
\* once, or is pushed aside by a rival.
LEMMA StartDirectInv ==
  ASSUME NEW w, NEW P, NEW B, NEW M, NEW A, NEW up, TrackerInv(w, P, B, M, A, up),
         NEW key \in DOMAIN w.running, w.running[key].out = 0,
         key[1] \in {"find-sources", "find-keywords"},
         NEW v, v = StartDirect(w, key)
  PROVE  TrackerInv(v, P, B \ {key}, M, A, up)
<1>1. PICK t : t = w.running[key]
  OBVIOUS
<1>2. PICK n : n = t.who
  OBVIOUS
<1>3. PICK next : next = <<IF key[1] = "find-sources" THEN "search-sources"
                           ELSE "search-keywords", key[2]>>
  OBVIOUS
<1>4. PICK x : x = Forget(w, key)
  OBVIOUS
<1>5. PICK first : first = IF w.storage = NoAddr THEN NewTraversal(t.who)
                           ELSE AddCandidate(NewTraversal(t.who), w.storage, key[2])
  OBVIOUS
<1>6. PICK direct : direct = HandOverAll(t, first)
  OBVIOUS
<1>7. PICK started : started = Launch(x, next, direct)
  OBVIOUS
<1>8. v = IF next \in DOMAIN w.running THEN x
          ELSE IF started.running[next].out = 0 THEN FinishSearch(started, next) ELSE started
  BY <1>1, <1>3, <1>4, <1>5, <1>6, <1>7, StartDirectAre
<1>9. /\ t \in Traversals /\ ListOK(t) /\ key \in Kinds \X Ids /\ key[2] \in Ids
  BY <1>1, RunningIs
<1>10. /\ next \in Kinds \X Ids /\ next[1] \in Direct /\ next # key /\ key[1] \in Searching
       /\ next[1] \in Searching /\ SearchOf(next) = SearchOf(key)
  BY <1>3, <1>9, NextStage
<1>11. PICK N : N = M \cup {n}
  OBVIOUS
<1>12. PICK C : C = B \ {key}
  OBVIOUS
<1>13. /\ TrackerInv(x, P, C, N, A, up) /\ n \notin M /\ n # 0 /\ A[n] = SearchOf(key)
       /\ DOMAIN x.running = DOMAIN w.running \ {key}
  <2>1. n = w.running[key].who
    BY <1>1, <1>2
  <2>2. key[1] \in Searching
    BY <1>10
  <2>3. /\ TrackerInv(w, P, B, M, A, up) /\ key \in DOMAIN w.running
        /\ w.running[key].out = 0
    OBVIOUS
  <2>4. /\ TrackerInv(x, P, B \ {key}, M \cup {n}, A, up)
        /\ DOMAIN x.running = DOMAIN w.running \ {key}
        /\ n \notin M /\ n # 0 /\ A[n] = SearchOf(key)
    BY ONLY <1>4, <2>1, <2>2, <2>3, ForgetInv
  <2> QED
    BY <1>11, <1>12, <2>4
<1>14. N \ {n} = M /\ n \in N
  BY <1>11, <1>13
<1>15. CASE next \in DOMAIN w.running
  <2>1. next \in DOMAIN x.running /\ SearchOK(x.running, x.answers, A, N)
    BY <1>10, <1>13, <1>15 DEF TrackerInv
  <2>2. PICK run : run = x.running
    OBVIOUS
  <2>3. run[next].who \in DOMAIN A /\ A[run[next].who] = A[n] /\ run[next].who # n
    BY <1>10, <1>13, <1>14, <2>1, <2>2 DEF SearchOK
  <2>4. RivalIn(A, n)
    BY <2>3 DEF RivalIn
  <2>5. SearchOK(run, x.answers, A, N \ {n})
    BY <2>1, <2>2, <2>4, SearchPushed
  <2>6. TrackerInv(x, P, C, M, A, up)
    BY <1>13, <1>14, <2>2, <2>5 DEF TrackerInv
  <2> QED
    BY <1>8, <1>12, <1>15, <2>6
<1>16. CASE next \notin DOMAIN w.running
  <2>1. w.storage \in Addrs \cup {NoAddr}
    BY DEF TrackerInv, PlainOK
  <2>2. Idle(direct, n)
    BY <1>2, <1>5, <1>6, <1>9, <2>1, HandedOver
  <2>3. next \notin DOMAIN x.running
    BY <1>13, <1>16
  <2>4. IF next[1] \in Searching THEN n \in N /\ A[n] = SearchOf(next) ELSE n = 0
    BY <1>10, <1>13, <1>14
  <2>5. TrackerInv(started, P, C \cup {next}, N \ {n}, A, up) /\ next \in DOMAIN started.running
    BY <1>7, <1>10, <1>13, <2>2, <2>3, <2>4, LaunchInv
  <2>6. PICK D : D = (C \cup {next}) \ {next}
    OBVIOUS
  <2>7. TrackerInv(v, P, D, M, A, up)
    <3>1. CASE started.running[next].out = 0
      <4>1. v = FinishSearch(started, next)
        BY <1>8, <1>16, <3>1
      <4> QED
        BY <1>10, <1>14, <2>5, <2>6, <3>1, <4>1, FinishSearchInv
    <3>2. CASE started.running[next].out # 0
      <4>1. v = started
        BY <1>8, <1>16, <3>2
      <4> QED
        BY <1>14, <2>5, <2>6, <3>2, <4>1, OutsideInv
    <3> QED
      BY <3>1, <3>2
  <2>8. D \subseteq C
    BY <2>6
  <2> QED
    BY <1>12, <2>7, <2>8, WiderInv
<1> QED
  BY <1>15, <1>16

\* maybeSendHelloLocked
LEMMA SendHelloInv ==
  ASSUME NEW w, NEW P, NEW B, NEW M, NEW A, NEW up, TrackerInv(w, P, B, M, A, up),
         NEW a \in Addrs, a \in DOMAIN w.at, NEW v, v = SendHello(w, a)
  PROVE  TrackerInv(v, P, B, M, A, up)
<1>1. PICK n : n = w.at[a]
  OBVIOUS
<1>2. TableInv(w) /\ IsTracker(w) /\ NodesInv(w)
  BY DEF TrackerInv, TableInv
<1>3. n \in DOMAIN w.nodes /\ w.nodes[n] \in Contact
  BY <1>1, <1>2 DEF NodesInv
<1>4. PICK c : c = [w.nodes[n] EXCEPT !.hello = TRUE]
  OBVIOUS
<1>5. c \in Contact /\ c.addr = w.nodes[n].addr /\ c.id = w.nodes[n].id
  BY <1>3, <1>4 DEF Contact
<1>6. PICK nodes : nodes = [w.nodes EXCEPT ![n] = c]
  OBVIOUS
<1>7. PICK x : x = [w EXCEPT !.nodes = nodes]
  OBVIOUS
<1>8. PICK hello : hello = [to |-> a, op |-> "helloRes", target |-> NoTarget, multi |-> FALSE,
                            short |-> FALSE, key |-> Nobody, obs |-> 0]
  OBVIOUS
<1>9. CASE w.nodes[n].hello
  BY <1>1, <1>9 DEF SendHello
<1>10. CASE ~w.nodes[n].hello
  <2>1. v = [w EXCEPT !.nodes = nodes, !.tx = Append(@, hello)]
    BY <1>1, <1>4, <1>6, <1>8, <1>10 DEF SendHello
  <2>2. /\ IsTracker(x) /\ Rest(x) = Rest(w) /\ x.at = w.at /\ x.live = w.live
        /\ x.repl = w.repl /\ x.nodes = nodes
    BY <1>2, <1>7 DEF IsTracker, Rest
  <2>3. Moves(w, x)
    BY <1>2, <1>3, <1>5, <1>6, <2>2, SameContact
  <2>4. TrackerInv(x, P, B, M, A, up) /\ x.tx = w.tx /\ x.running = w.running
    BY <2>3, MovesInv
  <2>5. /\ SameTable(x, v) /\ v.tx = Append(x.tx, hello) /\ v.running = x.running
        /\ v.answers = x.answers
    BY <1>2, <1>7, <2>1 DEF SameTable, IsTracker
  <2>6. hello \in Transactions /\ hello.key = Nobody /\ Fits(hello)
    BY <1>8 DEF Transactions, Fits
  <2>7. PICK tx, run, more : tx = x.tx /\ run = x.running /\ more = v.tx
    OBVIOUS
  <2>8. TxOK(tx) /\ RunOK(run, B) /\ Linked(tx, run, P) /\ SearchOK(run, v.answers, A, M)
    BY <2>4, <2>5, <2>7 DEF TrackerInv
  <2>9. more = Append(tx, hello)
    BY <2>5, <2>7
  <2>10. TxOK(more) /\ Linked(more, run, P)
    BY <2>6, <2>8, <2>9, LinkedHello
  <2> QED
    BY <2>4, <2>5, <2>7, <2>8, <2>10, InvAgain
<1> QED
  BY <1>9, <1>10

LEMMA GreetInv ==
  ASSUME NEW w, NEW P, NEW B, NEW M, NEW A, NEW up, TrackerInv(w, P, B, M, A, up),
         NEW o \in Observers, NEW v, v = Greet(w, o)
  PROVE  TrackerInv(v, P, B, M, A, up)
<1>1. PICK a, id : a = o.to /\ id = o.id
  OBVIOUS
<1>2. a \in Addrs /\ id \in Ids \cup {NoId}
  BY <1>1 DEF Observers
<1>3. PICK x : x = AddOrUpdate(w, id, a)
  OBVIOUS
<1>4. Moves(w, x) /\ a \in DOMAIN x.at
  BY <1>2, <1>3, AddOrUpdateMoves DEF TrackerInv
<1>5. TrackerInv(x, P, B, M, A, up)
  BY <1>4, MovesInv
<1>6. v = SendHello(x, a)
  BY <1>1, <1>3 DEF Greet
<1> QED
  BY <1>2, <1>4, <1>5, <1>6, SendHelloInv

\* done of a bootstrap
LEMMA AddUnqueriedInv ==
  ASSUME NEW w, NEW P, NEW B, NEW M, NEW A, NEW up, TrackerInv(w, P, B, M, A, up),
         NEW t \in Traversals, ListOK(t)
  PROVE  TrackerInv(AddUnqueried(w, t), P, B, M, A, up)
<1>1. PICK n \in Nat : n = Len(t.order)
  BY WaitingIs
<1>steps. PICK now : StepsUnqueried(now, w, t, n)
  BY ONLY <1>1, FoldUnqueried
<1>2. /\ now[0] = w /\ now[n] = AddUnqueried(w, t)
      /\ \A i \in 0..(n - 1) : now[i + 1] = Meet(t, now[i], t.order[i + 1])
  BY <1>steps DEF StepsUnqueried
<1> DEFINE good == {i \in 0..n : TrackerInv(now[i], P, B, M, A, up)}
<1>3. 0 \in good
  BY <1>2
<1>4. ASSUME NEW i \in 0..(n - 1), i \in good
      PROVE  i + 1 \in good
  <2>1. i \in 0..n /\ i + 1 \in 0..n /\ i + 1 \in 1..n /\ TrackerInv(now[i], P, B, M, A, up)
    BY <1>4
  <2>2. PICK k : k = t.order[i + 1]
    OBVIOUS
  <2>3. k \in DOMAIN t.obs
    BY <1>1, <2>1, <2>2, WaitingIs DEF ListOK
  <2>4. t.obs[k] \in Observers
    BY <2>3, WaitingIs
  <2>5. PICK u, v : u = now[i] /\ v = now[i + 1]
    OBVIOUS
  <2>6. v = IF t.obs[k].queried THEN u ELSE Greet(u, t.obs[k])
    BY <1>2, <2>2, <2>5 DEF Meet
  <2>7. TrackerInv(v, P, B, M, A, up)
    BY <2>1, <2>4, <2>5, <2>6, GreetInv
  <2> QED
    BY <2>1, <2>5, <2>7
<1> HIDE DEF good
<1>5. \A i \in 0..n : i \in good
  BY ONLY <1>3, <1>4, n \in Nat, UpTo, ZenonT(30)
<1>6. n \in 0..n
  OBVIOUS
<1> QED
  BY <1>2, <1>5, <1>6 DEF good

\* One traversal is t now.
RunsAs(w, x, key, t) ==
  /\ SameTable(w, x) /\ x.tx = w.tx /\ x.answers = w.answers
  /\ x.running = [w.running EXCEPT ![key] = t]

LEMMA RunsAsIs ==
  ASSUME NEW w, IsTracker(w), NEW key, NEW t
  PROVE  RunsAs(w, [w EXCEPT !.running[key] = t], key, t)
<1> DEFINE x == [w EXCEPT !.running[key] = t]
<1>1. SameTable(w, x)
  BY DEF SameTable, IsTracker
<1>2. x.tx = w.tx /\ x.answers = w.answers /\ x.running = [w.running EXCEPT ![key] = t]
  BY DEF IsTracker
<1> HIDE DEF x
<1>3. RunsAs(w, x, key, t)
  BY <1>1, <1>2 DEF RunsAs
<1> QED
  BY <1>3 DEF x

\* Its requests are the same.
LEMMA SameRequests ==
  ASSUME NEW w, NEW P, NEW B, NEW M, NEW A, NEW up, TrackerInv(w, P, B, M, A, up),
         NEW key \in DOMAIN w.running, NEW t, t \in Traversals, ListOK(t), CountOK(t),
         Waiting(t) = Waiting(w.running[key]), t.who = w.running[key].who,
         NEW x, RunsAs(w, x, key, t)
  PROVE  TrackerInv(x, P, B, M, A, up) /\ DOMAIN x.running = DOMAIN w.running
<1>1. PICK run, new : run = w.running /\ new = x.running
  OBVIOUS
<1>2. /\ RunOK(run, B) /\ Linked(w.tx, run, P) /\ TxOK(w.tx) /\ SearchOK(run, w.answers, A, M)
      /\ key \in Kinds \X Ids /\ run[key] \in Traversals /\ CountOK(run[key])
  BY <1>1, RunningIs DEF TrackerInv
<1>3. /\ SameTable(w, x) /\ x.tx = w.tx /\ x.answers = w.answers
      /\ new = [run EXCEPT ![key] = t]
  BY <1>1 DEF RunsAs
<1>4. Becomes(run, key, t, new)
  BY <1>1, <1>2, <1>3, ExceptBecomes
<1>5. RunOK(new, B)
  <2>1. RunOK(new, B \cup {key}) /\ (t.out # 0 => RunOK(new, B \ {key}))
    BY <1>2, <1>4, RunBecomes
  <2>2. CASE key \in B
    <3>1. B \cup {key} = B
      BY <2>2
    <3> QED
      BY <2>1, <3>1
  <2>3. CASE key \notin B
    <3>1. B \ {key} = B /\ run[key].out # 0
      BY <1>1, <1>2, <2>3 DEF RunOK
    <3>2. t.out = run[key].out
      BY <1>1, <1>2 DEF CountOK
    <3> QED
      BY <2>1, <3>1, <3>2
  <2> QED
    BY <2>2, <2>3
<1>6. Linked(w.tx, new, P)
  <2>1. Waiting(t) = Pending(run, key)
    BY <1>1 DEF Pending
  <2> QED
    BY <1>2, <1>4, <2>1, LinkedSame
<1>7. SearchOK(new, w.answers, A, M)
  BY <1>1, <1>2, <1>4, SearchSame
<1>8. DOMAIN new = DOMAIN run
  BY <1>1, <1>4 DEF Becomes
<1> QED
  BY <1>1, <1>2, <1>3, <1>5, <1>6, <1>7, <1>8, InvAgain

\* One request less, whose transaction was taken before
LEMMA OneRequestLess ==
  ASSUME NEW w, NEW P, NEW B, NEW M, NEW A, NEW up, TrackerInv(w, P, B, M, A, up),
         NEW key \in DOMAIN w.running, NEW i, <<key, i>> \in P,
         NEW t, t \in Traversals, ListOK(t), CountOK(t),
         Waiting(t) = Waiting(w.running[key]) \ {i}, t.who = w.running[key].who,
         NEW x, RunsAs(w, x, key, t)
  PROVE  /\ TrackerInv(x, P \ {<<key, i>>}, B \cup {key}, M, A, up)
         /\ DOMAIN x.running = DOMAIN w.running
<1>1. PICK run, new : run = w.running /\ new = x.running
  OBVIOUS
<1>2. /\ RunOK(run, B) /\ Linked(w.tx, run, P) /\ TxOK(w.tx) /\ SearchOK(run, w.answers, A, M)
      /\ key \in Kinds \X Ids
  BY <1>1, RunningIs DEF TrackerInv
<1>3. /\ SameTable(w, x) /\ x.tx = w.tx /\ x.answers = w.answers
      /\ new = [run EXCEPT ![key] = t]
  BY <1>1 DEF RunsAs
<1>4. Becomes(run, key, t, new)
  BY <1>1, <1>2, <1>3, ExceptBecomes
<1>5. RunOK(new, B \cup {key})
  BY <1>2, <1>4, RunBecomes
<1>6. Linked(w.tx, new, P \ {<<key, i>>})
  BY <1>1, <1>2, <1>4, LinkedEnd
<1>7. SearchOK(new, w.answers, A, M)
  BY <1>1, <1>2, <1>4, SearchSame
<1>8. DOMAIN new = DOMAIN run
  BY <1>1, <1>4 DEF Becomes
<1> QED
  BY <1>1, <1>2, <1>3, <1>5, <1>6, <1>7, <1>8, InvAgain

\* done of a traversal, whichever its kind
LEMMA DoneInv ==
  ASSUME NEW w, NEW P, NEW B, NEW M, NEW A, NEW up, TrackerInv(w, P, B, M, A, up),
         NEW key \in DOMAIN w.running, w.running[key].out = 0,
         NEW v, v = Done(w, key)
  PROVE  TrackerInv(v, P, B \ {key}, M, A, up)
<1>1. CASE key[1] \in Direct
  <2>1. v = FinishSearch(w, key)
    BY <1>1 DEF Done, Direct
  <2> QED
    BY <1>1, <2>1, FinishSearchInv
<1>2. CASE key[1] \in {"find-sources", "find-keywords"}
  <2>1. v = StartDirect(w, key)
    BY <1>2 DEF Done, Direct
  <2> QED
    BY <1>2, <2>1, StartDirectInv
<1>3. CASE key[1] \notin Direct /\ key[1] \notin {"find-sources", "find-keywords"}
  <2>1. key[1] \notin Searching
    BY <1>3 DEF Searching
  <2>2. PICK x : x = Forget(w, key)
    OBVIOUS
  <2>3. PICK n : n = w.running[key].who
    OBVIOUS
  <2>4. TrackerInv(w, P, B, M, A, up) /\ key \in DOMAIN w.running /\ w.running[key].out = 0
    OBVIOUS
  <2>5. TrackerInv(x, P, B \ {key}, M, A, up)
    <3>1. PICK N : N = M \cup {n}
      OBVIOUS
    <3>2. key[1] \notin Searching => TrackerInv(x, P, B \ {key}, M, A, up)
      BY ONLY <2>2, <2>3, <2>4, <3>1, ForgetInv
    <3> QED
      BY <2>1, <3>2
  <2>6. CASE key[1] = "bootstrap"
    <3>1. v = AddUnqueried(x, w.running[key])
      BY <1>3, <2>2, <2>6 DEF Done
    <3>2. w.running[key] \in Traversals /\ ListOK(w.running[key])
      BY RunningIs
    <3> QED
      BY <2>5, <3>1, <3>2, AddUnqueriedInv
  <2>7. CASE key[1] # "bootstrap"
    <3>1. v = x
      BY <1>3, <2>2, <2>7 DEF Done
    <3> QED
      BY <2>5, <3>1
  <2> QED
    BY <2>6, <2>7
<1> QED
  BY <1>1, <1>2, <1>3

LEMMA SettleInv ==
  ASSUME NEW w, NEW P, NEW B, NEW M, NEW A, NEW up, TrackerInv(w, P, B, M, A, up),
         NEW key \in DOMAIN w.running, B \subseteq {key}, NEW v, v = Settle(w, key)
  PROVE  TrackerInv(v, P, {}, M, A, up)
<1>1. B \ {key} = {}
  OBVIOUS
<1>2. CASE w.running[key].out = 0
  <2>1. v = Done(w, key)
    BY <1>2 DEF Settle
  <2>2. TrackerInv(v, P, B \ {key}, M, A, up)
    BY <1>2, <2>1, DoneInv
  <2> QED
    BY <1>1, <2>2
<1>3. CASE w.running[key].out # 0
  <2>1. v = w
    BY <1>3 DEF Settle
  <2>2. TrackerInv(v, P, B \ {key}, M, A, up)
    BY <1>3, <2>1, OutsideInv
  <2> QED
    BY <1>1, <2>2
<1> QED
  BY <1>2, <1>3

LEMMA GoOnInv ==
  ASSUME NEW w, NEW P, NEW B, NEW M, NEW A, NEW up, TrackerInv(w, P, B, M, A, up),
         NEW key \in DOMAIN w.running, B \subseteq {key}, NEW v, v = GoOn(w, key)
  PROVE  TrackerInv(v, P, {}, M, A, up)
<1>1. PICK x : x = AddRequests(w, key)
  OBVIOUS
<1>2. TrackerInv(x, P, B \cup {key}, M, A, up) /\ DOMAIN x.running = DOMAIN w.running
  <2>1. TrackerInv(w, P, B, M, A, up) /\ key \in DOMAIN w.running
    OBVIOUS
  <2> QED
    BY ONLY <1>1, <2>1, AddRequestsInv
<1>3. PICK C : C = B \cup {key}
  OBVIOUS
<1>4. v = Settle(x, key) /\ C \subseteq {key}
  BY <1>1, <1>3 DEF GoOn
<1> QED
  BY <1>2, <1>3, <1>4, SettleInv

\* start: of a search, and of what the tick does
LEMMA StartInv ==
  ASSUME NEW w, NEW P, NEW M, NEW A, NEW up, TrackerInv(w, P, {}, M, A, up),
         NEW key \in Kinds \X Ids, NEW who, NEW t, Idle(t, who),
         IF key[1] \in Searching
         THEN who \in M /\ A[who] = SearchOf(key) /\ key \notin DOMAIN w.running
         ELSE who = 0,
         NEW v, v = Start(w, key, t)
  PROVE  TrackerInv(v, P, {}, M \ {who}, A, up)
<1>1. CASE key \in DOMAIN w.running
  <2>1. v = w /\ who = 0
    BY <1>1 DEF Start
  <2>2. M \subseteq DOMAIN A /\ 0 \notin DOMAIN A
    <3>1. SearchOK(w.running, w.answers, A, M)
      BY DEF TrackerInv
    <3>2. PICK run, answers : run = w.running /\ answers = w.answers
      OBVIOUS
    <3> QED
      BY <3>1, <3>2, SearchIs
  <2>3. M \ {who} = M
    BY <2>1, <2>2
  <2> QED
    BY <2>1, <2>3
<1>2. CASE key \notin DOMAIN w.running
  <2>1. PICK x : x = Launch(w, key, t)
    OBVIOUS
  <2>2. PICK N, B : N = M \ {who} /\ B = {} \cup {key}
    OBVIOUS
  <2>3. TrackerInv(x, P, B, N, A, up) /\ key \in DOMAIN x.running
    <3>1. IF key[1] \in Searching THEN who \in M /\ A[who] = SearchOf(key) ELSE who = 0
      OBVIOUS
    <3> QED
      BY <1>2, <2>1, <2>2, <3>1, LaunchInv
  <2>4. v = Settle(x, key) /\ B \subseteq {key}
    BY <1>2, <2>1, <2>2 DEF Start
  <2>5. TrackerInv(v, P, {}, N, A, up)
    BY <2>3, <2>4, SettleInv
  <2> QED
    BY <2>2, <2>5
<1> QED
  BY <1>1, <1>2

\* Who is waited for, in a tracker
LEMMA AwaitedIs ==
  ASSUME NEW w, NEW P, NEW B, NEW M, NEW A, NEW up, TrackerInv(w, P, B, M, A, up),
         NEW key, NEW i, <<key, i>> \in P
  PROVE  Awaits(w.running, key, i)
<1>1. Linked(w.tx, w.running, P)
  BY DEF TrackerInv
<1>2. PICK p \in P : p = <<key, i>>
  OBVIOUS
<1>3. p[1] = key /\ p[2] = i
  BY <1>2
<1>4. Awaits(w.running, p[1], p[2])
  BY <1>1 DEF Linked
<1> QED
  BY <1>3, <1>4

LEMMA AwaitedObserver ==
  ASSUME NEW w, NEW P, NEW B, NEW M, NEW A, NEW up, TrackerInv(w, P, B, M, A, up),
         NEW key, NEW i, Awaits(w.running, key, i)
  PROVE  /\ key \in DOMAIN w.running /\ i \in Waiting(w.running[key])
         /\ i \in DOMAIN w.running[key].obs /\ i \in 1..Len(w.running[key].obs)
         /\ w.running[key].obs[i] \in Observers
         /\ w.running[key].obs[i].queried /\ ~w.running[key].obs[i].done
         /\ ~w.running[key].obs[i].failed
<1>1. key \in DOMAIN w.running /\ i \in Waiting(w.running[key])
  BY DEF Awaits
<1>2. PICK t : t = w.running[key]
  OBVIOUS
<1>3. t \in Traversals
  BY <1>1, <1>2, RunningIs
<1>4. i \in DOMAIN t.obs /\ i \in 1..Len(t.obs) /\ t.obs[i] \in Observers /\ Out(t.obs[i])
  BY <1>1, <1>2, <1>3, WaitingIs DEF Waiting
<1> QED
  BY <1>1, <1>2, <1>4 DEF Out

\* What the end of a request leaves of a traversal
Answered0(t, i) ==
  [Ended(t, i) EXCEPT !.obs[i].alive = TRUE, !.accum = @ \cup t.obs[i].entries]
Failed0(t, i) == [Ended(t, i) EXCEPT !.obs[i].failed = TRUE]

LEMMA EndedFields ==
  ASSUME NEW t \in Traversals, ListOK(t), CountOK(t), NEW i \in Waiting(t)
  PROVE  /\ Ended(t, i) \in Traversals /\ Ended(t, i).who = t.who
         /\ \E o \in Observers : Changed(t, i, o, Ended(t, i)) /\ o = [t.obs[i] EXCEPT !.done = TRUE]
<1>1. PICK e : e = Ended(t, i)
  OBVIOUS
<1>2. PICK branch : branch = IF t.obs[i].short /\ t.branch > 1 THEN t.branch - 1 ELSE t.branch
  OBVIOUS
<1>3. PICK out : out = IF t.out > 0 THEN t.out - 1 ELSE t.out
  OBVIOUS
<1>4. t.branch \in Nat /\ t.out \in Nat
  BY DEF Traversals
<1>5. branch \in Nat /\ out \in Nat
  BY <1>2, <1>3, <1>4
<1>6. PICK o : o = [t.obs[i] EXCEPT !.done = TRUE]
  OBVIOUS
<1>7. i \in 1..Len(t.obs) /\ t.obs[i] \in Observers /\ t.obs \in Seq(Observers)
  BY WaitingIs
<1>8. o \in Observers
  BY <1>6, <1>7 DEF Observers
<1>9. PICK obs : obs = [t.obs EXCEPT ![i] = o]
  OBVIOUS
<1>10. obs \in Seq(Observers)
  BY <1>7, <1>8, <1>9, ExceptSeq
<1>11. e = [t EXCEPT !.branch = branch, !.out = out, !.obs = obs]
  BY <1>1, <1>2, <1>3, <1>6, <1>9 DEF Ended
<1>12. e \in Traversals /\ e.who = t.who /\ e.obs = obs /\ e.order = t.order
  BY <1>5, <1>10, <1>11 DEF Traversals
<1>13. Changed(t, i, o, e)
  BY <1>9, <1>12 DEF Changed
<1> QED
  BY <1>1, <1>6, <1>8, <1>12, <1>13

LEMMA AnsweredIs ==
  ASSUME NEW t \in Traversals, ListOK(t), CountOK(t), NEW i \in Waiting(t),
         NEW v, v = Answered0(t, i) \/ v = Failed0(t, i)
  PROVE  /\ v \in Traversals /\ ListOK(v) /\ CountOK(v)
         /\ Waiting(v) = Waiting(t) \ {i} /\ v.who = t.who
<1>1. PICK e : e = Ended(t, i)
  OBVIOUS
<1>2. PICK d \in Observers : Changed(t, i, d, e) /\ d = [t.obs[i] EXCEPT !.done = TRUE]
  BY <1>1, EndedFields
<1>3. e \in Traversals /\ e.who = t.who
  BY <1>1, EndedFields
<1>4. /\ i \in 1..Len(t.obs) /\ t.obs[i] \in Observers /\ t.obs \in Seq(Observers)
      /\ t.obs[i].queried
  BY WaitingIs DEF Waiting, Out
<1>5. e.obs = [t.obs EXCEPT ![i] = d] /\ e.order = t.order
  BY <1>2 DEF Changed
<1>6. /\ e.obs \in Seq(Observers) /\ e.obs[i] = d /\ DOMAIN e.obs = 1..Len(t.obs)
      /\ t.obs[i].entries \subseteq Entries
  <2>1. DOMAIN t.obs = 1..Len(t.obs)
    BY WaitingIs
  <2> QED
    BY <1>2, <1>4, <1>5, <2>1, ExceptSeq DEF Observers
<1>7. PICK o : o = IF v = Answered0(t, i) THEN [d EXCEPT !.alive = TRUE]
                   ELSE [d EXCEPT !.failed = TRUE]
  OBVIOUS
<1>8. o \in Observers /\ o.queried /\ o.done
  BY <1>2, <1>4, <1>7 DEF Observers
<1>9. PICK obs : obs = [e.obs EXCEPT ![i] = o]
  OBVIOUS
<1>10. obs = [t.obs EXCEPT ![i] = o] /\ obs \in Seq(Observers)
  <2>1. obs = [t.obs EXCEPT ![i] = o]
    BY <1>4, <1>5, <1>9
  <2> QED
    BY <1>4, <1>8, <2>1, ExceptSeq
<1>11. PICK accum : accum = IF v = Answered0(t, i) THEN e.accum \cup t.obs[i].entries ELSE e.accum
  OBVIOUS
<1>12. accum \in SUBSET Entries
  BY <1>3, <1>6, <1>11 DEF Traversals
<1>13. v = [e EXCEPT !.obs = obs, !.accum = accum]
  <2>1. CASE v = Answered0(t, i)
    <3>1. v = [e EXCEPT !.obs[i].alive = TRUE, !.accum = @ \cup t.obs[i].entries]
      BY <1>1, <2>1 DEF Answered0
    <3>2. o = [e.obs[i] EXCEPT !.alive = TRUE] /\ accum = e.accum \cup t.obs[i].entries
      BY <1>6, <1>7, <1>11, <2>1
    <3> QED
      BY <1>3, <1>9, <3>1, <3>2 DEF Traversals
  <2>2. CASE v # Answered0(t, i)
    <3>1. v = [e EXCEPT !.obs[i].failed = TRUE]
      BY <1>1, <2>2 DEF Failed0
    <3>2. o = [e.obs[i] EXCEPT !.failed = TRUE] /\ accum = e.accum
      BY <1>6, <1>7, <1>11, <2>2
    <3> QED
      BY <1>3, <1>9, <3>1, <3>2 DEF Traversals
  <2> QED
    BY <2>1, <2>2
<1>14. /\ v \in Traversals /\ v.obs = obs /\ v.order = e.order /\ v.out = e.out
       /\ v.branch = e.branch /\ v.who = e.who
  BY <1>3, <1>10, <1>12, <1>13 DEF Traversals
<1>15. Changed(t, i, o, v)
  BY <1>5, <1>10, <1>14 DEF Changed
<1>16. v.out = Ended(t, i).out /\ v.branch = Ended(t, i).branch
  BY <1>1, <1>14
<1>17. ListOK(v) /\ CountOK(v) /\ Waiting(v) = Waiting(t) \ {i}
  BY <1>8, <1>14, <1>15, <1>16, EndedIs
<1> QED
  BY <1>3, <1>14, <1>17

\* kadObserver.done: the request is counted off, then the traversal goes on.
LEMMA FinishedInv ==
  ASSUME NEW w, NEW P, NEW M, NEW A, NEW up, TrackerInv(w, P, {}, M, A, up),
         NEW key, NEW i, <<key, i>> \in P, NEW v, v = Finished(w, key, i)
  PROVE  TrackerInv(v, P \ {<<key, i>>}, {}, M, A, up)
<1>1. Awaits(w.running, key, i)
  BY AwaitedIs
<1>2. PICK t : t = w.running[key]
  OBVIOUS
<1>3. PICK u : u = Answered0(t, i)
  OBVIOUS
<1>4. /\ key \in DOMAIN w.running /\ i \in Waiting(t) /\ ~t.obs[i].done
  BY <1>1, <1>2, AwaitedObserver
<1>5. IsTracker(w) /\ t \in Traversals /\ ListOK(t) /\ CountOK(t)
  BY <1>2, <1>4, RunningIs
<1>6. /\ u \in Traversals /\ ListOK(u) /\ CountOK(u)
      /\ Waiting(u) = Waiting(t) \ {i} /\ u.who = t.who
  BY <1>3, <1>4, <1>5, AnsweredIs
<1>7. PICK x : x = [w EXCEPT !.running[key] = u]
  OBVIOUS
<1>8. RunsAs(w, x, key, u)
  BY <1>5, <1>7, RunsAsIs
<1>9. PICK Q, B : Q = P \ {<<key, i>>} /\ B = {} \cup {key}
  OBVIOUS
<1>10. TrackerInv(x, Q, B, M, A, up) /\ DOMAIN x.running = DOMAIN w.running
  BY <1>2, <1>4, <1>6, <1>8, <1>9, OneRequestLess
<1>11. v = GoOn(x, key)
  BY <1>2, <1>3, <1>4, <1>7 DEF Finished, Answered0
<1>12. B \subseteq {key}
  BY <1>9
<1>13. TrackerInv(v, Q, {}, M, A, up)
  BY <1>4, <1>10, <1>11, <1>12, GoOnInv
<1> QED
  BY <1>9, <1>13

\* writeFailedObserver
LEMMA ReportFailedInv ==
  ASSUME NEW w, NEW P, NEW B, NEW M, NEW A, NEW up, TrackerInv(w, P, B, M, A, up),
         NEW key, NEW o, NEW v, v = ReportFailed(w, key, o)
  PROVE  TrackerInv(v, P, B, M, A, up) /\ v.running = w.running /\ v.tx = w.tx
<1>1. TableInv(w) /\ NodesInv(w)
  BY DEF TrackerInv, TableInv
<1>2. CASE v = w
  BY <1>2
<1>3. CASE v # w
  <2>1. o.to \in DOMAIN w.at /\ v = NodeFailed(w, w.at[o.to])
    BY <1>3 DEF ReportFailed
  <2>2. w.at[o.to] \in DOMAIN w.nodes
    BY <1>1, <2>1 DEF NodesInv
  <2>3. PICK n : n = w.at[o.to]
    OBVIOUS
  <2>4. Moves(w, v)
    BY <1>1, <2>1, <2>2, <2>3, NodeFailedMoves
  <2> QED
    BY <2>4, MovesInv
<1> QED
  BY <1>2, <1>3

\* kadObserver.timeout
LEMMA TimedOutInv ==
  ASSUME NEW w, NEW P, NEW M, NEW A, NEW up, TrackerInv(w, P, {}, M, A, up),
         NEW key, NEW i, <<key, i>> \in P, NEW v, v = TimedOut(w, key, i)
  PROVE  TrackerInv(v, P \ {<<key, i>>}, {}, M, A, up)
<1>1. Awaits(w.running, key, i)
  BY AwaitedIs
<1>2. PICK t : t = w.running[key]
  OBVIOUS
<1>3. PICK u : u = Failed0(t, i)
  OBVIOUS
<1>4. /\ key \in DOMAIN w.running /\ i \in Waiting(t) /\ ~t.obs[i].done
  BY <1>1, <1>2, AwaitedObserver
<1>5. IsTracker(w) /\ t \in Traversals /\ ListOK(t) /\ CountOK(t)
  BY <1>2, <1>4, RunningIs
<1>6. CASE key[1] \in Direct /\ t.obs[i].got
  <2>1. v = Finished(w, key, i)
    BY <1>2, <1>4, <1>6 DEF TimedOut
  <2> QED
    BY <2>1, FinishedInv
<1>7. CASE ~(key[1] \in Direct /\ t.obs[i].got)
  <2>1. /\ u \in Traversals /\ ListOK(u) /\ CountOK(u)
        /\ Waiting(u) = Waiting(t) \ {i} /\ u.who = t.who
    BY <1>3, <1>4, <1>5, AnsweredIs
  <2>2. PICK x : x = [w EXCEPT !.running[key] = u]
    OBVIOUS
  <2>3. RunsAs(w, x, key, u)
    BY <1>5, <2>2, RunsAsIs
  <2>4. PICK Q, B : Q = P \ {<<key, i>>} /\ B = {} \cup {key}
    OBVIOUS
  <2>5. TrackerInv(x, Q, B, M, A, up) /\ DOMAIN x.running = DOMAIN w.running
    BY <1>2, <1>4, <2>1, <2>3, <2>4, OneRequestLess
  <2>6. PICK y : y = ReportFailed(x, key, t.obs[i])
    OBVIOUS
  <2>7. v = GoOn(y, key)
    BY <1>2, <1>3, <1>4, <1>7, <2>2, <2>6 DEF TimedOut, Failed0
  <2>8. TrackerInv(y, Q, B, M, A, up) /\ y.running = x.running
    BY <2>5, <2>6, ReportFailedInv
  <2>9. B \subseteq {key} /\ key \in DOMAIN y.running
    BY <1>4, <2>4, <2>5, <2>8
  <2>10. TrackerInv(v, Q, {}, M, A, up)
    BY <2>7, <2>8, <2>9, GoOnInv
  <2> QED
    BY <2>4, <2>10
<1> QED
  BY <1>6, <1>7

\* kadObserver.shortTimeout
LEMMA ShortTimedOutInv ==
  ASSUME NEW w, NEW P, NEW B, NEW M, NEW A, NEW up, TrackerInv(w, P, B, M, A, up),
         NEW key, NEW i, Awaits(w.running, key, i), NEW v, v = ShortTimedOut(w, key, i)
  PROVE  /\ TrackerInv(v, P, B, M, A, up) /\ v.tx = w.tx
         /\ \A k, j : Awaits(v.running, k, j) <=> Awaits(w.running, k, j)
<1>1. PICK t : t = w.running[key]
  OBVIOUS
<1>2. /\ key \in DOMAIN w.running /\ i \in Waiting(t)
  BY <1>1, AwaitedObserver
<1>3. IsTracker(w) /\ t \in Traversals /\ ListOK(t) /\ CountOK(t)
  BY <1>1, <1>2, RunningIs
<1>4. CASE t.obs[i].short
  BY <1>1, <1>4 DEF ShortTimedOut
<1>5. CASE ~t.obs[i].short
  <2>1. PICK u : u = [t EXCEPT !.obs[i].short = TRUE, !.branch = @ + 1]
    OBVIOUS
  <2>2. /\ u \in Traversals /\ ListOK(u) /\ CountOK(u) /\ Waiting(u) = Waiting(t) /\ u.who = t.who
    BY ONLY <1>2, <1>3, <1>5, <2>1, SlowedIs
  <2>3. PICK x : x = [w EXCEPT !.running[key] = u]
    OBVIOUS
  <2>4. RunsAs(w, x, key, u)
    BY <1>3, <2>3, RunsAsIs
  <2>5. v = x
    <3>1. v = [w EXCEPT !.running[key].obs[i].short = TRUE, !.running[key].branch = @ + 1]
      BY <1>1, <1>5 DEF ShortTimedOut
    <3>2. PICK obs : obs = [t.obs EXCEPT ![i].short = TRUE]
      OBVIOUS
    <3>3. PICK branch : branch = t.branch + 1
      OBVIOUS
    <3>4. u = [t EXCEPT !.obs = obs, !.branch = branch]
      BY <1>3, <2>1, <3>2, <3>3 DEF Traversals
    <3>5. v = [w EXCEPT !.running = [w.running EXCEPT ![key] = [t EXCEPT !.obs = obs, !.branch = branch]]]
      BY <1>1, <1>2, <1>3, <3>1, <3>2, <3>3 DEF IsTracker, Traversals
    <3> QED
      BY <2>3, <3>4, <3>5
  <2>6. TrackerInv(x, P, B, M, A, up) /\ DOMAIN x.running = DOMAIN w.running
    BY <1>1, <1>2, <2>2, <2>4, SameRequests
  <2>7. x.tx = w.tx /\ x.running = [w.running EXCEPT ![key] = u]
    BY <2>4 DEF RunsAs
  <2>8. /\ x.running[key] = u
        /\ \A k \in DOMAIN w.running : k # key => x.running[k] = w.running[k]
    BY <1>2, <2>7
  <2>9. \A k, j : Awaits(x.running, k, j) <=> Awaits(w.running, k, j)
    BY <1>1, <2>2, <2>6, <2>8 DEF Awaits
  <2> QED
    BY <2>5, <2>6, <2>7, <2>9
<1> QED
  BY <1>4, <1>5

-----------------------------------------------------------------------------
(* The time-outs of a tick *)

LEMMA AllSlowInv ==
  ASSUME NEW w, NEW P, NEW B, NEW M, NEW A, NEW up, TrackerInv(w, P, B, M, A, up),
         NEW list, Len(list) \in Nat,
         \A j \in 1..Len(list) :
           list[j].key # Nobody => Awaits(w.running, list[j].key, list[j].obs),
         NEW v, v = AllSlow(w, list)
  PROVE  TrackerInv(v, P, B, M, A, up) /\ v.tx = w.tx
<1>1. PICK n \in Nat : n = Len(list)
  OBVIOUS
<1>steps. PICK now : StepsSlow(now, w, list, n)
  BY ONLY <1>1, FoldSlow
<1>2. /\ now[0] = w /\ now[n] = AllSlow(w, list)
      /\ \A i \in 0..(n - 1) : now[i + 1] = Slow(now[i], list[i + 1])
  BY <1>steps DEF StepsSlow
<1> DEFINE good == {i \in 0..n : /\ TrackerInv(now[i], P, B, M, A, up) /\ now[i].tx = w.tx
                                 /\ \A k, j : Awaits(now[i].running, k, j) <=> Awaits(w.running, k, j)}
<1>3. 0 \in good
  BY <1>2
<1>4. ASSUME NEW i \in 0..(n - 1), i \in good
      PROVE  i + 1 \in good
  <2>1. i \in 0..n /\ i + 1 \in 0..n /\ i + 1 \in 1..n
    BY <1>4
  <2>2. PICK u, x, y : u = now[i] /\ x = list[i + 1] /\ y = now[i + 1]
    OBVIOUS
  <2>3. /\ TrackerInv(u, P, B, M, A, up) /\ u.tx = w.tx
        /\ \A k, j : Awaits(u.running, k, j) <=> Awaits(w.running, k, j)
    BY <1>4, <2>2
  <2>4. y = Slow(u, x)
    BY <1>2, <2>2
  <2>5. CASE x.key = Nobody \/ x.short
    <3>1. y = u
      BY <2>4, <2>5 DEF Slow
    <3> QED
      BY <2>1, <2>2, <2>3, <3>1
  <2>6. CASE ~(x.key = Nobody \/ x.short)
    <3>1. PICK key, o : key = x.key /\ o = x.obs
      OBVIOUS
    <3>2. y = ShortTimedOut(u, key, o)
      BY <2>4, <2>6, <3>1 DEF Slow
    <3>3. Awaits(u.running, key, o)
      <4>1. Awaits(w.running, key, o)
        BY <1>1, <2>1, <2>2, <2>6, <3>1
      <4> QED
        BY <2>3, <4>1
    <3>4. /\ TrackerInv(y, P, B, M, A, up) /\ y.tx = u.tx
          /\ \A k, j : Awaits(y.running, k, j) <=> Awaits(u.running, k, j)
      BY ONLY <2>3, <3>2, <3>3, ShortTimedOutInv
    <3>5. \A k, j : Awaits(y.running, k, j) <=> Awaits(w.running, k, j)
      BY <2>3, <3>4
    <3> QED
      BY <2>1, <2>2, <2>3, <3>4, <3>5
  <2> QED
    BY <2>5, <2>6
<1> HIDE DEF good
<1>5. \A i \in 0..n : i \in good
  BY ONLY <1>3, <1>4, n \in Nat, UpTo, ZenonT(30)
<1>6. n \in 0..n
  OBVIOUS
<1> QED
  BY <1>2, <1>5, <1>6 DEF good

\* The expired transactions go; what they claim is to be reported.
LEMMA KeptInv ==
  ASSUME NEW w, NEW B, NEW M, NEW A, NEW up, TrackerInv(w, {}, B, M, A, up),
         NEW e \in 0..Len(w.tx), NEW s, NEW v, v = Kept(w, e, s)
  PROVE  TrackerInv(v, Claims(w.tx, 1..e), B, M, A, up)
<1>1. PICK tx, run, less : tx = w.tx /\ run = w.running /\ less = v.tx
  OBVIOUS
<1>2. TxOK(tx) /\ RunOK(run, B) /\ Linked(tx, run, {}) /\ SearchOK(run, w.answers, A, M)
  BY <1>1 DEF TrackerInv
<1>3. PICK m : m = Len(tx)
  OBVIOUS
<1>4. tx \in Seq(Transactions) /\ m \in Nat /\ DOMAIN tx = 1..m /\ e \in 0..m /\ Nobody \notin DOMAIN run
  BY <1>1, <1>2, <1>3, LenProperties, Parameters DEF TxOK, RunOK
<1>5. /\ SameTable(w, v) /\ v.running = w.running /\ v.answers = w.answers
      /\ less = [j \in 1..(m - e) |-> [tx[j + e] EXCEPT !.short = @ \/ j + e <= s]]
  <2>1. PICK new : new = [j \in 1..(m - e) |-> [tx[j + e] EXCEPT !.short = @ \/ j + e <= s]]
    OBVIOUS
  <2>2. v = [w EXCEPT !.tx = new]
    BY <1>1, <1>3, <2>1 DEF Kept
  <2>3. IsTracker(w)
    BY DEF TrackerInv, TableInv
  <2>4. SameTable(w, v) /\ v.running = w.running /\ v.answers = w.answers /\ v.tx = new
    BY <2>2, <2>3 DEF SameTable, IsTracker
  <2> QED
    BY <1>1, <2>1, <2>4
<1>6. ASSUME NEW j \in 1..(m - e)
      PROVE  /\ j + e \in 1..m /\ j + e \notin 1..e
             /\ less[j] \in Transactions /\ less[j].key = tx[j + e].key
             /\ less[j].obs = tx[j + e].obs /\ Fits(less[j])
  <2>1. j + e \in 1..m /\ j + e \notin 1..e
    BY <1>4
  <2>2. tx[j + e] \in Transactions /\ Fits(tx[j + e])
    BY <1>2, <1>4, <2>1, ElementOfSeq DEF TxOK
  <2>3. PICK x : x = tx[j + e]
    OBVIOUS
  <2>4. less[j] = [x EXCEPT !.short = @ \/ j + e <= s]
    BY <1>5, <2>3
  <2>5. PICK short : short = (x.short \/ j + e <= s)
    OBVIOUS
  <2>6. short \in BOOLEAN
    BY <2>5
  <2>7. less[j] = [x EXCEPT !.short = short]
    BY <2>4, <2>5
  <2>8. /\ less[j] \in Transactions /\ less[j].key = x.key /\ less[j].obs = x.obs
        /\ less[j].op = x.op /\ less[j].multi = x.multi
    BY <2>2, <2>3, <2>6, <2>7 DEF Transactions
  <2>9. Fits(less[j])
    BY <2>2, <2>3, <2>8 DEF Fits
  <2> QED
    BY <2>1, <2>3, <2>8, <2>9
<1>7. m - e \in Nat /\ DOMAIN less = 1..(m - e)
  BY <1>4, <1>5
<1>8. TxOK(less)
  <2>1. less \in [1..(m - e) -> Transactions]
    BY <1>5, <1>6
  <2>2. less \in Seq(Transactions)
    BY <1>7, <2>1, SeqDef
  <2> QED
    BY <1>6, <1>7, <2>2 DEF TxOK
<1> DEFINE f == [j \in 1..(m - e) |-> j + e]
<1>9. \A j \in 1..(m - e) : f[j] = j + e
  OBVIOUS
<1> HIDE DEF f
<1>10. PICK taken : taken = 1..e
  OBVIOUS
<1>11. Part(tx, less, f, taken)
  <2>1. \A j \in DOMAIN less : /\ f[j] \in DOMAIN tx /\ f[j] \notin taken
                               /\ less[j].key = tx[f[j]].key /\ less[j].obs = tx[f[j]].obs
    BY <1>4, <1>6, <1>7, <1>9, <1>10
  <2>2. \A i, j \in DOMAIN less : f[i] = f[j] => i = j
    BY <1>4, <1>7, <1>9
  <2>3. taken \subseteq DOMAIN tx
    BY <1>4, <1>10
  <2>4. ASSUME NEW j \in 1..m, j \notin taken
        PROVE  \E i \in DOMAIN less : f[i] = j
    <3>1. j - e \in 1..(m - e) /\ (j - e) + e = j
      BY <1>4, <1>10, <2>4
    <3>2. f[j - e] = j
      BY <1>9, <3>1
    <3> QED
      BY <1>7, <3>1, <3>2
  <2> QED
    BY <1>4, <2>1, <2>2, <2>3, <2>4 DEF Part
<1>12. PICK Q : Q = Claims(tx, taken)
  OBVIOUS
<1>13. Linked(less, run, Q)
  <2>1. Linked(less, run, {} \cup Claims(tx, taken))
    BY <1>2, <1>4, <1>11, LinkedPart
  <2>2. {} \cup Claims(tx, taken) = Q
    BY <1>12
  <2> QED
    BY <2>1, <2>2
<1>14. RunOK(v.running, B) /\ SearchOK(v.running, v.answers, A, M)
  BY <1>1, <1>2, <1>5
<1>15. TxOK(v.tx) /\ Linked(v.tx, v.running, Q)
  BY <1>1, <1>5, <1>8, <1>13
<1>16. TrackerInv(v, Q, B, M, A, up)
  BY <1>5, <1>14, <1>15, InvAgain
<1> QED
  BY <1>1, <1>10, <1>12, <1>16

\* An expired transaction: its observer is told, or the contact failed.
LEMMA OverInv ==
  ASSUME NEW w, NEW P, NEW M, NEW A, NEW up, TrackerInv(w, P, {}, M, A, up),
         NEW x, x \in Transactions, x.key # Nobody => <<x.key, x.obs>> \in P,
         NEW v, v = Over(w, x)
  PROVE  TrackerInv(v, IF x.key = Nobody THEN P ELSE P \ {<<x.key, x.obs>>}, {}, M, A, up)
<1>1. CASE x.key # Nobody
  <2>1. PICK key, o : key = x.key /\ o = x.obs
    OBVIOUS
  <2>2. v = TimedOut(w, key, o)
    BY <1>1, <2>1 DEF Over
  <2>3. PICK Q : Q = P \ {<<key, o>>}
    OBVIOUS
  <2>4. <<key, o>> \in P
    BY <1>1, <2>1
  <2>5. TrackerInv(v, Q, {}, M, A, up)
    BY <2>2, <2>3, <2>4, TimedOutInv
  <2> QED
    BY <1>1, <2>1, <2>3, <2>5
<1>2. CASE x.key = Nobody
  <2>1. CASE x.to \notin DOMAIN w.at
    BY <1>2, <2>1 DEF Over
  <2>2. CASE x.to \in DOMAIN w.at
    <3>1. PICK n : n = w.at[x.to]
      OBVIOUS
    <3>2. TableInv(w) /\ IsTracker(w) /\ NodesInv(w)
      BY DEF TrackerInv, TableInv
    <3>3. n \in DOMAIN w.nodes /\ w.nodes[n] \in Contact
      BY <2>2, <3>1, <3>2 DEF NodesInv
    <3>4. PICK c : c = Failed(w.nodes[n])
      OBVIOUS
    <3>5. c \in Contact /\ c.addr = w.nodes[n].addr /\ c.id = w.nodes[n].id
      BY <3>3, <3>4, ContactFields
    <3>6. PICK y : y = [w EXCEPT !.nodes[n] = c]
      OBVIOUS
    <3>7. /\ IsTracker(y) /\ Rest(y) = Rest(w) /\ y.at = w.at /\ y.live = w.live
          /\ y.repl = w.repl /\ y.nodes = [w.nodes EXCEPT ![n] = c]
      BY <3>2, <3>6 DEF IsTracker, Rest
    <3>8. Moves(w, y)
      BY <3>2, <3>3, <3>5, <3>7, SameContact
    <3>9. v = NodeFailed(y, n)
      BY <1>2, <2>2, <3>1, <3>4, <3>6 DEF Over
    <3>10. TableInv(y) /\ n \in DOMAIN y.nodes
      BY <3>3, <3>8 DEF Moves
    <3>11. Moves(y, v)
      BY <3>9, <3>10, NodeFailedMoves
    <3>12. Moves(w, v)
      BY <3>8, <3>11, MovesAgain
    <3>13. TrackerInv(v, P, {}, M, A, up)
      BY <3>12, MovesInv
    <3> QED
      BY <1>2, <3>13
  <2> QED
    BY <2>1, <2>2
<1> QED
  BY <1>1, <1>2

\* What the transactions after the i-th claim
Owed(list, i, n) ==
  {<<list[j].key, list[j].obs>> : j \in {k \in (i + 1)..n : list[k].key # Nobody}}

\* No two transactions of a list claim the same.
OneEach(list, n) ==
  \A j, k \in 1..n :
    list[j].key # Nobody /\ list[j].key = list[k].key /\ list[j].obs = list[k].obs => j = k

LEMMA OwedNext ==
  ASSUME NEW list, NEW n \in Nat, NEW i \in 0..(n - 1), OneEach(list, n),
         NEW x, x = list[i + 1]
  PROVE  /\ x.key = Nobody => Owed(list, i + 1, n) = Owed(list, i, n)
         /\ x.key # Nobody => /\ Owed(list, i + 1, n) = Owed(list, i, n) \ {<<x.key, x.obs>>}
                              /\ <<x.key, x.obs>> \in Owed(list, i, n)
<1>1. /\ (i + 1)..n = {i + 1} \cup ((i + 1) + 1)..n /\ i + 1 \notin ((i + 1) + 1)..n
      /\ i + 1 \in 1..n /\ ((i + 1) + 1)..n \subseteq 1..n
  OBVIOUS
<1>2. PICK p, q, r : p = i + 1 /\ q = (i + 1)..n /\ r = ((i + 1) + 1)..n
  OBVIOUS
<1>3. /\ Owed(list, i, n) = {<<list[j].key, list[j].obs>> : j \in {k \in q : list[k].key # Nobody}}
      /\ Owed(list, i + 1, n) = {<<list[j].key, list[j].obs>> : j \in {k \in r : list[k].key # Nobody}}
      /\ q = {p} \cup r /\ p \notin r /\ p \in 1..n /\ r \subseteq 1..n /\ x = list[p]
  BY <1>1, <1>2 DEF Owed
<1>4. CASE x.key = Nobody
  BY <1>3, <1>4
<1>5. CASE x.key # Nobody
  <2>1. <<x.key, x.obs>> \in Owed(list, i, n)
    BY <1>3, <1>5
  <2>2. ASSUME NEW j \in r, list[j].key # Nobody
        PROVE  <<list[j].key, list[j].obs>> # <<x.key, x.obs>>
    <3>1. j \in 1..n /\ j # p
      BY <1>3
    <3> QED
      BY <1>3, <2>2, <3>1 DEF OneEach
  <2>3. Owed(list, i + 1, n) = Owed(list, i, n) \ {<<x.key, x.obs>>}
    BY <1>3, <1>5, <2>2
  <2> QED
    BY <1>5, <2>1, <2>3
<1> QED
  BY <1>4, <1>5

LEMMA AllOverInv ==
  ASSUME NEW w, NEW M, NEW A, NEW up, NEW list \in Seq(Transactions), NEW n \in Nat, n = Len(list),
         TrackerInv(w, Owed(list, 0, n), {}, M, A, up), OneEach(list, n)
  PROVE  TrackerInv(AllOver(w, list), {}, {}, M, A, up)
<1>steps. PICK now : StepsOver(now, w, list, n)
  BY ONLY n \in Nat, n = Len(list), FoldOver
<1>1. /\ now[0] = w /\ now[n] = AllOver(w, list)
      /\ \A i \in 0..(n - 1) : now[i + 1] = Over(now[i], list[i + 1])
  BY <1>steps DEF StepsOver
<1> DEFINE good == {i \in 0..n : TrackerInv(now[i], Owed(list, i, n), {}, M, A, up)}
<1>2. 0 \in good
  BY <1>1
<1>3. ASSUME NEW i \in 0..(n - 1), i \in good
      PROVE  i + 1 \in good
  <2>1. i + 1 \in 0..n /\ i + 1 \in 1..n
    BY <1>3
  <2>2. PICK u, x, y, Q : u = now[i] /\ x = list[i + 1] /\ y = now[i + 1] /\ Q = Owed(list, i, n)
    OBVIOUS
  <2>3. TrackerInv(u, Q, {}, M, A, up) /\ y = Over(u, x)
    BY <1>1, <1>3, <2>2
  <2>4. x \in Transactions
    BY <2>1, <2>2, ElementOfSeq
  <2>5. /\ Owed(list, i + 1, n) = IF x.key = Nobody THEN Q ELSE Q \ {<<x.key, x.obs>>}
        /\ x.key # Nobody => <<x.key, x.obs>> \in Q
    <3>1. n \in Nat /\ i \in 0..(n - 1) /\ OneEach(list, n) /\ x = list[i + 1]
      BY <2>2
    <3>2. x.key # Nobody => /\ Owed(list, i + 1, n) = Owed(list, i, n) \ {<<x.key, x.obs>>}
                            /\ <<x.key, x.obs>> \in Owed(list, i, n)
      BY ONLY <3>1, OwedNext
    <3>3. PICK R : R = Owed(list, i, n) \ {<<x.key, x.obs>>}
      OBVIOUS
    <3>4. x.key = Nobody => Owed(list, i + 1, n) = Owed(list, i, n)
      BY ONLY <3>1, <3>3, OwedNext
    <3> QED
      BY <2>2, <3>2, <3>4
  <2>6. TrackerInv(y, IF x.key = Nobody THEN Q ELSE Q \ {<<x.key, x.obs>>}, {}, M, A, up)
    BY ONLY <2>3, <2>4, <2>5, OverInv
  <2> QED
    BY <2>1, <2>2, <2>5, <2>6
<1> HIDE DEF good
<1>4. \A i \in 0..n : i \in good
  BY ONLY <1>2, <1>3, n \in Nat, UpTo, ZenonT(30)
<1>5. n \in 0..n /\ Owed(list, n, n) = {}
  <2>1. (n + 1)..n = {} /\ n \in 0..n
    OBVIOUS
  <2> QED
    BY <2>1 DEF Owed
<1>6. TrackerInv(now[n], Owed(list, n, n), {}, M, A, up)
  BY <1>4, <1>5 DEF good
<1> QED
  BY <1>1, <1>5, <1>6

\* kadRPCManager.Tick
LEMMA ExpireInv ==
  ASSUME NEW w, NEW M, NEW A, NEW up, TrackerInv(w, {}, {}, M, A, up),
         NEW e \in 0..Len(w.tx), NEW s \in e..Len(w.tx), NEW v, v = Expire(w, e, s)
  PROVE  TrackerInv(v, {}, {}, M, A, up)
<1>1. PICK tx, m : tx = w.tx /\ m = Len(tx)
  OBVIOUS
<1>2. TxOK(tx) /\ Linked(tx, w.running, {})
  BY <1>1 DEF TrackerInv
<1>3. /\ tx \in Seq(Transactions) /\ m \in Nat /\ DOMAIN tx = 1..m /\ e \in 0..m /\ s \in 0..m
      /\ e <= s
  BY <1>1, <1>2, LenProperties DEF TxOK
<1>4. PICK slow, over : slow = SubSeq(tx, 1, s) /\ over = SubSeq(tx, 1, e)
  OBVIOUS
<1>5. /\ slow \in Seq(Transactions) /\ Len(slow) = s /\ \A i \in 1..s : slow[i] = tx[i]
      /\ over \in Seq(Transactions) /\ Len(over) = e /\ \A i \in 1..e : over[i] = tx[i]
  BY <1>1, <1>3, <1>4, PrefixIs
<1>6. PICK x : x = AllSlow(w, slow)
  OBVIOUS
<1>7. TrackerInv(x, {}, {}, M, A, up) /\ x.tx = tx
  <2>1. \A j \in 1..Len(slow) :
          slow[j].key # Nobody => Awaits(w.running, slow[j].key, slow[j].obs)
    <3> TAKE j \in 1..Len(slow)
    <3>1. j \in DOMAIN tx /\ slow[j] = tx[j]
      BY <1>3, <1>5
    <3> QED
      BY <1>2, <3>1 DEF Linked
  <2>2. Len(slow) \in Nat
    BY <1>3, <1>5
  <2> QED
    BY <1>1, <1>6, <2>1, <2>2, AllSlowInv
<1>8. PICK y : y = Kept(x, e, s)
  OBVIOUS
<1>9. TrackerInv(y, Claims(tx, 1..e), {}, M, A, up)
  <2>1. e \in 0..Len(x.tx)
    BY <1>1, <1>3, <1>7
  <2>2. TrackerInv(y, Claims(x.tx, 1..e), {}, M, A, up)
    BY <1>7, <1>8, <2>1, KeptInv
  <2> QED
    BY <1>7, <2>2
<1>10. Claims(tx, 1..e) = Owed(over, 0, e)
  <2>1. (0 + 1)..e = 1..e
    OBVIOUS
  <2>2. Owed(over, 0, e) = {<<over[j].key, over[j].obs>> : j \in {k \in 1..e : over[k].key # Nobody}}
    BY <2>1 DEF Owed
  <2>3. Claims(tx, 1..e) = {<<tx[j].key, tx[j].obs>> : j \in {k \in 1..e : tx[k].key # Nobody}}
    BY DEF Claims
  <2> QED
    BY <1>5, <2>2, <2>3
<1>11. OneEach(over, e)
  <2>1. ASSUME NEW j \in 1..e, NEW k \in 1..e, over[j].key # Nobody,
               over[j].key = over[k].key, over[j].obs = over[k].obs
        PROVE  j = k
    <3>1. j \in DOMAIN tx /\ k \in DOMAIN tx /\ over[j] = tx[j] /\ over[k] = tx[k]
      BY <1>3, <1>5
    <3> QED
      BY <1>2, <2>1, <3>1 DEF Linked
  <2> QED
    BY <2>1 DEF OneEach
<1>12. v = AllOver(y, over)
  <2>1. x = After(w, Slow, SubSeq(w.tx, 1, s))
    BY <1>1, <1>4, <1>6 DEF AllSlow
  <2>2. AllOver(y, over) = After(y, Over, over)
    BY DEF AllOver
  <2>3. v = After(Kept(After(w, Slow, SubSeq(w.tx, 1, s)), e, s), Over, SubSeq(w.tx, 1, e))
    BY DEF Expire
  <2> QED
    BY <1>1, <1>4, <1>8, <2>1, <2>2, <2>3
<1>13. TrackerInv(y, Owed(over, 0, e), {}, M, A, up)
  BY <1>9, <1>10
<1>14. TrackerInv(AllOver(y, over), {}, {}, M, A, up)
  BY ONLY <1>3, <1>5, <1>11, <1>13, AllOverInv, e \in Nat
<1> QED
  BY <1>12, <1>14

-----------------------------------------------------------------------------
(* What starts traversals: searches and the maintenance of a tick *)

LEMMA FromClosestIs ==
  ASSUME NEW w, TableInv(w), NEW key, NEW who \in Nat
  PROVE  Idle(FromClosest(w, key, who), who)
<1>1. PICK t : t = NewTraversal(who)
  OBVIOUS
<1>2. PICK list : list = FindClosest(w, key[2], Closest)
  OBVIOUS
<1>3. Idle(t, who)
  BY <1>1, NewTraversalIs
<1>4. list \in Seq(Named(w))
  BY <1>2, FindClosestIs
<1>5. Grows(t, AddContacts(w, t, list))
  BY <1>3, <1>4, AddContactsGrows DEF Idle
<1>6. FromClosest(w, key, who) = AddContacts(w, t, list)
  BY <1>1, <1>2 DEF FromClosest, AddContacts
<1> QED
  BY <1>3, <1>5, <1>6, IdleGrows

\* searchSources, searchKeywords, refresh, firewalled
LEMMA LookupInv ==
  ASSUME NEW w, NEW P, NEW M, NEW A, NEW up, TrackerInv(w, P, {}, M, A, up),
         NEW key \in Kinds \X Ids, NEW who \in Nat,
         IF key[1] \in Searching
         THEN who \in M /\ A[who] = SearchOf(key) /\ key \notin DOMAIN w.running
         ELSE who = 0,
         NEW v, v = Lookup(w, key, who)
  PROVE  TrackerInv(v, P, {}, M \ {who}, A, up)
<1>1. PICK t : t = FromClosest(w, key, who)
  OBVIOUS
<1>2. Idle(t, who)
  BY <1>1, FromClosestIs DEF TrackerInv
<1>3. v = Start(w, key, t)
  BY <1>1 DEF Lookup
<1> QED
  BY <1>2, <1>3, StartInv

LEMMA OwnLookupInv ==
  ASSUME NEW w, NEW A, NEW up, TrackerInv(w, {}, {}, {}, A, up),
         NEW key \in Kinds \X Ids, key[1] \notin Searching
  PROVE  TrackerInv(Lookup(w, key, 0), {}, {}, {}, A, up)
<1>1. PICK v, N : v = Lookup(w, key, 0) /\ N = {} \ {0}
  OBVIOUS
<1>2. IF key[1] \in Searching
      THEN 0 \in {} /\ A[0] = SearchOf(key) /\ key \notin DOMAIN w.running
      ELSE 0 = 0
  OBVIOUS
<1>3. TrackerInv(v, {}, {}, N, A, up)
  BY <1>1, <1>2, LookupInv
<1>4. N = {}
  BY <1>1
<1> QED
  BY <1>1, <1>3, <1>4

LEMMA BootstrapInv ==
  ASSUME NEW w, NEW A, NEW up, TrackerInv(w, {}, {}, {}, A, up)
  PROVE  TrackerInv(Bootstrap(w), {}, {}, {}, A, up)
<1>1. PICK key : key = <<"bootstrap", Self>>
  OBVIOUS
<1>2. PICK met : met = SetToSeq(DOMAIN w.at)
  OBVIOUS
<1>3. PICK known : known = [i \in DOMAIN met |-> w.nodes[w.at[met[i]]].addr]
  OBVIOUS
<1>4. PICK all : all = known \o Routers(w)
  OBVIOUS
<1>5. PICK t, u : t = NewTraversal(0) /\ u = AddUnknown(t, Self, all)
  OBVIOUS
<1>6. PICK v, N : v = Bootstrap(w) /\ N = {} \ {0}
  OBVIOUS
<1>7. v = Start(w, key, u)
  BY <1>1, <1>2, <1>3, <1>4, <1>5, <1>6 DEF Bootstrap
<1>8. NodesInv(w) /\ w.routers \subseteq Addrs
  BY DEF TrackerInv, TableInv, PlainOK
<1>9. met \in Seq(DOMAIN w.at) /\ Len(met) \in Nat
  <2>1. PICK D : D = DOMAIN w.at
    OBVIOUS
  <2>2. IsFiniteSet(D)
    BY <1>8, <2>1, Constants, FS_Subset DEF NodesInv
  <2> QED
    BY <1>2, <2>1, <2>2, SetToSeqIs
<1>10. known \in Seq(Addrs)
  <2>1. DOMAIN met = 1..Len(met) /\ \A i \in 1..Len(met) : met[i] \in DOMAIN w.at
    BY <1>9, LenProperties, ElementOfSeq
  <2>2. \A a \in DOMAIN w.at : w.nodes[w.at[a]].addr \in Addrs
    BY <1>8 DEF NodesInv, Contact
  <2>3. known \in [1..Len(met) -> Addrs]
    BY <1>3, <2>1, <2>2
  <2> QED
    BY <1>9, <2>3, SeqDef
<1>11. all \in Seq(Addrs)
  BY <1>4, <1>8, <1>10, RoutersAre, ConcatProperties
<1>12. Idle(t, 0)
  BY <1>5, NewTraversalIs
<1>13. Grows(t, u)
  BY <1>5, <1>11, <1>12, AddUnknownGrows, Constants DEF Idle
<1>14. Idle(u, 0)
  BY <1>12, <1>13, IdleGrows
<1>15. key \in Kinds \X Ids /\ key[1] \notin Searching
  BY <1>1, Constants DEF Kinds, Searching, Direct
<1>16. IF key[1] \in Searching
       THEN 0 \in {} /\ A[0] = SearchOf(key) /\ key \notin DOMAIN w.running
       ELSE 0 = 0
  BY <1>15
<1>17. TrackerInv(v, {}, {}, N, A, up)
  BY <1>6, <1>7, <1>14, <1>15, <1>16, StartInv
<1>18. N = {}
  BY <1>6
<1> QED
  BY <1>6, <1>17, <1>18

LEMMA RefreshKeys ==
  ASSUME NEW key \in Refreshes \cup {<<"firewalled", Self>>}
  PROVE  key \in Kinds \X Ids /\ key[1] \notin Searching
<1>1. Self \in Ids
  BY Constants
<1>2. PICK d \in Drawn : d = CHOOSE e \in Drawn : TRUE
  BY Parameters
<1>3. \A b \in IdleBuckets : IdWithinBucket(b, d) \in Ids
  BY DrawnBelongs, Parameters, KadAssumption
<1>4. CASE key = <<"firewalled", Self>>
  BY <1>1, <1>4 DEF Kinds, Searching, Direct
<1>5. CASE key \in Refreshes
  <2>1. \E id \in Ids : key = <<"refresh", id>>
    BY <1>1, <1>2, <1>3, <1>5 DEF Refreshes
  <2> QED
    BY <2>1 DEF Kinds, Searching, Direct
<1> QED
  BY <1>4, <1>5

LEMMA MaintainInv ==
  ASSUME NEW w, NEW A, NEW up, TrackerInv(w, {}, {}, {}, A, up), NEW S
  PROVE  TrackerInv(Maintain(w, S), {}, {}, {}, A, up)
<1>1. PICK x : x = IF First(w) THEN Bootstrap(w) ELSE w
  OBVIOUS
<1>2. TrackerInv(x, {}, {}, {}, A, up)
  BY <1>1, BootstrapInv
<1>3. PICK y : y = IF S \cap Refreshes = {} THEN x
                   ELSE Lookup(x, CHOOSE key \in S \cap Refreshes : TRUE, 0)
  OBVIOUS
<1>4. TrackerInv(y, {}, {}, {}, A, up)
  <2>1. CASE S \cap Refreshes = {}
    BY <1>2, <1>3, <2>1
  <2>2. CASE S \cap Refreshes # {}
    <3>1. PICK key : key = CHOOSE k \in S \cap Refreshes : TRUE
      OBVIOUS
    <3>2. key \in Refreshes
      BY <2>2, <3>1
    <3>3. key \in Kinds \X Ids /\ key[1] \notin Searching
      BY <3>2, RefreshKeys
    <3>4. y = Lookup(x, key, 0)
      BY <1>3, <2>2, <3>1
    <3> QED
      BY <1>2, <3>3, <3>4, OwnLookupInv
  <2> QED
    BY <2>1, <2>2
<1>5. PICK key : key = <<"firewalled", Self>>
  OBVIOUS
<1>6. PICK z : z = IF key \in S /\ LiveCount(w) >= Quorum THEN Lookup(y, key, 0) ELSE y
  OBVIOUS
<1>7. TrackerInv(z, {}, {}, {}, A, up)
  <2>1. key \in Kinds \X Ids /\ key[1] \notin Searching
    BY <1>5, RefreshKeys
  <2> QED
    BY <1>4, <1>6, <2>1, OwnLookupInv
<1>8. TrackerInv(Bootstrap(z), {}, {}, {}, A, up)
  BY <1>7, BootstrapInv
<1>9. Maintain(w, S) \in {z, Bootstrap(z)}
  BY <1>1, <1>3, <1>5, <1>6 DEF Maintain
<1> QED
  BY <1>7, <1>8, <1>9

-----------------------------------------------------------------------------
(* The answers that the reader takes *)

\* Incoming: the transaction that is found waits for this answer.
LEMMA MatchIs ==
  ASSUME NEW w, TxOK(w.tx), NEW from, NEW op, NEW target, NEW j, j = Match(w, from, op, target)
  PROVE  /\ j \in 0..Len(w.tx) /\ Len(w.tx) \in Nat
         /\ j # 0 => /\ j \in 1..Len(w.tx) /\ w.tx[j] \in Transactions
                     /\ Fits(w.tx[j]) /\ w.tx[j].op = op
<1>1. PICK tx : tx = w.tx
  OBVIOUS
<1>2. tx \in Seq(Transactions) /\ Len(tx) \in Nat /\ DOMAIN tx = 1..Len(tx)
  BY <1>1, LenProperties DEF TxOK
<1> DEFINE I == {i \in 1..Len(tx) : /\ tx[i].to = from /\ tx[i].op = op
                                    /\ tx[i].target \in {NoTarget, target}}
<1>3. j = IF I # {} THEN Min(I) ELSE 0
  BY <1>1 DEF Match, SelectInSeq
<1>4. I \in SUBSET Nat
  OBVIOUS
<1>5. \A i \in I : i \in 1..Len(tx) /\ tx[i].op = op
  OBVIOUS
<1> HIDE DEF I
<1>6. CASE I = {}
  BY <1>1, <1>2, <1>3, <1>6
<1>7. CASE I # {}
  <2>1. j \in I
    BY <1>3, <1>4, <1>7, LeastOf
  <2>2. j \in 1..Len(tx) /\ tx[j].op = op
    BY <1>5, <2>1
  <2>3. tx[j] \in Transactions
    BY <1>2, <2>2, ElementOfSeq
  <2>4. Fits(tx[j])
    BY <1>1, <1>2, <2>2 DEF TxOK
  <2> QED
    BY <1>1, <1>2, <2>2, <2>3, <2>4
<1> QED
  BY <1>6, <1>7

LEMMA AnswerIs ==
  ASSUME NEW x \in Transactions, Fits(x)
  PROVE  /\ x.op = "helloRes" => x.key = Nobody /\ ~x.multi
         /\ x.op # "helloRes" => x.key \in Kinds \X Ids /\ x.key # Nobody
         /\ x.op \in {"bootstrapRes", "res", "firewalledRes"} => ~x.multi
         /\ x.op = "searchRes" => x.key[1] \in Direct
<1>1. CASE x.key = Nobody
  BY <1>1 DEF Fits
<1>2. CASE x.key # Nobody
  <2>1. x.key \in Kinds \X Ids /\ x.key[1] \in Kinds
    BY <1>2 DEF Transactions
  <2>2. x.op = Answer[x.key[1]] /\ (x.multi <=> x.key[1] \in Direct)
    BY <1>2 DEF Fits
  <2>3. PICK kind \in Kinds : kind = x.key[1]
    BY <2>1
  <2>4. /\ Answer[kind] # "helloRes"
        /\ kind \in Direct => Answer[kind] = "searchRes"
        /\ Answer[kind] = "searchRes" => kind \in Direct
    BY DEF Answer, Kinds, Direct
  <2> QED
    BY <1>2, <2>1, <2>2, <2>3, <2>4
<1> QED
  BY <1>1, <1>2

\* The transaction of an answer is taken.
LEMMA TakenInv ==
  ASSUME NEW w, NEW B, NEW M, NEW A, NEW up, TrackerInv(w, {}, B, M, A, up),
         NEW j \in 1..Len(w.tx), ~w.tx[j].multi,
         NEW x, x = w.tx[j], NEW v, v = Taken(w, j)
  PROVE  /\ x.key # Nobody => TrackerInv(v, {<<x.key, x.obs>>}, B, M, A, up)
         /\ x.key = Nobody => TrackerInv(v, {}, B, M, A, up)
<1>1. PICK tx, run, less : tx = w.tx /\ run = w.running /\ less = RemoveAt(w.tx, j)
  OBVIOUS
<1>2. IsTracker(w)
  BY DEF TrackerInv, TableInv
<1>3. TxOK(tx) /\ RunOK(run, B) /\ Linked(tx, run, {}) /\ SearchOK(run, w.answers, A, M)
  BY <1>1 DEF TrackerInv
<1>4. j # 0
  BY <1>1, <1>3, LenProperties DEF TxOK
<1>5. v = [w EXCEPT !.tx = less]
  BY <1>1, <1>4 DEF Taken
<1>6. SameTable(w, v) /\ v.tx = less /\ v.running = run /\ v.answers = w.answers
  BY <1>1, <1>2, <1>5 DEF SameTable, IsTracker
<1>7. PICK Q : Q = {} \cup {<<tx[j].key, tx[j].obs>>}
  OBVIOUS
<1>8. j \in 1..Len(tx) /\ less = RemoveAt(tx, j) /\ x = tx[j]
  BY <1>1
<1>9. /\ TxOK(less) /\ (tx[j].key # Nobody => Linked(less, run, Q))
      /\ (tx[j].key = Nobody => Linked(less, run, {}))
  BY ONLY <1>3, <1>7, <1>8, LinkedTake
<1>10. CASE x.key # Nobody
  <2>1. TrackerInv(v, Q, B, M, A, up)
    BY <1>3, <1>6, <1>8, <1>9, <1>10, InvAgain
  <2>2. Q = {<<x.key, x.obs>>}
    BY <1>7, <1>8
  <2> QED
    BY <1>10, <2>1, <2>2
<1>11. CASE x.key = Nobody
  <2>1. TrackerInv(v, {}, B, M, A, up)
    BY <1>3, <1>6, <1>8, <1>9, <1>11, InvAgain
  <2> QED
    BY <1>11, <2>1
<1> QED
  BY <1>10, <1>11

\* The contacts of a list
LEMMA ContactsAre ==
  ASSUME NEW cs \in Lists
  PROVE  /\ Len(cs) \in Nat /\ DOMAIN cs = 1..Len(cs)
         /\ \A i \in 1..Len(cs) : /\ cs[i] \in Contacts
                                  /\ cs[i][1] \in Addrs /\ cs[i][2] \in Ids \cup {NoId}
<1>1. PICK n \in Nat : cs \in [1..n -> Contacts]
  BY KadAssumption DEF Lists
<1>2. cs \in Seq(Contacts)
  BY <1>1, SeqDef
<1>3. Len(cs) \in Nat /\ DOMAIN cs = 1..Len(cs) /\ \A i \in 1..Len(cs) : cs[i] \in Contacts
  BY <1>2, LenProperties, ElementOfSeq
<1>4. \A c \in Contacts : c[1] \in Addrs /\ c[2] \in Ids \cup {NoId}
  BY KadAssumption
<1> QED
  BY <1>3, <1>4

\* addOrUpdateNodeLocked for each contact of an answer
LEMMA TellMoves ==
  ASSUME NEW w, TableInv(w), NEW cs \in Lists, NEW told, told = Tell(w, cs)
  PROVE  Moves(w, told.w) /\ told = [w |-> told.w, stuck |-> told.stuck]
<1>1. PICK n \in Nat : n = Len(cs)
  BY ContactsAre
<1>2. PICK acc : acc = [w |-> w, stuck |-> FALSE]
  OBVIOUS
<1>steps. PICK now : StepsTell(now, acc, cs, n)
  BY ONLY <1>1, FoldTell
<1>3. /\ now[0] = acc /\ now[n] = TellAll(acc, cs)
      /\ \A i \in 0..(n - 1) : now[i + 1] = TellOne(now[i], cs[i + 1])
  BY <1>steps DEF StepsTell
<1> DEFINE good == {i \in 0..n : /\ Moves(w, now[i].w)
                                 /\ now[i] = [w |-> now[i].w, stuck |-> now[i].stuck]}
<1>4. 0 \in good
  BY <1>2, <1>3, MovesNothing
<1>5. ASSUME NEW i \in 0..(n - 1), i \in good
      PROVE  i + 1 \in good
  <2>1. i + 1 \in 0..n /\ i + 1 \in 1..n
    BY <1>5
  <2>2. PICK u, y, c : u = now[i] /\ y = now[i + 1] /\ c = cs[i + 1]
    OBVIOUS
  <2>3. Moves(w, u.w) /\ y = TellOne(u, c) /\ u = [w |-> u.w, stuck |-> u.stuck]
    BY <1>3, <1>5, <2>2
  <2>4. PICK a, id : a = c[1] /\ id = c[2]
    OBVIOUS
  <2>5. a \in Addrs /\ id \in Ids \cup {NoId}
    BY <1>1, <2>1, <2>2, <2>4, ContactsAre
  <2>6. PICK x, v : x = u.w /\ v = AddOrUpdate(x, id, a)
    OBVIOUS
  <2>7. y.w \in {x, v} /\ y = [w |-> y.w, stuck |-> y.stuck]
    BY <2>3, <2>4, <2>6 DEF TellOne
  <2>8. Moves(w, x) /\ TableInv(x)
    BY <2>3, <2>6 DEF Moves
  <2>9. Moves(x, v)
    BY <2>5, <2>6, <2>8, AddOrUpdateMoves
  <2>10. Moves(w, v)
    BY <2>8, <2>9, MovesAgain
  <2>11. Moves(w, y.w)
    BY <2>7, <2>8, <2>10
  <2> QED
    BY <2>1, <2>2, <2>7, <2>11
<1> HIDE DEF good
<1>6. \A i \in 0..n : i \in good
  BY ONLY <1>4, <1>5, n \in Nat, UpTo, ZenonT(30)
<1>7. n \in 0..n
  OBVIOUS
<1>8. told = TellAll(acc, cs)
  BY <1>2 DEF Tell, TellAll
<1> QED
  BY <1>3, <1>6, <1>7, <1>8 DEF good

\* traverse: one contact for the table, and an observer for the traversal
LEMMA TraverseInv ==
  ASSUME NEW w, NEW P, NEW B, NEW M, NEW A, NEW up, TrackerInv(w, P, B, M, A, up),
         NEW key \in DOMAIN w.running, NEW c, c[1] \in Addrs, c[2] \in Ids \cup {NoId},
         NEW v, v = Traverse(w, key, c)
  PROVE  TrackerInv(v, P, B, M, A, up) /\ DOMAIN v.running = DOMAIN w.running
<1>1. PICK a, id : a = c[1] /\ id = c[2]
  OBVIOUS
<1>2. PICK x : x = AddOrUpdate(w, id, a)
  OBVIOUS
<1>3. Moves(w, x) /\ a \in DOMAIN x.at
  BY <1>1, <1>2, AddOrUpdateMoves DEF TrackerInv
<1>4. PICK n : n = x.at[a]
  OBVIOUS
<1>5. TableInv(x) /\ n \in DOMAIN x.nodes
  BY <1>3, <1>4 DEF Moves, TableInv, NodesInv
<1>6. PICK y : y = AddNode(x, n, FALSE)
  OBVIOUS
<1>7. Moves(x, y)
  BY <1>5, <1>6, AddNodeMoves DEF Stays
<1>8. Moves(w, y)
  BY <1>3, <1>7, MovesAgain
<1>9. TrackerInv(y, P, B, M, A, up) /\ y.running = w.running
  BY <1>8, MovesInv
<1>10. PICK t, u : t = y.running[key] /\ u = AddEntry(t, key[2], a, id)
  OBVIOUS
<1>11. /\ key \in DOMAIN y.running /\ t \in Traversals /\ ListOK(t) /\ CountOK(t) /\ key[2] \in Ids
       /\ IsTracker(y)
  BY <1>9, <1>10, RunningIs
<1>12. Grows(t, u)
  BY <1>1, <1>10, <1>11, AddEntryGrows
<1>13. /\ u \in Traversals /\ ListOK(u) /\ CountOK(u) /\ Waiting(u) = Waiting(t) /\ u.who = t.who
  BY <1>11, <1>12 DEF Grows, CountOK
<1>14. v = [y EXCEPT !.running[key] = u]
  BY <1>1, <1>2, <1>4, <1>6, <1>10 DEF Traverse
<1>15. RunsAs(y, v, key, u)
  BY <1>11, <1>14, RunsAsIs
<1>16. TrackerInv(v, P, B, M, A, up) /\ DOMAIN v.running = DOMAIN y.running
  BY <1>9, <1>10, <1>11, <1>13, <1>15, SameRequests
<1> QED
  BY <1>9, <1>16

LEMMA TraverseAllInv ==
  ASSUME NEW w, NEW P, NEW B, NEW M, NEW A, NEW up, TrackerInv(w, P, B, M, A, up),
         NEW key \in DOMAIN w.running, NEW cs \in Lists
  PROVE  TrackerInv(TraverseAll(w, key, cs), P, B, M, A, up)
<1>1. PICK n \in Nat : n = Len(cs)
  BY ContactsAre
<1>steps. PICK now : StepsTraverse(now, w, key, cs, n)
  BY ONLY <1>1, FoldTraverse
<1>2. /\ now[0] = w /\ now[n] = TraverseAll(w, key, cs)
      /\ \A i \in 0..(n - 1) : now[i + 1] = Traverse(now[i], key, cs[i + 1])
  BY <1>steps DEF StepsTraverse
<1> DEFINE good == {i \in 0..n : /\ TrackerInv(now[i], P, B, M, A, up)
                                 /\ key \in DOMAIN now[i].running}
<1>3. 0 \in good
  BY <1>2
<1>4. ASSUME NEW i \in 0..(n - 1), i \in good
      PROVE  i + 1 \in good
  <2>1. i + 1 \in 0..n /\ i + 1 \in 1..n
    BY <1>4
  <2>2. PICK u, y, c : u = now[i] /\ y = now[i + 1] /\ c = cs[i + 1]
    OBVIOUS
  <2>3. /\ TrackerInv(u, P, B, M, A, up) /\ key \in DOMAIN u.running
        /\ y = Traverse(u, key, c)
    BY <1>2, <1>4, <2>2
  <2>4. c[1] \in Addrs /\ c[2] \in Ids \cup {NoId}
    BY <1>1, <2>1, <2>2, ContactsAre
  <2>5. TrackerInv(y, P, B, M, A, up) /\ DOMAIN y.running = DOMAIN u.running
    BY <2>3, <2>4, TraverseInv
  <2> QED
    BY <2>1, <2>2, <2>3, <2>5
<1> HIDE DEF good
<1>5. \A i \in 0..n : i \in good
  BY ONLY <1>3, <1>4, n \in Nat, UpTo, ZenonT(30)
<1>6. n \in 0..n
  OBVIOUS
<1> QED
  BY <1>2, <1>5, <1>6 DEF good

LEMMA ConcludeAre ==
  ASSUME NEW w, NEW x, NEW cs
  PROVE  Conclude(w, x, cs) = Finished(TraverseAll(w, x.key, cs), x.key, x.obs)
BY DEF Conclude, TraverseAll

\* The observer of the transaction that was taken
LEMMA ConcludeInv ==
  ASSUME NEW w, NEW M, NEW A, NEW up, NEW x, TrackerInv(w, {<<x.key, x.obs>>}, {}, M, A, up),
         NEW cs \in Lists, NEW v, v = Conclude(w, x, cs)
  PROVE  TrackerInv(v, {}, {}, M, A, up)
<1>1. PICK key, o : key = x.key /\ o = x.obs
  OBVIOUS
<1>2. PICK P : P = {<<key, o>>}
  OBVIOUS
<1>3. TrackerInv(w, P, {}, M, A, up) /\ <<key, o>> \in P
  BY <1>1, <1>2
<1>4. key \in DOMAIN w.running
  BY <1>3, AwaitedIs DEF Awaits
<1>5. PICK y : y = TraverseAll(w, key, cs)
  OBVIOUS
<1>6. TrackerInv(y, P, {}, M, A, up)
  BY <1>3, <1>4, <1>5, TraverseAllInv
<1>7. v = Finished(y, key, o)
  BY <1>1, <1>5, ConcludeAre
<1>8. PICK Q : Q = P \ {<<key, o>>}
  OBVIOUS
<1>9. TrackerInv(v, Q, {}, M, A, up)
  BY <1>3, <1>6, <1>7, <1>8, FinishedInv
<1>10. Q = {}
  BY <1>2, <1>8
<1> QED
  BY <1>9, <1>10

-----------------------------------------------------------------------------
(* The calls of the program *)

\* The contacts stay, as they are and in their lists.
SameContacts(w, v) ==
  /\ IsTracker(v) /\ v.nodes = w.nodes /\ v.at = w.at /\ v.live = w.live /\ v.repl = w.repl

LEMMA SameContactsInv ==
  ASSUME NEW w, TableInv(w), NEW v, SameContacts(w, v)
  PROVE  TableInv(v)
<1>1. Named(v) = Named(w)
  BY DEF SameContacts, Named
<1>2. \A k : Sole(v, k) <=> Sole(w, k)
  BY DEF SameContacts, Sole
<1>3. NodesInv(v)
  BY <1>1, <1>2 DEF SameContacts, TableInv, NodesInv
<1>4. ListsInv(v)
  BY <1>1, SameLists DEF SameContacts, TableInv
<1> QED
  BY <1>3, <1>4 DEF SameContacts, TableInv

\* The settings and the indexes change only.
SameWork(w, v) ==
  SameContacts(w, v) /\ v.tx = w.tx /\ v.running = w.running /\ v.answers = w.answers

LEMMA SettingsInv ==
  ASSUME NEW w, NEW P, NEW B, NEW M, NEW A, NEW up, TrackerInv(w, P, B, M, A, up),
         NEW v, SameWork(w, v), NEW open, PlainOK(v, open)
  PROVE  TrackerInv(v, P, B, M, A, open)
<1>1. TableInv(v)
  BY SameContactsInv DEF SameWork, TrackerInv
<1> QED
  BY <1>1 DEF SameWork, TrackerInv

\* A search is accepted: it is to get a traversal or its answer.
LEMMA AcceptedInv ==
  ASSUME NEW w, NEW A, NEW up, TrackerInv(w, {}, {}, {}, A, up),
         NEW key \in {"find-sources", "find-keywords"} \X Ids,
         NEW v, v = [w EXCEPT !.answers = Append(@, 0)]
  PROVE  /\ TrackerInv(v, {}, {}, {Len(A) + 1}, Append(A, key), up)
         /\ v.running = w.running
<1>1. IsTracker(w) /\ SearchOK(w.running, w.answers, A, {})
  BY DEF TrackerInv, TableInv
<1>2. /\ SameTable(w, v) /\ v.tx = w.tx /\ v.running = w.running
      /\ v.answers = Append(w.answers, 0)
  BY ONLY <1>1, v = [w EXCEPT !.answers = Append(@, 0)] DEF SameTable, IsTracker
<1>3. TableInv(v) /\ PlainOK(v, up)
  BY <1>2, SameTableInv DEF TrackerInv
<1>4. SearchOK(w.running, Append(w.answers, 0), Append(A, key), {Len(A) + 1})
  BY <1>1, SearchAccepted
<1>5. SearchOK(v.running, v.answers, Append(A, key), {Len(A) + 1})
  BY <1>2, <1>4
<1>6. TxOK(v.tx) /\ RunOK(v.running, {}) /\ Linked(v.tx, v.running, {})
  BY <1>2 DEF TrackerInv
<1> QED
  BY <1>2, <1>3, <1>5, <1>6 DEF TrackerInv

\* No bucket runs out of live contacts.
Lives(w, v) == \A b \in Buckets : w.live[b] # << >> => v.live[b] # << >>

LEMMA AddOrUpdateLives ==
  ASSUME NEW w, TableInv(w), NEW a \in Addrs, NEW id \in Ids \cup {NoId}
  PROVE  Lives(w, AddOrUpdate(w, id, a))
<1>1. PICK v : v = Known(w, a)
  OBVIOUS
<1>2. /\ TableInv(v) /\ a \in DOMAIN v.at /\ v.live = w.live
  BY <1>1, KnownMoves DEF Moves
<1>3. PICK n : n = v.at[a]
  OBVIOUS
<1>4. n \in DOMAIN v.nodes /\ v.nodes[n] \in Contact /\ IsTracker(v)
  BY <1>2, <1>3 DEF TableInv, NodesInv
<1>5. PICK c : c = Told(v.nodes[n], a, id)
  OBVIOUS
<1>6. c \in Contact /\ c.addr = a /\ (v.nodes[n].id # NoId => c.id # NoId)
  BY <1>4, <1>5 DEF Told, Contact
<1>7. PICK u : u = [v EXCEPT !.nodes[n] = c]
  OBVIOUS
<1>8. /\ IsTracker(u) /\ Rest(u) = Rest(v) /\ u.at = v.at /\ u.live = v.live /\ u.repl = v.repl
      /\ u.nodes = [v.nodes EXCEPT ![n] = c]
  BY ONLY <1>4, <1>7 DEF IsTracker, Rest
<1>9. Moves(v, u)
  BY <1>2, <1>3, <1>6, <1>8, ToldMoves
<1>10. TableInv(u) /\ n \in DOMAIN u.nodes
  BY <1>4, <1>9 DEF Moves
<1>11. Fills(u, AddNode(u, n, FALSE))
  BY <1>10, AddNodeFills
<1>12. AddOrUpdate(w, id, a) = AddNode(u, n, FALSE)
  BY <1>1, <1>3, <1>5, <1>7 DEF AddOrUpdate
<1> QED
  BY <1>2, <1>8, <1>11, <1>12 DEF Fills, Lives

\* What a step of ApplyNodesDat leaves: the map only grows.
Wider(w, v) == DOMAIN w.at \subseteq DOMAIN v.at /\ Lives(w, v)

\* One entry of a file
LEMMA MeetInv ==
  ASSUME NEW w, NEW A, NEW up, TrackerInv(w, {}, {}, {}, A, up),
         NEW c, c[1] \in Addrs, c[2] \in Ids \cup {NoId}, NEW edition,
         NEW confirmed \in BOOLEAN, NEW v, v = MetInFile(w, c, edition, confirmed)
  PROVE  TrackerInv(v, {}, {}, {}, A, up) /\ Wider(w, v) /\ c[1] \in DOMAIN v.at
<1>1. PICK a, id : a = c[1] /\ id = c[2]
  OBVIOUS
<1>2. PICK x : x = AddOrUpdate(w, id, a)
  OBVIOUS
<1>3. Moves(w, x) /\ a \in DOMAIN x.at /\ Lives(w, x)
  BY <1>1, <1>2, AddOrUpdateMoves, AddOrUpdateLives DEF TrackerInv
<1>4. TrackerInv(x, {}, {}, {}, A, up) /\ Wider(w, x)
  BY <1>3, MovesInv DEF Wider, Moves
<1>5. CASE edition = 1
  <2>1. PICK more : more = x.routers \cup {a}
    OBVIOUS
  <2>2. v = [x EXCEPT !.routers = more]
    BY <1>1, <1>2, <1>5, <2>1 DEF MetInFile
  <2>3. IsTracker(x) /\ PlainOK(x, up)
    BY <1>4 DEF TrackerInv, TableInv
  <2>4. SameWork(x, v) /\ v.routers = more /\ v.up = x.up /\ v.storage = x.storage
    BY ONLY <2>2, <2>3 DEF SameWork, SameContacts, IsTracker
  <2>5. PlainOK(v, up)
    BY <1>1, <2>1, <2>3, <2>4 DEF PlainOK
  <2>6. TrackerInv(v, {}, {}, {}, A, up)
    BY <1>4, <2>4, <2>5, SettingsInv
  <2> QED
    BY <1>1, <1>3, <1>4, <2>4, <2>6 DEF SameWork, SameContacts, Wider, Lives
<1>6. CASE edition # 1
  <2>1. PICK n : n = x.at[a]
    OBVIOUS
  <2>2. v = AddNode(x, n, confirmed)
    BY <1>1, <1>2, <1>6, <2>1 DEF MetInFile
  <2>3. TableInv(x) /\ n \in DOMAIN x.nodes
    BY <1>3, <2>1 DEF Moves, TableInv, NodesInv
  <2>4. Moves(x, v) /\ Fills(x, v)
    BY <2>2, <2>3, AddNodeMoves, AddNodeFills DEF Stays
  <2>5. TrackerInv(v, {}, {}, {}, A, up)
    BY <1>4, <2>4, MovesInv
  <2> QED
    BY <1>1, <1>3, <1>4, <2>4, <2>5 DEF Moves, Fills, Wider, Lives
<1> QED
  BY <1>5, <1>6

LEMMA ApplyNodesDatInv ==
  ASSUME NEW w, NEW A, NEW up, TrackerInv(w, {}, {}, {}, A, up),
         NEW cs \in Lists, NEW edition, NEW verified, NEW list, list = [i \in DOMAIN cs |-> i],
         NEW v, v = MeetEntries(cs, edition, verified, w, list)
  PROVE  /\ TrackerInv(v, {}, {}, {}, A, up) /\ Wider(w, v)
         /\ \A i \in DOMAIN cs : cs[i][1] \in DOMAIN v.at
<1>1. PICK n \in Nat : n = Len(cs)
  BY ContactsAre
<1>2. DOMAIN cs = 1..n
  BY <1>1, ContactsAre
<1>3. n = Len(list) /\ \A i \in 1..n : list[i] = i
  <2>1. list \in [1..n -> Nat]
    BY <1>2
  <2>2. list \in Seq(Nat) /\ Len(list) = n
    BY <2>1, SeqDef, LenProperties
  <2> QED
    BY <1>2, <2>2
<1>steps. PICK now : StepsMetInFile(now, w, cs, edition, verified, list, n)
  BY ONLY <1>3, n \in Nat, FoldMetInFile
<1>4. /\ now[0] = w /\ now[n] = MeetEntries(cs, edition, verified, w, list)
      /\ \A i \in 0..(n - 1) :
           now[i + 1] = MeetEntry(cs, edition, verified, now[i], list[i + 1])
  BY <1>steps DEF StepsMetInFile
<1> DEFINE good == {i \in 0..n : /\ TrackerInv(now[i], {}, {}, {}, A, up) /\ Wider(w, now[i])
                                 /\ \A j \in 1..i : cs[j][1] \in DOMAIN now[i].at}
<1>5. 0 \in good
  BY <1>4 DEF Wider, Lives
<1>6. ASSUME NEW i \in 0..(n - 1), i \in good
      PROVE  i + 1 \in good
  <2>1. i + 1 \in 0..n /\ i + 1 \in 1..n /\ \A j \in 1..i + 1 : j \in 1..i \/ j = i + 1
    BY <1>6
  <2>2. PICK x, y, c : x = now[i] /\ y = now[i + 1] /\ c = cs[i + 1]
    OBVIOUS
  <2>3. /\ TrackerInv(x, {}, {}, {}, A, up) /\ Wider(w, x)
        /\ \A j \in 1..i : cs[j][1] \in DOMAIN x.at
    BY <1>6, <2>2
  <2>4. PICK confirmed \in BOOLEAN : confirmed <=> i + 1 \in verified
    <3>1. CASE i + 1 \in verified
      BY <3>1
    <3>2. CASE i + 1 \notin verified
      BY <3>2
    <3> QED
      BY <3>1, <3>2
  <2>5. y = MetInFile(x, c, edition, confirmed)
    <3>1. (i + 1 \in verified) = confirmed
      BY <2>4
    <3> QED
      BY <3>1, <1>3, <1>4, <2>1, <2>2, <2>4 DEF MeetEntry
  <2>6. c[1] \in Addrs /\ c[2] \in Ids \cup {NoId}
    BY <1>1, <2>1, <2>2, ContactsAre
  <2>7. TrackerInv(y, {}, {}, {}, A, up) /\ Wider(x, y) /\ c[1] \in DOMAIN y.at
    BY <2>3, <2>5, <2>6, MeetInv
  <2>8. Wider(w, y) /\ \A j \in 1..i + 1 : cs[j][1] \in DOMAIN y.at
    BY <2>1, <2>2, <2>3, <2>7 DEF Wider, Lives
  <2> QED
    BY <2>1, <2>2, <2>7, <2>8
<1> HIDE DEF good
<1>7. \A i \in 0..n : i \in good
  BY ONLY <1>5, <1>6, n \in Nat, UpTo, ZenonT(30)
<1>8. n \in 0..n
  OBVIOUS
<1>9. now[n] = v
  BY <1>4
<1> QED
  BY <1>2, <1>7, <1>8, <1>9 DEF good

\* Those of a file that confirms none
LEMMA ConfirmAllInv ==
  ASSUME NEW w, NEW A, NEW up, TrackerInv(w, {}, {}, {}, A, up),
         NEW cs \in Lists, \A i \in DOMAIN cs : cs[i][1] \in DOMAIN w.at,
         NEW v, v = ConfirmAll(w, cs)
  PROVE  TrackerInv(v, {}, {}, {}, A, up) /\ Lives(w, v)
<1>1. PICK n \in Nat : n = Len(cs)
  BY ContactsAre
<1>steps. PICK now : StepsConfirm(now, w, cs, n)
  BY ONLY <1>1, FoldConfirm
<1>2. /\ now[0] = w /\ now[n] = ConfirmAll(w, cs)
      /\ \A i \in 0..(n - 1) : now[i + 1] = Confirm(now[i], cs[i + 1])
  BY <1>steps DEF StepsConfirm
<1> DEFINE good == {i \in 0..n : /\ TrackerInv(now[i], {}, {}, {}, A, up) /\ Wider(w, now[i])}
<1>3. 0 \in good
  BY <1>2 DEF Wider, Lives
<1>4. ASSUME NEW i \in 0..(n - 1), i \in good
      PROVE  i + 1 \in good
  <2>1. i + 1 \in 0..n /\ i + 1 \in 1..n
    BY <1>4
  <2>2. PICK x, y, c : x = now[i] /\ y = now[i + 1] /\ c = cs[i + 1]
    OBVIOUS
  <2>3. TrackerInv(x, {}, {}, {}, A, up) /\ Wider(w, x)
    BY <1>4, <2>2
  <2>4. PICK k : k = x.at[c[1]]
    OBVIOUS
  <2>5. y = AddNode(x, k, TRUE)
    BY <1>2, <2>2, <2>4 DEF Confirm
  <2>6. c[1] \in DOMAIN x.at
    BY <1>1, <2>1, <2>2, <2>3, ContactsAre DEF Wider
  <2>7. TableInv(x) /\ k \in DOMAIN x.nodes
    BY <2>3, <2>4, <2>6 DEF TrackerInv, TableInv, NodesInv
  <2>8. Moves(x, y) /\ Fills(x, y)
    BY <2>5, <2>7, AddNodeMoves, AddNodeFills DEF Stays
  <2>9. TrackerInv(y, {}, {}, {}, A, up) /\ Wider(w, y)
    BY <2>3, <2>8, MovesInv DEF Moves, Fills, Wider, Lives
  <2> QED
    BY <2>1, <2>2, <2>9
<1> HIDE DEF good
<1>5. \A i \in 0..n : i \in good
  BY ONLY <1>3, <1>4, n \in Nat, UpTo, ZenonT(30)
<1>6. n \in 0..n
  OBVIOUS
<1> QED
  BY <1>2, <1>5, <1>6 DEF good, Wider

-----------------------------------------------------------------------------
(* A start of the program *)

\* The contacts of the map can all be restored.
LEMMA MapRestorable ==
  ASSUME NEW w, NodesInv(w), NEW order \in SetToSeqs(Range(w.at))
  PROVE  /\ Restorable(w, order)
         /\ \A a \in DOMAIN w.at : \E i \in 1..Len(order) : order[i] = w.at[a]
<1>1. PICK S : S = Range(w.at)
  OBVIOUS
<1>2. S \subseteq DOMAIN w.nodes /\ \A a \in DOMAIN w.at : w.at[a] \in S
  BY <1>1 DEF Range, NodesInv
<1>3. IsFiniteSet(S)
  BY <1>2, FS_Subset DEF NodesInv
<1>4. PICK n \in Nat : n = Cardinality(S)
  BY <1>3, FS_CardinalityType
<1>5. order \in [1..n -> S] /\ \A i, j \in 1..n : i # j => order[i] # order[j]
  BY <1>1, <1>4 DEF SetToSeqs
<1>6. Len(order) = n
  BY <1>5
<1>7. \A x \in S : \E i \in 1..n : order[i] = x
  <2>1. order \in Injection(1..n, S)
    BY <1>5 DEF Injection, IsInjective
  <2>2. IsFiniteSet(1..n) /\ Cardinality(1..n) = n
    BY FS_Interval
  <2>3. order \in Surjection(1..n, S)
    BY <1>3, <1>4, <2>1, <2>2, FS_Injection
  <2> QED
    BY <2>3 DEF Surjection
<1>8. \A i \in 1..n : /\ order[i] \in DOMAIN w.nodes /\ order[i] \in Keys
                      /\ w.nodes[order[i]] \in Contact
  BY <1>2, <1>5 DEF NodesInv
<1>9. ASSUME NEW i \in 1..n, NEW j \in 1..n, w.nodes[order[i]].id = NoId,
             w.nodes[order[i]].addr = w.nodes[order[j]].addr
      PROVE  i = j
  <2>1. order[i] \notin Named(w)
    BY <1>9 DEF Named
  <2>2. Sole(w, order[i])
    BY <1>8, <2>1 DEF NodesInv
  <2>3. order[i] = order[j]
    BY <1>8, <1>9, <2>2 DEF Sole
  <2> QED
    BY <1>5, <2>3
<1>10. Restorable(w, order)
  BY <1>4, <1>5, <1>6, <1>8, <1>9 DEF Restorable
<1> QED
  BY <1>2, <1>6, <1>7, <1>10

\* And those of a file.
LEMMA FileRestorable ==
  ASSUME NEW file, SavedContacts(file), NEW w, w.nodes = file,
         NEW order, order = SetToSeq(DOMAIN file)
  PROVE  Restorable(w, order)
<1>1. PICK S : S = DOMAIN file
  OBVIOUS
<1>2. IsFiniteSet(S) /\ S \subseteq Keys /\ file \in [S -> Contact]
  BY <1>1 DEF SavedContacts
<1>3. order \in Seq(S) /\ Len(order) \in Nat /\ \A i, j \in 1..Len(order) : order[i] = order[j] => i = j
  BY <1>1, <1>2, SetToSeqIs
<1>4. \A i \in 1..Len(order) : order[i] \in S
  BY <1>3, ElementOfSeq
<1>5. \A i, j \in 1..Len(order) :
        w.nodes[order[i]].id = NoId /\ w.nodes[order[i]].addr = w.nodes[order[j]].addr => i = j
  <2> TAKE i, j \in 1..Len(order)
  <2> HAVE w.nodes[order[i]].id = NoId /\ w.nodes[order[i]].addr = w.nodes[order[j]].addr
  <2>1. order[i] = order[j]
    BY <1>1, <1>4 DEF SavedContacts
  <2> QED
    BY <1>3, <2>1
<1> QED
  BY <1>1, <1>2, <1>3, <1>4, <1>5 DEF Restorable

\* A tracker that was not opened yet, with the contacts that were saved
LEMMA RestoredInv ==
  ASSUME NEW w, NEW order, Restorable(w, order), w.routers \subseteq Addrs,
         w.storage \in Addrs \cup {NoAddr}, NEW v, v = Restore(w, order)
  PROVE  TrackerInv(v, {}, {}, {}, << >>, FALSE)
<1>1. Back(w, order, Len(order), v) /\ Rest(v) = Rest(Fresh(w))
  BY RestoreIs
<1>2. /\ v.up = FALSE /\ v.routers = w.routers /\ v.storage = w.storage /\ v.tx = << >>
      /\ v.running = << >> /\ v.answers = << >>
  BY <1>1, FreshIs DEF Rest, Empty
<1>3. TableInv(v) /\ PlainOK(v, FALSE)
  BY <1>1, <1>2 DEF Back, PlainOK
<1>4. DOMAIN v.running = {} /\ DOMAIN v.tx = {}
  BY <1>2
<1>5. TxOK(v.tx)
  BY <1>2, <1>4 DEF TxOK
<1>6. RunOK(v.running, {})
  <2>1. v.running \in [{} -> Traversals]
    BY <1>2
  <2> QED
    BY <1>4, <2>1 DEF RunOK
<1>7. Linked(v.tx, v.running, {})
  BY <1>4 DEF Linked
<1>8. SearchOK(v.running, v.answers, << >>, {})
  <2>1. /\ v.answers \in Seq({0, 1}) /\ << >> \in Seq({"find-sources", "find-keywords"} \X Ids)
        /\ Len(v.answers) = Len(<< >>) /\ DOMAIN << >> = {}
    BY <1>2
  <2> QED
    BY <1>4, <2>1 DEF SearchOK
<1> QED
  BY <1>3, <1>5, <1>6, <1>7, <1>8 DEF TrackerInv

\* A new tracker, and one that was started with a nodes.dat, is consistent.
LEMMA InitInv ==
  Init => KadInv
<1> SUFFICES ASSUME Init PROVE KadInv
  OBVIOUS
<1>1. PICK file \in Saved :
        dht = Restore([NewTracker EXCEPT !.nodes = file], SetToSeq(DOMAIN file))
  BY DEF Init
<1>2. PICK w : w = [NewTracker EXCEPT !.nodes = file]
  OBVIOUS
<1>3. w.nodes = file /\ w.routers = {} /\ w.storage = NoAddr
  BY <1>2 DEF NewTracker
<1>4. PICK order : order = SetToSeq(DOMAIN file)
  OBVIOUS
<1>5. Restorable(w, order)
  BY <1>3, <1>4, KadAssumption, FileRestorable
<1>6. TrackerInv(dht, {}, {}, {}, << >>, FALSE)
  BY <1>1, <1>2, <1>3, <1>4, <1>5, RestoredInv
<1>7. reader = "new" /\ asked = << >> /\ due \in BOOLEAN
  BY DEF Init
<1>8. (reader \in {"reading", "blocked"}) = FALSE
  BY <1>7
<1> QED
  BY <1>6, <1>7, <1>8 DEF KadInv

-----------------------------------------------------------------------------
(* Answers, from their transaction to their end *)

\* The observer of transaction j of w is owed its end in v.
Owing(w, j, v, A, up) ==
  /\ j = 0 => TrackerInv(v, {}, {}, {}, A, up)
  /\ j # 0 => TrackerInv(v, {<<w.tx[j].key, w.tx[j].obs>>}, {}, {}, A, up)

LEMMA TakenOwing ==
  ASSUME NEW w, NEW A, NEW up, TrackerInv(w, {}, {}, {}, A, up), NEW from, NEW target,
         NEW op \in {"bootstrapRes", "res", "firewalledRes"},
         NEW j, j = Match(w, from, op, target), NEW v, v = Taken(w, j)
  PROVE  Owing(w, j, v, A, up)
<1>1. TxOK(w.tx)
  BY DEF TrackerInv
<1>2. /\ j \in 0..Len(w.tx) /\ Len(w.tx) \in Nat
      /\ j # 0 => /\ j \in 1..Len(w.tx) /\ w.tx[j] \in Transactions
                  /\ Fits(w.tx[j]) /\ w.tx[j].op = op
  BY <1>1, MatchIs
<1>3. CASE j = 0
  BY <1>3 DEF Taken, Owing
<1>4. CASE j # 0
  <2>1. PICK x : x = w.tx[j]
    OBVIOUS
  <2>2. x \in Transactions /\ Fits(x) /\ x.op = op
    BY <1>2, <1>4, <2>1
  <2>3. ~x.multi /\ x.key # Nobody
    BY <2>2, AnswerIs
  <2>4. TrackerInv(v, {<<x.key, x.obs>>}, {}, {}, A, up)
    BY <1>2, <1>4, <2>1, <2>3, TakenInv
  <2> QED
    BY <1>4, <2>1, <2>4 DEF Owing
<1> QED
  BY <1>3, <1>4

LEMMA OwingMoves ==
  ASSUME NEW w, NEW j, NEW v, NEW A, NEW up, Owing(w, j, v, A, up), NEW u, Moves(v, u)
  PROVE  Owing(w, j, u, A, up)
BY MovesInv DEF Owing

LEMMA OwingTable ==
  ASSUME NEW w, NEW j, NEW v, NEW A, NEW up, Owing(w, j, v, A, up)
  PROVE  TableInv(v)
BY DEF Owing, TrackerInv

\* What the reader does when it has told the table: it goes on with its observer,
\* or blocks.
Ends(w, j, told, cs, next, stuck) ==
  next = IF stuck THEN w ELSE IF j = 0 THEN told ELSE Conclude(told, w.tx[j], cs)

LEMMA EndsInv ==
  ASSUME NEW w, NEW A, NEW up, TrackerInv(w, {}, {}, {}, A, up),
         NEW j, NEW told, Owing(w, j, told, A, up), NEW cs \in Lists,
         NEW stuck, NEW v, Ends(w, j, told, cs, v, stuck)
  PROVE  TrackerInv(v, {}, {}, {}, A, up)
<1>1. CASE stuck
  BY <1>1 DEF Ends
<1>2. CASE ~stuck /\ j = 0
  BY <1>2 DEF Ends, Owing
<1>3. CASE ~stuck /\ j # 0
  <2>1. PICK x : x = w.tx[j]
    OBVIOUS
  <2>2. v = Conclude(told, x, cs) /\ TrackerInv(told, {<<x.key, x.obs>>}, {}, {}, A, up)
    BY <1>3, <2>1 DEF Ends, Owing
  <2> QED
    BY <2>2, ConcludeInv
<1> QED
  BY <1>1, <1>2, <1>3

\* processBootstrapRes
LEMMA BootstrapResInv ==
  ASSUME NEW w, NEW A, NEW up, TrackerInv(w, {}, {}, {}, A, up),
         NEW a \in Addrs, NEW id \in Ids \cup {NoId}, NEW cs \in Lists,
         NEW j, j = Match(w, a, "bootstrapRes", NoTarget),
         NEW v, v = AddOrUpdate(Taken(w, j), id, a),
         NEW told, told = Tell(ConfirmNode(v, a), cs),
         NEW next, Ends(w, j, told.w, cs, next, told.stuck)
  PROVE  TrackerInv(next, {}, {}, {}, A, up)
<1>1. PICK x, y : x = Taken(w, j) /\ y = ConfirmNode(v, a)
  OBVIOUS
<1>2. Owing(w, j, x, A, up) /\ TableInv(x)
  BY <1>1, TakenOwing, OwingTable
<1>3. Moves(x, v) /\ TableInv(v)
  BY <1>1, <1>2, AddOrUpdateMoves DEF Moves
<1>4. Moves(v, y) /\ TableInv(y)
  BY <1>1, <1>3, ConfirmNodeMoves DEF Moves
<1>5. Moves(y, told.w)
  BY <1>1, <1>4, TellMoves
<1>6. Owing(w, j, told.w, A, up)
  BY <1>2, <1>3, <1>4, <1>5, OwingMoves
<1> QED
  BY <1>6, EndsInv

\* processFindRes
LEMMA FindResInv ==
  ASSUME NEW w, NEW A, NEW up, TrackerInv(w, {}, {}, {}, A, up),
         NEW a \in Addrs, NEW target, NEW cs \in Lists,
         NEW j, j = Match(w, a, "res", target),
         NEW told, told = Tell(Taken(w, j), cs),
         NEW next, Ends(w, j, ConfirmNode(told.w, a), cs, next, told.stuck)
  PROVE  TrackerInv(next, {}, {}, {}, A, up)
<1>1. PICK x, y : x = Taken(w, j) /\ y = ConfirmNode(told.w, a)
  OBVIOUS
<1>2. Owing(w, j, x, A, up) /\ TableInv(x)
  BY <1>1, TakenOwing, OwingTable
<1>3. Moves(x, told.w) /\ TableInv(told.w)
  BY <1>1, <1>2, TellMoves DEF Moves
<1>4. Moves(told.w, y)
  BY <1>1, <1>3, ConfirmNodeMoves
<1>5. Owing(w, j, y, A, up)
  BY <1>2, <1>3, <1>4, OwingMoves
<1> QED
  BY <1>1, <1>5, EndsInv

\* processFirewalledRes
LEMMA FirewalledResInv ==
  ASSUME NEW w, NEW A, NEW up, TrackerInv(w, {}, {}, {}, A, up), NEW a \in Addrs,
         NEW j, j = Match(w, a, "firewalledRes", NoTarget),
         NEW v, v = ConfirmNode(Taken(w, j), a),
         NEW next, Ends(w, j, v, << >>, next, FALSE)
  PROVE  TrackerInv(next, {}, {}, {}, A, up)
<1>1. PICK x : x = Taken(w, j)
  OBVIOUS
<1>2. Owing(w, j, x, A, up) /\ TableInv(x)
  BY <1>1, TakenOwing, OwingTable
<1>3. Moves(x, v)
  BY <1>1, <1>2, ConfirmNodeMoves
<1>4. Owing(w, j, v, A, up)
  BY <1>2, <1>3, OwingMoves
<1>5. << >> \in Lists
  <2>1. 0 \in 0..MaxContacts
    BY KadAssumption
  <2>2. << >> \in [1..0 -> Contacts]
    OBVIOUS
  <2> QED
    BY <2>1, <2>2 DEF Lists
<1> QED
  BY <1>4, <1>5, EndsInv

\* processHelloReq, processHelloRes: a greeting waits for nobody's answer.
LEMMA HelloInv ==
  ASSUME NEW w, NEW A, NEW up, TrackerInv(w, {}, {}, {}, A, up),
         NEW a \in Addrs, NEW id \in Ids \cup {NoId}, NEW isAnswer,
         NEW j, j = IF isAnswer THEN Match(w, a, "helloRes", NoTarget) ELSE 0,
         NEW v, v = AddOrUpdate(Taken(w, j), id, a),
         NEW next, next = ConfirmNode([v EXCEPT !.nodes[v.at[a]].hello = TRUE], a)
  PROVE  TrackerInv(next, {}, {}, {}, A, up)
<1>1. PICK x : x = Taken(w, j)
  OBVIOUS
<1>2. TrackerInv(x, {}, {}, {}, A, up)
  <2>1. CASE j = 0
    BY <1>1, <2>1 DEF Taken
  <2>2. CASE j # 0
    <3>1. j = Match(w, a, "helloRes", NoTarget)
      BY <2>2
    <3>2. j \in 1..Len(w.tx) /\ w.tx[j] \in Transactions /\ Fits(w.tx[j]) /\ w.tx[j].op = "helloRes"
      BY <2>2, <3>1, MatchIs DEF TrackerInv
    <3>3. PICK y : y = w.tx[j]
      OBVIOUS
    <3>4. y.key = Nobody /\ ~y.multi
      BY <3>2, <3>3, AnswerIs
    <3> QED
      BY <1>1, <3>2, <3>3, <3>4, TakenInv
  <2> QED
    BY <2>1, <2>2
<1>3. Moves(x, v) /\ TableInv(v) /\ a \in DOMAIN v.at
  BY <1>1, <1>2, AddOrUpdateMoves DEF Moves, TrackerInv
<1>4. PICK k : k = v.at[a]
  OBVIOUS
<1>5. IsTracker(v) /\ k \in DOMAIN v.nodes /\ v.nodes[k] \in Contact
  BY <1>3, <1>4 DEF TableInv, NodesInv
<1>6. PICK c : c = [v.nodes[k] EXCEPT !.hello = TRUE]
  OBVIOUS
<1>7. c \in Contact /\ c.addr = v.nodes[k].addr /\ c.id = v.nodes[k].id
  BY <1>5, <1>6 DEF Contact
<1>8. PICK u : u = [v EXCEPT !.nodes[k].hello = TRUE]
  OBVIOUS
<1>9. u = [v EXCEPT !.nodes[k] = c]
  BY <1>6, <1>8
<1>10. /\ IsTracker(u) /\ Rest(u) = Rest(v) /\ u.at = v.at /\ u.live = v.live /\ u.repl = v.repl
       /\ u.nodes = [v.nodes EXCEPT ![k] = c]
  BY ONLY <1>5, <1>9 DEF IsTracker, Rest
<1>11. Moves(v, u)
  BY <1>3, <1>5, <1>7, <1>10, SameContact
<1>12. TableInv(u)
  BY <1>11 DEF Moves
<1>13. next = ConfirmNode(u, a)
  BY <1>4, <1>8
<1>14. Moves(u, next)
  BY <1>12, <1>13, ConfirmNodeMoves
<1> QED
  BY <1>2, <1>3, <1>11, <1>14, MovesInv

\* processSearchRes: the entries are kept, the request stays out.
FindsIn(w, key, i, es, v) ==
  v = [w EXCEPT !.running[key].obs[i].entries = @ \cup es, !.running[key].obs[i].got = TRUE]
LEMMA EntriesAre ==
  ASSUME NEW w, IsTracker(w), NEW key \in DOMAIN w.running,
         NEW t \in Traversals, t = w.running[key],
         NEW i \in 1..Len(t.obs), t.obs[i] \in Observers, NEW es, NEW v,
         FindsIn(w, key, i, es, v)
  PROVE  \E u : Finds(t, i, es, u) /\ RunsAs(w, v, key, u)
<1>1. PICK e : e = t.obs[i].entries \cup es
  OBVIOUS
<1>2. PICK o, p : o = [t.obs[i] EXCEPT !.entries = e] /\ p = [o EXCEPT !.got = TRUE]
  OBVIOUS
<1>3. PICK obs, more : obs = [t.obs EXCEPT ![i] = o] /\ more = [obs EXCEPT ![i] = p]
  OBVIOUS
<1>4. PICK x, u : x = [t EXCEPT !.obs = obs] /\ u = [x EXCEPT !.obs = more]
  OBVIOUS
<1>5. PICK y : y = [w EXCEPT !.running[key] = x]
  OBVIOUS
<1>6. i \in DOMAIN t.obs
  BY LenProperties DEF Traversals
<1>7. obs[i] = o /\ x.obs = obs /\ x.obs[i] = o
  BY <1>3, <1>4, <1>6 DEF Traversals
<1>8. y.running[key] = x
  BY <1>5 DEF IsTracker
<1>9. y = [w EXCEPT !.running[key].obs[i].entries = e]
  BY <1>2, <1>3, <1>4, <1>5
<1>10. v = [y EXCEPT !.running[key].obs[i].got = TRUE]
  BY <1>1, <1>9 DEF FindsIn
<1>11. v = [y EXCEPT !.running[key] = u]
  BY <1>2, <1>3, <1>4, <1>7, <1>8, <1>10
<1>12. v = [w EXCEPT !.running[key] = u]
  BY <1>5, <1>11 DEF IsTracker
<1>13. x = [t EXCEPT !.obs[i].entries = e]
  BY <1>2, <1>3, <1>4
<1>14. u = [x EXCEPT !.obs[i].got = TRUE]
  BY <1>2, <1>3, <1>4, <1>7
<1>15. u = [t EXCEPT !.obs[i].entries = e, !.obs[i].got = TRUE]
  BY <1>13, <1>14
<1>16. Finds(t, i, es, u)
  BY <1>1, <1>15 DEF Finds
<1>17. RunsAs(w, v, key, u)
  BY ONLY IsTracker(w), key \in DOMAIN w.running, <1>12, RunsAsIs
<1> QED
  BY ONLY <1>16, <1>17

LEMMA SearchResInv ==
  ASSUME NEW w, NEW A, NEW up, TrackerInv(w, {}, {}, {}, A, up), NEW a, NEW target,
         NEW j, j = Match(w, a, "searchRes", target), j # 0, NEW x, x = w.tx[j],
         NEW es \in SUBSET Entries, NEW v, FindsIn(w, x.key, x.obs, es, v)
  PROVE  TrackerInv(v, {}, {}, {}, A, up)
<1>1. PICK key, i : key = x.key /\ i = x.obs
  OBVIOUS
<1>2. TxOK(w.tx) /\ IsTracker(w)
  BY DEF TrackerInv, TableInv
<1>3. j \in DOMAIN w.tx /\ x \in Transactions /\ Fits(x) /\ x.op = "searchRes"
  <2>1. DOMAIN w.tx = 1..Len(w.tx)
    BY <1>2, LenProperties DEF TxOK
  <2> QED
    BY <1>2, <2>1, MatchIs
<1>4. key # Nobody
  BY <1>1, <1>3, AnswerIs
<1>5. Awaits(w.running, key, i)
  BY <1>1, <1>3, <1>4 DEF TrackerInv, Linked
<1>6. PICK t : t = w.running[key]
  OBVIOUS
<1>7. key \in DOMAIN w.running /\ i \in Waiting(t)
  BY <1>5, <1>6 DEF Awaits
<1>8. t \in Traversals /\ ListOK(t) /\ CountOK(t)
  BY <1>6, <1>7, RunningIs
<1>9. i \in 1..Len(t.obs) /\ t.obs[i] \in Observers
  BY <1>7, <1>8, WaitingIs
<1>10. FindsIn(w, key, i, es, v)
  BY <1>1
<1>11. PICK u : Finds(t, i, es, u) /\ RunsAs(w, v, key, u)
  BY ONLY <1>2, <1>6, <1>7, <1>8, <1>9, <1>10, EntriesAre
<1>12. /\ u \in Traversals /\ ListOK(u) /\ CountOK(u)
       /\ Waiting(u) = Waiting(t) /\ u.who = t.who
  BY <1>7, <1>8, <1>11, FoundIs
<1> QED
  BY <1>6, <1>7, <1>11, <1>12, SameRequests

-----------------------------------------------------------------------------
(* The actions *)

\* The socket is open.
Opens(r) == r \in {"reading", "blocked"}
Readers == {"new", "reading", "blocked", "failed", "closed"}
LEMMA KadInvIs ==
  KadInv <=> TrackerInv(dht, {}, {}, {}, asked, Opens(reader)) /\ due \in BOOLEAN /\ reader \in Readers
BY DEF KadInv, Opens, Readers
LEMMA KadInvNext ==
  KadInv' <=> TrackerInv(dht', {}, {}, {}, asked', Opens(reader')) /\ due' \in BOOLEAN /\ reader' \in Readers
BY DEF KadInv, Opens, Readers

\* The reader, the clock and the searches stay.
LEMMA SameReader ==
  ASSUME KadInv, UNCHANGED <<due, reader, asked>>,
         NEW up, up = Opens(reader), TrackerInv(dht', {}, {}, {}, asked, up)
  PROVE  KadInv'
BY KadInvIs, KadInvNext

LEMMA AddSeedInv ==
  ASSUME KadInv, NEW a \in Addrs, AddSeed(a)
  PROVE  KadInv' /\ Lives(dht, dht')
<1>1. PICK up : up = Opens(reader)
  OBVIOUS
<1>2. TrackerInv(dht, {}, {}, {}, asked, up) /\ TableInv(dht)
  BY <1>1, KadInvIs DEF TrackerInv
<1>3. PICK w, v : w = Known(dht, a) /\ v = dht'
  OBVIOUS
<1>4. Moves(dht, w) /\ TableInv(w) /\ a \in DOMAIN w.at /\ w.live = dht.live
  BY <1>2, <1>3, KnownMoves DEF Moves
<1>5. PICK k : k = w.at[a]
  OBVIOUS
<1>6. IsTracker(w) /\ k \in DOMAIN w.nodes /\ w.nodes[k] \in Contact
  BY <1>4, <1>5 DEF TableInv, NodesInv
<1>7. PICK c : c = [w.nodes[k] EXCEPT !.addr = a]
  OBVIOUS
<1>8. c \in Contact /\ c.addr = a /\ c.id = w.nodes[k].id
  BY <1>6, <1>7 DEF Contact
<1>9. v = [w EXCEPT !.nodes[k].addr = a]
  BY <1>3, <1>5 DEF AddSeed
<1>10. v = [w EXCEPT !.nodes[k] = c]
  BY <1>7, <1>9
<1>11. /\ IsTracker(v) /\ Rest(v) = Rest(w) /\ v.at = w.at /\ v.live = w.live /\ v.repl = w.repl
       /\ v.nodes = [w.nodes EXCEPT ![k] = c]
  BY ONLY <1>6, <1>10 DEF IsTracker, Rest
<1>12. Moves(w, v)
  BY <1>4, <1>5, <1>8, <1>11, ToldMoves
<1>13. TrackerInv(v, {}, {}, {}, asked, up)
  BY <1>2, <1>4, <1>12, MovesInv
<1>14. UNCHANGED <<due, reader, asked>>
  BY DEF AddSeed
<1>15. KadInv'
  BY <1>1, <1>3, <1>13, <1>14, SameReader
<1> QED
  BY <1>3, <1>4, <1>11, <1>15 DEF Lives

LEMMA NodesDatIs ==
  ASSUME NEW cs, NEW edition, NEW verified, ApplyNodesDat(cs, edition, verified)
  PROVE  LET w == MeetEntries(cs, edition, verified, dht, [i \in DOMAIN cs |-> i])
         IN  dht' = IF edition = 0 /\ verified = {} THEN ConfirmAll(w, cs) ELSE w
BY DEF ApplyNodesDat, MeetEntries, ConfirmAll

LEMMA NodesDatInv ==
  ASSUME KadInv, NEW cs \in Lists, NEW edition, NEW verified,
         ApplyNodesDat(cs, edition, verified)
  PROVE  KadInv' /\ Lives(dht, dht')
<1>1. PICK up : up = Opens(reader)
  OBVIOUS
<1>2. TrackerInv(dht, {}, {}, {}, asked, up)
  BY <1>1, KadInvIs
<1>3. PICK list : list = [i \in DOMAIN cs |-> i]
  OBVIOUS
<1>4. PICK w : w = MeetEntries(cs, edition, verified, dht, list)
  OBVIOUS
<1>5. /\ TrackerInv(w, {}, {}, {}, asked, up) /\ Wider(dht, w)
      /\ \A i \in DOMAIN cs : cs[i][1] \in DOMAIN w.at
  BY <1>2, <1>3, <1>4, ApplyNodesDatInv
<1>6. PICK x : x = ConfirmAll(w, cs)
  OBVIOUS
<1>7. TrackerInv(x, {}, {}, {}, asked, up) /\ Lives(w, x)
  BY <1>5, <1>6, ConfirmAllInv
<1>8. dht' = x \/ dht' = w
  BY <1>3, <1>4, <1>6, NodesDatIs
<1>9. UNCHANGED <<due, reader, asked>>
  BY DEF ApplyNodesDat
<1>10. KadInv'
  BY <1>1, <1>5, <1>7, <1>8, <1>9, SameReader
<1> QED
  BY <1>5, <1>7, <1>8, <1>10 DEF Wider, Lives

LEMMA SetStoragePointInv ==
  ASSUME KadInv, NEW a \in Points, SetStoragePoint(a)
  PROVE  KadInv' /\ Lives(dht, dht')
<1>1. PICK up : up = Opens(reader)
  OBVIOUS
<1>2. TrackerInv(dht, {}, {}, {}, asked, up) /\ IsTracker(dht) /\ PlainOK(dht, up)
  BY <1>1, KadInvIs DEF TrackerInv, TableInv
<1>3. dht' = [dht EXCEPT !.storage = a]
  BY DEF SetStoragePoint
<1>4. /\ SameWork(dht, dht') /\ dht'.up = dht.up /\ dht'.routers = dht.routers
      /\ dht'.storage = a
  BY ONLY <1>2, <1>3 DEF SameWork, SameContacts, IsTracker
<1>5. a \in Addrs \cup {NoAddr}
  BY KadAssumption
<1>6. PlainOK(dht', up)
  BY <1>2, <1>4, <1>5 DEF PlainOK
<1>7. TrackerInv(dht', {}, {}, {}, asked, up)
  BY <1>2, <1>4, <1>6, SettingsInv
<1>8. UNCHANGED <<due, reader, asked>>
  BY DEF SetStoragePoint
<1>9. KadInv'
  BY <1>1, <1>7, <1>8, SameReader
<1> QED
  BY <1>4, <1>9 DEF SameWork, SameContacts, Lives

\* The socket is opened, or closed.
LEMMA UpInv ==
  ASSUME NEW w, NEW A, NEW up, TrackerInv(w, {}, {}, {}, A, up), NEW open,
         NEW v, v = [w EXCEPT !.up = open]
  PROVE  TrackerInv(v, {}, {}, {}, A, open) /\ SameWork(w, v) /\ v.storage = w.storage
<1>1. IsTracker(w) /\ PlainOK(w, up)
  BY DEF TrackerInv, TableInv
<1>2. /\ SameWork(w, v) /\ v.up = open /\ v.routers = w.routers /\ v.storage = w.storage
  BY ONLY <1>1, v = [w EXCEPT !.up = open] DEF SameWork, SameContacts, IsTracker
<1>3. PlainOK(v, open)
  BY <1>1, <1>2 DEF PlainOK
<1> QED
  BY <1>2, <1>3, SettingsInv

LEMMA IndexInv ==
  ASSUME NEW w, NEW A, NEW up, TrackerInv(w, {}, {}, {}, A, up), NEW index,
         NEW v, v = [w EXCEPT !.index = index]
  PROVE  TrackerInv(v, {}, {}, {}, A, up) /\ SameWork(w, v)
<1>1. IsTracker(w) /\ PlainOK(w, up)
  BY DEF TrackerInv, TableInv
<1>2. /\ SameWork(w, v) /\ v.up = w.up /\ v.routers = w.routers /\ v.storage = w.storage
  BY ONLY <1>1, v = [w EXCEPT !.index = index] DEF SameWork, SameContacts, IsTracker
<1>3. PlainOK(v, up)
  BY <1>1, <1>2 DEF PlainOK
<1> QED
  BY <1>2, <1>3, SettingsInv

\* Start opens the socket or fails to, once.
LEMMA OpenedIs ==
  ASSUME Free, reader \in Readers, NEW r \in Opened
  PROVE  /\ r \in Readers /\ r # "new" /\ r # "blocked"
         /\ Opens(r) = (r = "reading")
         /\ reader = "new" \/ r = reader
<1>1. r \in Readers /\ r # "new" /\ r # "blocked" /\ (reader = "new" \/ r = reader)
  BY DEF Free, Opened, Readers
<1>2. Opens(r) <=> r = "reading"
  BY <1>1 DEF Opens
<1>3. CASE r = "reading"
  BY <1>1, <1>2, <1>3 DEF Opens
<1>4. CASE r # "reading"
  BY <1>1, <1>2, <1>4 DEF Opens
<1> QED
  BY <1>3, <1>4

LEMMA SearchInv ==
  ASSUME KadInv, NEW kind \in {"find-sources", "find-keywords"}, NEW target \in Targets,
         Search(<<kind, target>>)
  PROVE  KadInv' /\ reader' # "new"
<1>1. PICK up : up = Opens(reader)
  OBVIOUS
<1>2. TrackerInv(dht, {}, {}, {}, asked, up) /\ due \in BOOLEAN /\ reader \in Readers
  BY <1>1, KadInvIs
<1>3. PICK key : key = <<kind, target>>
  OBVIOUS
<1>4. Search(key) /\ Free
  BY <1>3 DEF Search, Called
<1>5. /\ key \in {"find-sources", "find-keywords"} \X Ids /\ key \in Kinds \X Ids
      /\ key[1] \in Searching /\ SearchOf(key) = key
  <2>1. target \in Ids
    BY KadAssumption
  <2>2. /\ kind \in Kinds /\ kind \in Searching /\ SearchOf(<<kind, target>>) = <<kind, target>>
        /\ <<kind, target>>[1] = kind
    BY DEF Kinds, Direct, Searching, SearchOf
  <2> QED
    BY <1>3, <2>1, <2>2
<1>6. PICK r \in Opened :
        /\ reader' = r
        /\ IF \/ r # reader /\ r = "failed"
              \/ DOMAIN dht.at = {} /\ dht.routers = {}
              \/ key \in DOMAIN dht.running
           THEN dht' = Up(r) /\ UNCHANGED asked
           ELSE /\ asked' = Append(asked, key)
                /\ dht' = Lookup([Up(r) EXCEPT !.answers = Append(@, 0)], key, Len(asked) + 1)
  BY <1>4 DEF Search, Accepted
<1>7. PICK open : open = Opens(r)
  OBVIOUS
<1>8. r \in Readers /\ r # "new" /\ r # "blocked" /\ open = (r = "reading")
  BY <1>2, <1>4, <1>7, OpenedIs
<1>9. PICK v : v = Up(r)
  OBVIOUS
<1>10. v = [dht EXCEPT !.up = open]
  BY <1>8, <1>9 DEF Up
<1>11. TrackerInv(v, {}, {}, {}, asked, open) /\ v.running = dht.running
  BY <1>2, <1>10, UpInv DEF SameWork
<1>12. due' = due
  BY <1>4 DEF Search
<1>13. CASE dht' = Up(r) /\ UNCHANGED asked
  BY <1>2, <1>6, <1>7, <1>8, <1>9, <1>11, <1>12, <1>13, KadInvNext
<1>14. ASSUME key \notin DOMAIN dht.running, asked' = Append(asked, key),
              dht' = Lookup([Up(r) EXCEPT !.answers = Append(@, 0)], key, Len(asked) + 1)
       PROVE  KadInv' /\ reader' # "new"
  <2>1. PICK u : u = [v EXCEPT !.answers = Append(@, 0)]
    OBVIOUS
  <2>2. PICK A, n, M : A = Append(asked, key) /\ n = Len(asked) + 1 /\ M = {n}
    OBVIOUS
  <2>3. TrackerInv(u, {}, {}, {n}, A, open) /\ u.running = v.running
    BY <1>5, <1>11, <2>1, <2>2, AcceptedInv
  <2>4. TrackerInv(u, {}, {}, M, A, open)
    BY <2>2, <2>3
  <2>5. A[n] = key /\ n \in Nat
    <3>1. asked \in Seq({"find-sources", "find-keywords"} \X Ids)
      BY <1>2 DEF TrackerInv, SearchOK
    <3> QED
      BY <1>5, <2>2, <3>1, AppendIs, LenProperties
  <2>6. IF key[1] \in Searching
        THEN n \in M /\ A[n] = SearchOf(key) /\ key \notin DOMAIN u.running ELSE n = 0
    BY <1>5, <1>11, <1>14, <2>2, <2>3, <2>5
  <2>7. dht' = Lookup(u, key, n)
    BY <1>9, <1>14, <2>1, <2>2
  <2>8. PICK N : N = M \ {n}
    OBVIOUS
  <2>9. TrackerInv(dht', {}, {}, N, A, open)
    BY <1>5, <2>4, <2>5, <2>6, <2>7, <2>8, LookupInv
  <2>10. N = {} /\ asked' = A
    BY <1>14, <2>2, <2>8
  <2> QED
    BY <1>2, <1>6, <1>7, <1>8, <1>12, <2>9, <2>10, KadInvNext
<1> QED
  BY <1>6, <1>13, <1>14

LEMMA PublishInv ==
  ASSUME KadInv, NEW what, NEW target, NEW e, Publish(what, target, e)
  PROVE  KadInv' /\ reader' # "new"
<1>1. PICK up : up = Opens(reader)
  OBVIOUS
<1>2. TrackerInv(dht, {}, {}, {}, asked, up) /\ due \in BOOLEAN /\ reader \in Readers
  BY <1>1, KadInvIs
<1>3. Free /\ UNCHANGED <<due, asked>>
  BY DEF Publish, Called
<1>4. PICK r \in Opened :
        /\ reader' = r
        /\ dht' = IF r # reader /\ r = "failed" THEN dht
                  ELSE [Up(r) EXCEPT !.index[what] = @ \cup {<<target, e>>}]
  BY DEF Publish
<1>5. PICK open : open = Opens(r)
  OBVIOUS
<1>6. /\ r \in Readers /\ r # "new" /\ r # "blocked" /\ open = (r = "reading")
      /\ reader = "new" \/ r = reader
  BY <1>2, <1>3, <1>5, OpenedIs
<1>7. CASE r # reader /\ r = "failed"
  <2>1. dht' = dht /\ open = up
    BY <1>1, <1>4, <1>5, <1>6, <1>7 DEF Opens
  <2> QED
    BY <1>2, <1>3, <1>4, <1>5, <1>6, <2>1, KadInvNext
<1>8. CASE ~(r # reader /\ r = "failed")
  <2>1. PICK v : v = Up(r)
    OBVIOUS
  <2>2. v = [dht EXCEPT !.up = open]
    BY <1>6, <2>1 DEF Up
  <2>3. TrackerInv(v, {}, {}, {}, asked, open)
    BY <1>2, <2>2, UpInv
  <2>4. PICK index : index = [v.index EXCEPT ![what] = @ \cup {<<target, e>>}]
    OBVIOUS
  <2>5. dht' = [v EXCEPT !.index = index]
    BY <1>4, <1>8, <2>1, <2>4
  <2>6. TrackerInv(dht', {}, {}, {}, asked, open)
    BY <2>3, <2>5, IndexInv
  <2> QED
    BY <1>2, <1>3, <1>4, <1>5, <1>6, <2>6, KadInvNext
<1> QED
  BY <1>7, <1>8

LEMMA CloseInv ==
  ASSUME KadInv, Close
  PROVE  KadInv' /\ reader' # "new"
<1>1. PICK up : up = Opens(reader)
  OBVIOUS
<1>2. TrackerInv(dht, {}, {}, {}, asked, up) /\ due \in BOOLEAN
  BY <1>1, KadInvIs
<1>3. reader' = "closed" /\ dht' = [dht EXCEPT !.up = FALSE] /\ UNCHANGED <<due, asked>>
  BY DEF Close
<1>4. TrackerInv(dht', {}, {}, {}, asked, FALSE)
  BY <1>2, <1>3, UpInv
<1>5. Opens(reader') = FALSE /\ reader' \in Readers
  BY <1>3 DEF Opens, Readers
<1> QED
  BY <1>2, <1>3, <1>4, <1>5, KadInvNext

LEMMA RestartInv ==
  ASSUME KadInv, Restart
  PROVE  KadInv'
<1>1. TableInv(dht) /\ PlainOK(dht, Opens(reader)) /\ NodesInv(dht)
  BY KadInvIs DEF TrackerInv, TableInv
<1>2. PICK order \in SetToSeqs(Range(dht.at)) : dht' = Restore(dht, order)
  BY DEF Restart
<1>3. Restorable(dht, order)
  BY <1>1, <1>2, MapRestorable
<1>4. TrackerInv(dht', {}, {}, {}, << >>, FALSE)
  BY <1>1, <1>2, <1>3, RestoredInv DEF PlainOK
<1>5. reader' = "new" /\ asked' = << >> /\ due' \in BOOLEAN
  BY DEF Restart
<1>6. Opens(reader') = FALSE /\ reader' \in Readers
  BY <1>5 DEF Opens, Readers
<1> QED
  BY <1>4, <1>5, <1>6, KadInvNext

\* The answers are ends.
LEMMA AnswerEnds ==
  ASSUME NEW told, NEW j, NEW cs, Answered(told, j, cs), Reading
  PROVE  /\ Ends(dht, j, told.w, cs, dht', told.stuck)
         /\ reader' \in {"reading", "blocked"}
BY DEF Answered, Ends, Reading

LEMMA ReaderInv ==
  ASSUME KadInv, Reading, reader' \in {"reading", "blocked"}, UNCHANGED <<due, asked>>,
         TrackerInv(dht, {}, {}, {}, asked, TRUE) => TrackerInv(dht', {}, {}, {}, asked, TRUE)
  PROVE  KadInv' /\ reader' # "new"
<1>1. TrackerInv(dht, {}, {}, {}, asked, Opens(reader)) /\ due \in BOOLEAN
  BY KadInvIs
<1>2. Opens(reader) = TRUE /\ Opens(reader') = TRUE /\ reader' \in Readers /\ reader' # "new"
  BY DEF Opens, Reading, Readers
<1> QED
  BY <1>1, <1>2, KadInvNext

\* A contact, by its two parts
LEMMA ContactIs ==
  ASSUME NEW c \in Contacts
  PROVE  c[1] \in Addrs /\ c[2] \in Ids \cup {NoId}
BY KadAssumption

LEMMA BootstrapResStep ==
  ASSUME KadInv, NEW from \in Contacts, NEW cs \in Lists, BootstrapRes(from, cs)
  PROVE  KadInv' /\ reader' # "new"
<1>1. PICK a, id : a = from[1] /\ id = from[2]
  OBVIOUS
<1>2. a \in Addrs /\ id \in Ids \cup {NoId}
  BY <1>1, ContactIs
<1>3. PICK j : j = Match(dht, a, "bootstrapRes", NoTarget)
  OBVIOUS
<1>4. PICK v : v = AddOrUpdate(Taken(dht, j), id, a)
  OBVIOUS
<1>5. PICK told : told = Tell(ConfirmNode(v, a), cs)
  OBVIOUS
<1>6. Answered(told, j, cs) /\ Reading /\ UNCHANGED <<due, asked>>
  BY <1>1, <1>3, <1>4, <1>5 DEF BootstrapRes, Came
<1>7. Ends(dht, j, told.w, cs, dht', told.stuck) /\ reader' \in {"reading", "blocked"}
  BY <1>6, AnswerEnds
<1>8. TrackerInv(dht, {}, {}, {}, asked, TRUE) => TrackerInv(dht', {}, {}, {}, asked, TRUE)
  BY <1>2, <1>3, <1>4, <1>5, <1>7, BootstrapResInv
<1> QED
  BY <1>6, <1>7, <1>8, ReaderInv

LEMMA FindResStep ==
  ASSUME KadInv, NEW a \in Addrs, NEW target, NEW cs \in Lists, FindRes(a, target, cs)
  PROVE  KadInv' /\ reader' # "new"
<1>1. PICK j : j = Match(dht, a, "res", target)
  OBVIOUS
<1>2. PICK told : told = Tell(Taken(dht, j), cs)
  OBVIOUS
<1>3. PICK more : more = [told EXCEPT !.w = ConfirmNode(@, a)]
  OBVIOUS
<1>4. Answered(more, j, cs) /\ Reading /\ UNCHANGED <<due, asked>>
  BY <1>1, <1>2, <1>3 DEF FindRes, Came
<1>5. Ends(dht, j, more.w, cs, dht', more.stuck) /\ reader' \in {"reading", "blocked"}
  BY <1>4, AnswerEnds
<1>6. ASSUME TrackerInv(dht, {}, {}, {}, asked, TRUE)
      PROVE  TrackerInv(dht', {}, {}, {}, asked, TRUE)
  <2>1. TableInv(Taken(dht, j))
    <3>1. PICK x : x = Taken(dht, j)
      OBVIOUS
    <3>2. Owing(dht, j, x, asked, TRUE)
      BY ONLY <1>1, <1>6, <3>1, TakenOwing
    <3> QED
      BY <3>1, <3>2, OwingTable
  <2>2. told = [w |-> told.w, stuck |-> told.stuck]
    BY <1>2, <2>1, TellMoves
  <2>3. more.w = ConfirmNode(told.w, a) /\ more.stuck = told.stuck
    BY <1>3, <2>2
  <2>4. Ends(dht, j, ConfirmNode(told.w, a), cs, dht', told.stuck)
    BY <1>5, <2>3
  <2> QED
    BY <1>1, <1>2, <1>6, <2>4, FindResInv
<1> QED
  BY <1>4, <1>5, <1>6, ReaderInv

LEMMA FirewalledResStep ==
  ASSUME KadInv, NEW a \in Addrs, FirewalledRes(a)
  PROVE  KadInv' /\ reader' # "new"
<1>1. PICK j : j = Match(dht, a, "firewalledRes", NoTarget)
  OBVIOUS
<1>2. PICK v : v = ConfirmNode(Taken(dht, j), a)
  OBVIOUS
<1>3. PICK told : told = [w |-> v, stuck |-> FALSE]
  OBVIOUS
<1>4. Answered(told, j, << >>) /\ Reading /\ UNCHANGED <<due, asked>>
  BY <1>1, <1>2, <1>3 DEF FirewalledRes, Came
<1>5. Ends(dht, j, told.w, << >>, dht', told.stuck) /\ reader' \in {"reading", "blocked"}
  BY <1>4, AnswerEnds
<1>6. Ends(dht, j, v, << >>, dht', FALSE)
  BY <1>3, <1>5
<1>7. TrackerInv(dht, {}, {}, {}, asked, TRUE) => TrackerInv(dht', {}, {}, {}, asked, TRUE)
  BY <1>1, <1>2, <1>6, FirewalledResInv
<1> QED
  BY <1>4, <1>5, <1>7, ReaderInv

LEMMA SearchResStep ==
  ASSUME KadInv, NEW a, NEW target, NEW es \in SUBSET Entries, SearchRes(a, target, es)
  PROVE  KadInv' /\ reader' # "new"
<1>1. PICK j : j = Match(dht, a, "searchRes", target)
  OBVIOUS
<1>2. PICK x : x = dht.tx[j]
  OBVIOUS
<1>3. /\ Reading /\ j # 0 /\ UNCHANGED <<due, reader, asked>>
      /\ FindsIn(dht, x.key, x.obs, es, dht')
  BY <1>1, <1>2 DEF SearchRes, Came, FindsIn
<1>4. TrackerInv(dht, {}, {}, {}, asked, TRUE) => TrackerInv(dht', {}, {}, {}, asked, TRUE)
  BY <1>1, <1>2, <1>3, SearchResInv
<1>5. reader' \in {"reading", "blocked"}
  BY <1>3 DEF Reading
<1> QED
  BY <1>3, <1>4, <1>5, ReaderInv

LEMMA HelloStep ==
  ASSUME KadInv, NEW from \in Contacts, NEW isAnswer, Hello(from, isAnswer)
  PROVE  KadInv' /\ reader' # "new"
<1>1. PICK a, id : a = from[1] /\ id = from[2]
  OBVIOUS
<1>2. a \in Addrs /\ id \in Ids \cup {NoId}
  BY <1>1, ContactIs
<1>3. PICK j : j = IF isAnswer THEN Match(dht, a, "helloRes", NoTarget) ELSE 0
  OBVIOUS
<1>4. PICK v : v = AddOrUpdate(Taken(dht, j), id, a)
  OBVIOUS
<1>5. /\ dht' = ConfirmNode([v EXCEPT !.nodes[v.at[a]].hello = TRUE], a)
      /\ Reading /\ UNCHANGED <<due, reader, asked>>
  BY <1>1, <1>3, <1>4 DEF Hello, Came
<1>6. TrackerInv(dht, {}, {}, {}, asked, TRUE) => TrackerInv(dht', {}, {}, {}, asked, TRUE)
  BY <1>2, <1>3, <1>4, <1>5, HelloInv
<1>7. reader' \in {"reading", "blocked"}
  BY <1>5 DEF Reading
<1> QED
  BY <1>5, <1>6, <1>7, ReaderInv

LEMMA PublishReqStep ==
  ASSUME KadInv, NEW what, NEW target, NEW e, PublishReq(what, target, e)
  PROVE  KadInv' /\ reader' # "new"
<1>1. PICK index : index = [dht.index EXCEPT ![what] = @ \cup {<<target, e>>}]
  OBVIOUS
<1>2. Reading /\ UNCHANGED <<due, reader, asked>> /\ dht' = [dht EXCEPT !.index = index]
  BY <1>1 DEF PublishReq, Came
<1>3. TrackerInv(dht, {}, {}, {}, asked, TRUE) => TrackerInv(dht', {}, {}, {}, asked, TRUE)
  BY <1>2, IndexInv
<1>4. reader' \in {"reading", "blocked"}
  BY <1>2 DEF Reading
<1> QED
  BY <1>2, <1>3, <1>4, ReaderInv

LEMMA PongStep ==
  ASSUME KadInv, NEW a \in Addrs, Pong(a)
  PROVE  KadInv' /\ reader' # "new"
<1>1. Reading /\ UNCHANGED <<due, reader, asked>> /\ dht' = ConfirmNode(dht, a)
  BY DEF Pong, Came
<1>2. TrackerInv(dht, {}, {}, {}, asked, TRUE) => TrackerInv(dht', {}, {}, {}, asked, TRUE)
  BY <1>1, ConfirmNodeMoves, MovesInv DEF TrackerInv
<1>3. reader' \in {"reading", "blocked"}
  BY <1>1 DEF Reading
<1> QED
  BY <1>1, <1>2, <1>3, ReaderInv

LEMMA TickStep ==
  ASSUME KadInv, NEW e \in 0..Len(dht.tx), NEW s \in e..Len(dht.tx), NEW S, Tick(e, s, S)
  PROVE  KadInv' /\ reader' # "new"
<1>1. PICK w : w = Expire(dht, e, s)
  OBVIOUS
<1>2. /\ Reading /\ UNCHANGED <<reader, asked>> /\ dht' = Maintain(w, S)
      /\ due' = (due /\ ~First(w))
  BY <1>1 DEF Tick
<1>3. TrackerInv(dht, {}, {}, {}, asked, Opens(reader)) /\ reader \in Readers
  BY KadInvIs
<1>4. PICK up : up = Opens(reader)
  OBVIOUS
<1>5. TrackerInv(w, {}, {}, {}, asked, up)
  BY <1>1, <1>3, <1>4, ExpireInv
<1>6. TrackerInv(dht', {}, {}, {}, asked, up)
  BY <1>2, <1>5, MaintainInv
<1>7. due' \in BOOLEAN
  BY <1>2
<1> QED
  BY <1>2, <1>3, <1>4, <1>6, <1>7, KadInvNext DEF Reading

LEMMA StutterStep ==
  ASSUME KadInv, UNCHANGED vars
  PROVE  KadInv'
BY DEF vars, KadInv

\* What the steps of a thread that has the tracker to itself keep
LEMMA AloneStep ==
  ASSUME KadInv, Alone
  PROVE  KadInv'
<1>1. CASE API
  BY <1>1, AddSeedInv, NodesDatInv, SetStoragePointInv, SearchInv, PublishInv, CloseInv,
     RestartInv DEF API
<1>2. CASE Packet
  BY <1>2, BootstrapResStep, FindResStep, SearchResStep, FirewalledResStep, PongStep,
     HelloStep, PublishReqStep DEF Packet
<1>3. CASE Timeouts
  BY <1>3, TickStep DEF Timeouts
<1> QED
  BY <1>1, <1>2, <1>3 DEF Alone

LEMMA NextInv ==
  ASSUME AloneInv, [Next]_vars
  PROVE  AloneInv'
<1>1. CASE UNCHANGED vars
  <2>1. overlapped' = overlapped
    BY <1>1 DEF vars
  <2>2. KadInv => KadInv'
    BY <1>1, StutterStep
  <2> QED
    BY <2>1, <2>2 DEF AloneInv
<1>2. CASE Alone
  <2>1. overlapped' = overlapped
    BY <1>2 DEF Alone
  <2>2. KadInv => KadInv'
    BY <1>2, AloneStep
  <2> QED
    BY <2>1, <2>2 DEF AloneInv
<1>3. CASE Overlaps
  <2>1. overlapped' = TRUE
    BY <1>3 DEF Overlaps, SearchOverlaps, AddOverlaps
  <2> QED
    BY <2>1 DEF AloneInv
<1> QED
  BY <1>1, <1>2, <1>3 DEF Next

\* The table, the transactions, the traversals and the searches of a tracker
\* agree after each packet, tick and call (dht_tracker.go:24, kad_rpc.go:65,
\* kad_traversal.go:216), as long as no two threads were at work in it at once:
\* a search does without mu (dht_tracker.go:176), and so does the tick (191).
THEOREM Inv ==
  Spec => []AloneInv
<1>1. Init => AloneInv
  <2>1. Init => overlapped = FALSE
    BY DEF Init
  <2> QED
    BY <2>1, InitInv DEF AloneInv
<1>2. AloneInv /\ [Next]_vars => AloneInv'
  BY NextInv
<1> QED
  BY <1>1, <1>2, PTL DEF Spec

-----------------------------------------------------------------------------
(* What the invariant says of a tracker *)

\* The fields of the tracker keep their types, calls and packets one at a time:
\* dht_tracker.go:24 and the structures it holds.
THEOREM Typed ==
  Spec => []TypeOK
<1>1. ASSUME KadInv PROVE FieldsOK
  <2>1. /\ NodesInv(dht) /\ PlainOK(dht, reader \in {"reading", "blocked"})
        /\ RunOK(dht.running, {}) /\ SearchOK(dht.running, dht.answers, asked, {})
        /\ due \in BOOLEAN /\ reader \in {"new", "reading", "blocked", "failed", "closed"}
    BY <1>1 DEF KadInv, TrackerInv, TableInv
  <2>2. ASSUME NEW key \in DOMAIN dht.running
        PROVE  /\ key[1] \in Kinds /\ key[2] \in Ids
               /\ ToSet(dht.running[key].order) \subseteq DOMAIN dht.running[key].obs
    <3>1. ListOK(dht.running[key]) /\ key \in Kinds \X Ids
      BY <2>1 DEF RunOK
    <3> QED
      BY <3>1, ToSetIs DEF ListOK, ToSet
  <2>3. Len(asked) = Len(dht.answers)
    BY <2>1 DEF SearchOK
  <2> QED
    BY <2>1, <2>2, <2>3 DEF FieldsOK, NodesInv, PlainOK
<1>2. AloneInv => TypeOK
  BY <1>1 DEF AloneInv, TypeOK
<1> QED
  BY <1>2, Inv, PTL

\* The routing table stays within its bounds, whatever contacts claim to be and
\* whichever contact is found under the identifier or the address of another:
\* kad_routing.go:106 and 163. Calls and packets one at a time.
THEOREM Bounds ==
  Spec => []TableBounded
<1>1. ASSUME KadInv PROVE Bounded(dht)
  BY <1>1, InvBounds DEF KadInv, TrackerInv
<1>2. AloneInv => TableBounded
  BY <1>1 DEF AloneInv, TableBounded
<1> QED
  BY <1>2, Inv, PTL

LEMMA SameNumber ==
  ASSUME NEW S, NEW T, IsFiniteSet(S), NEW f \in [S -> T],
         \A x, y \in S : f[x] = f[y] => x = y, \A t \in T : \E x \in S : f[x] = t
  PROVE  Cardinality(S) = Cardinality(T)
<1>1. f \in Bijection(S, T)
  BY DEF Bijection, Injection, Surjection, IsInjective
<1>2. ExistsBijection(S, T)
  BY <1>1 DEF ExistsBijection
<1> QED
  BY <1>2, FS_Bijection

\* The transactions of a traversal are as many as the observers it waits for.
LEMMA OutstandingIs ==
  ASSUME KadInv, NEW key \in DOMAIN dht.running, NEW t, t = dht.running[key]
  PROVE  /\ Cardinality(Outstanding(key)) = Cardinality(Waiting(t))
         /\ Cardinality({j \in Outstanding(key) : t.obs[dht.tx[j].obs].short})
              = Cardinality(SlowOnes(t))
<1>1. PICK tx, run : tx = dht.tx /\ run = dht.running
  OBVIOUS
<1>2. TxOK(tx) /\ RunOK(run, {}) /\ Linked(tx, run, {})
  BY <1>1 DEF KadInv, TrackerInv
<1>3. key # Nobody
  BY <1>1, <1>2, NobodyAssumption DEF RunOK
<1>4. PICK S : S = Outstanding(key)
  OBVIOUS
<1>5. S = {j \in DOMAIN tx : tx[j].key = key}
  BY <1>1, <1>4 DEF Outstanding
<1>6. IsFiniteSet(S)
  <2>1. DOMAIN tx = 1..Len(tx) /\ Len(tx) \in Nat
    BY <1>2, LenProperties DEF TxOK
  <2>2. IsFiniteSet(DOMAIN tx)
    BY <2>1, FS_Interval
  <2> QED
    BY <1>5, <2>2, FS_Subset
<1>7. \A j \in S : tx[j].obs \in Waiting(t)
  BY <1>1, <1>2, <1>3, <1>5 DEF Linked, Awaits
<1>8. \A i, j \in S : tx[i].obs = tx[j].obs => i = j
  BY <1>2, <1>3, <1>5 DEF Linked
<1>9. \A i \in Waiting(t) : \E j \in S : tx[j].obs = i
  BY <1>1, <1>2, <1>5 DEF Linked
<1> DEFINE U == {j \in S : t.obs[tx[j].obs].short}
<1>10. Cardinality(S) = Cardinality(Waiting(t))
  <2> DEFINE f == [j \in S |-> tx[j].obs]
  <2>1. f \in [S -> Waiting(t)]
    BY <1>7
  <2>2. \A i, j \in S : f[i] = f[j] => i = j
    BY <1>8
  <2>3. \A i \in Waiting(t) : \E j \in S : f[j] = i
    BY <1>9
  <2> HIDE DEF f
  <2> QED
    BY <1>6, <2>1, <2>2, <2>3, SameNumber
<1>11. Cardinality(U) = Cardinality(SlowOnes(t))
  <2> DEFINE f == [j \in U |-> tx[j].obs]
  <2>1. IsFiniteSet(U)
    BY <1>6, FS_Subset
  <2>2. f \in [U -> SlowOnes(t)]
    BY <1>7 DEF SlowOnes
  <2>3. \A i, j \in U : f[i] = f[j] => i = j
    BY <1>8
  <2>4. \A i \in SlowOnes(t) : \E j \in U : f[j] = i
    BY <1>9 DEF SlowOnes
  <2> HIDE DEF f, U
  <2> QED
    BY <2>1, <2>2, <2>3, <2>4, SameNumber
<1> QED
  BY <1>1, <1>4, <1>10, <1>11

\* The counts of a traversal are those of its transactions, whatever is answered,
\* late, lost or answered twice (kad_traversal.go:296, 328), as long as no two
\* threads were in the tracker at once: the requests of a search that runs beside
\* the reader may be lost or answered before they are counted.
THEOREM Counts ==
  Spec => []CountsMatch
<1>1. ASSUME KadInv PROVE TransactionsMatch /\ BranchMatches
  <2>1. PICK tx, run : tx = dht.tx /\ run = dht.running
    OBVIOUS
  <2>2. TxOK(tx) /\ RunOK(run, {}) /\ Linked(tx, run, {})
    BY <1>1, <2>1 DEF KadInv, TrackerInv
  <2>3. ASSUME NEW key \in DOMAIN dht.running
        PROVE  /\ dht.running[key].out = Cardinality(Outstanding(key))
               /\ dht.running[key].out > 0
               /\ dht.running[key].branch =
                    Branching + Cardinality({j \in Outstanding(key) :
                                               dht.running[key].obs[dht.tx[j].obs].short})
    <3>1. PICK t : t = dht.running[key]
      OBVIOUS
    <3>2. t \in Traversals /\ CountOK(t) /\ t.out # 0
      BY <2>1, <2>2, <3>1 DEF RunOK
    <3>3. t.out \in Nat
      BY <3>2 DEF Traversals
    <3>4. /\ Cardinality(Outstanding(key)) = Cardinality(Waiting(t))
          /\ Cardinality({j \in Outstanding(key) : t.obs[dht.tx[j].obs].short})
               = Cardinality(SlowOnes(t))
      BY <1>1, <3>1, OutstandingIs
    <3>5. t.out = Cardinality(Waiting(t)) /\ t.branch = Branching + Cardinality(SlowOnes(t))
      BY <3>2 DEF CountOK
    <3>6. t.out = Cardinality(Outstanding(key)) /\ t.out > 0
      BY <3>2, <3>3, <3>4, <3>5
    <3>7. t.branch = Branching + Cardinality({j \in Outstanding(key) :
                                                t.obs[dht.tx[j].obs].short})
      BY <3>4, <3>5
    <3> QED
      BY <3>1, <3>6, <3>7
  <2>4. ASSUME NEW j \in DOMAIN dht.tx, dht.tx[j].key # Nobody
        PROVE  /\ dht.tx[j].key \in DOMAIN dht.running
               /\ ~dht.running[dht.tx[j].key].obs[dht.tx[j].obs].done
               /\ \A i \in Outstanding(dht.tx[j].key) :
                    dht.tx[i].obs = dht.tx[j].obs => i = j
    <3>1. Awaits(run, tx[j].key, tx[j].obs)
      BY <2>1, <2>2, <2>4 DEF Linked
    <3>2. \A i \in DOMAIN tx : tx[i].key = tx[j].key /\ tx[i].obs = tx[j].obs => i = j
      BY <2>1, <2>2, <2>4 DEF Linked
    <3> QED
      BY <2>1, <3>1, <3>2 DEF Awaits, Waiting, Out, Outstanding
  <2> QED
    BY <2>3, <2>4 DEF TransactionsMatch, BranchMatches
<1>2. AloneInv => CountsMatch
  BY <1>1 DEF AloneInv, CountsMatch
<1> QED
  BY <1>2, Inv, PTL

\* A search that was accepted is under way or has called its listener once, never
\* both; neither only if it had a rival (kad_traversal.go:363 and 387). As long as
\* no two threads were in the tracker at once.
THEOREM Answers ==
  Spec => []SearchesAnswered
<1>1. ASSUME KadInv, NEW n \in DOMAIN asked
      PROVE  LET under == {key \in DOMAIN dht.running : dht.running[key].who = n}
             IN  dht.answers[n] + Cardinality(under) \in IF Rival(n) THEN 0..1 ELSE {1}
  <2>1. PICK run, answers, A : run = dht.running /\ answers = dht.answers /\ A = asked
    OBVIOUS
  <2>2. SearchOK(run, answers, A, {})
    BY <1>1, <2>1 DEF KadInv, TrackerInv
  <2>3. n # 0 /\ n \in DOMAIN A /\ answers[n] \in {0, 1}
    BY <1>1, <2>1, <2>2, SearchIs
  <2>4. PICK under : under = {key \in DOMAIN run : run[key].who = n}
    OBVIOUS
  <2>5. \A j, k \in under : j = k /\ answers[n] = 0
    BY <2>2, <2>3, <2>4 DEF SearchOK
  <2>6. answers[n] = 1 \/ Rival(n) \/ under # {}
    BY <2>1, <2>2, <2>3, <2>4 DEF SearchOK, RivalIn, Rival
  <2>7. CASE under = {}
    <3>1. Cardinality(under) = 0
      BY <2>7, FS_EmptySet
    <3> QED
      BY <2>1, <2>3, <2>4, <2>6, <2>7, <3>1
  <2>8. CASE under # {}
    <3>1. PICK k : under = {k}
      BY <2>5, <2>8
    <3>2. Cardinality(under) = 1 /\ answers[n] = 0
      BY <2>5, <3>1, FS_Singleton
    <3> QED
      BY <2>1, <2>4, <3>2
  <2> QED
    BY <2>7, <2>8
<1>2. AloneInv => SearchesAnswered
  BY <1>1 DEF AloneInv, SearchesAnswered
<1> QED
  BY <1>2, Inv, PTL

\* The contact that the map has for the address of a live contact has an
\* identifier, and so comes back into the table.
LEMMA RestartLives ==
  ASSUME KadInv, Restart, Alive(dht)
  PROVE  Alive(dht')
<1>1. NodesInv(dht) /\ ListsInv(dht)
  BY DEF KadInv, TrackerInv, TableInv
<1>2. PICK b \in Buckets : dht.live[b] # << >>
  BY DEF Alive
<1>3. PICK k \in Named(dht) : TRUE
  <2>1. PICK s : s = dht.live[b]
    OBVIOUS
  <2>2. s \in Seq(Keys) /\ ToSet(s) \subseteq Named(dht)
    BY <1>1, <2>1 DEF ListsInv, BucketOK
  <2>3. Len(s) > 0 /\ Len(s) \in Nat /\ DOMAIN s = 1..Len(s)
    BY <1>2, <2>1, <2>2, NotEmpty, LenProperties
  <2>4. s[1] \in ToSet(s)
    BY <2>3 DEF ToSet
  <2> QED
    BY <2>2, <2>4
<1>4. PICK a, m : a = dht.nodes[k].addr /\ m = dht.at[a]
  OBVIOUS
<1>5. k \in DOMAIN dht.nodes /\ a \in DOMAIN dht.at /\ m \in DOMAIN dht.nodes
  BY <1>1, <1>4 DEF NodesInv, Named
<1>6. m \in Named(dht)
  <2>1. SUFFICES ASSUME m \notin Named(dht) PROVE FALSE
    OBVIOUS
  <2>2. Sole(dht, m)
    BY <1>1, <1>5, <2>1 DEF NodesInv
  <2>3. dht.nodes[m].addr = a
    BY <1>4, <1>5, <2>2 DEF Sole
  <2>4. k = m
    BY <1>4, <1>5, <2>2, <2>3 DEF Sole
  <2> QED
    BY <1>3, <2>1, <2>4
<1>7. PICK order \in SetToSeqs(Range(dht.at)) : dht' = Restore(dht, order)
  BY DEF Restart
<1>8. Restorable(dht, order)
  BY <1>1, <1>7, MapRestorable
<1>9. PICK i \in 1..Len(order) : order[i] = m
  BY <1>1, <1>4, <1>5, <1>7, MapRestorable
<1>10. Back(dht, order, Len(order), dht')
  BY <1>7, <1>8, RestoreIs
<1>11. dht.nodes[order[i]].id # NoId
  BY <1>6, <1>9 DEF Named
<1> QED
  BY <1>9, <1>10, <1>11 DEF Back

\* The model stops at an overlap.
LEMMA NotAfter ==
  ASSUME Alone
  PROVE  ~overlapped
<1>1. CASE API
  BY <1>1 DEF API, AddSeed, ApplyNodesDat, SetStoragePoint, Search, Publish, Close, Restart,
              Called, Free
<1>2. CASE Packet
  <2>1. \A a, cs : BootstrapRes(a, cs) => Reading
    BY DEF BootstrapRes, Came
  <2>2. \A a, target, cs : FindRes(a, target, cs) => Reading
    BY DEF FindRes, Came
  <2>3. ASSUME NEW a, NEW target, NEW es, SearchRes(a, target, es)
        PROVE  Reading
    <3>1. PICK j : j = Match(dht, a, "searchRes", target)
      OBVIOUS
    <3>2. PICK x : x = dht.tx[j]
      OBVIOUS
    <3>3. Reading /\ FindsIn(dht, x.key, x.obs, es, dht')
      BY <2>3, <3>1, <3>2 DEF SearchRes, Came, FindsIn
    <3> QED
      BY <3>3
  <2>4. \A a : FirewalledRes(a) \/ Pong(a) => Reading
    BY DEF FirewalledRes, Pong, Came
  <2>5. \A a, isAnswer : Hello(a, isAnswer) => Reading
    BY DEF Hello, Came
  <2>6. \A what, target, e : PublishReq(what, target, e) => Reading
    BY DEF PublishReq, Came
  <2>7. Reading
    BY <1>2, <2>1, <2>2, <2>3, <2>4, <2>5, <2>6 DEF Packet
  <2> QED
    BY <2>7 DEF Reading
<1>3. CASE Timeouts
  BY <1>3 DEF Timeouts, Tick, Reading
<1> QED
  BY <1>1, <1>2, <1>3 DEF Alone

\* A tracker that had live contacts has some after a restart and until it is
\* opened, whichever contacts share an address or an identifier by then:
\* dht_tracker.go:689.
THEOREM RestartKeeps ==
  Spec => RestartKeepsContacts
<1>1. ASSUME KadInv, KadInv', Alive(dht), Alone, reader' = "new"
      PROVE  Alive(dht')
  <2>1. CASE API
    <3>1. Lives(dht, dht') \/ Restart
      BY <1>1, <2>1, AddSeedInv, NodesDatInv, SetStoragePointInv, SearchInv, PublishInv,
         CloseInv DEF API
    <3>2. CASE Lives(dht, dht')
      BY <1>1, <3>2 DEF Lives, Alive
    <3>3. CASE Restart
      BY <1>1, <3>3, RestartLives
    <3> QED
      BY <3>1, <3>2, <3>3
  <2>2. CASE Packet
    BY <1>1, <2>2, BootstrapResStep, FindResStep, SearchResStep, FirewalledResStep,
       PongStep, HelloStep, PublishReqStep DEF Packet
  <2>3. CASE Timeouts
    BY <1>1, <2>3, TickStep DEF Timeouts
  <2> QED
    BY <1>1, <2>1, <2>2, <2>3 DEF Alone
<1>2. ASSUME KadInv
      PROVE  LiveCount(dht) > 0 <=> Alive(dht)
  BY <1>2, LiveCountIs DEF KadInv, TrackerInv, TableInv, ListsInv
<1>3. ASSUME KadInv'
      PROVE  LiveCount(dht') > 0 <=> Alive(dht')
  BY <1>3, LiveCountIs DEF KadInv, TrackerInv, TableInv, ListsInv
<1>4. AloneInv /\ AloneInv' /\ [Next]_vars
        => [reader' = "new" /\ LiveCount(dht) > 0 => LiveCount(dht') > 0]_vars
  <2>1. SUFFICES ASSUME AloneInv, AloneInv', Next
                 PROVE  reader' = "new" /\ LiveCount(dht) > 0 => LiveCount(dht') > 0
    OBVIOUS
  <2>2. CASE Alone
    <3>1. KadInv /\ KadInv'
      BY <2>1, <2>2, NotAfter DEF AloneInv, Alone
    <3> QED
      BY <1>1, <1>2, <1>3, <2>2, <3>1
  <2>3. CASE Overlaps
    BY <2>3 DEF Overlaps, SearchOverlaps, AddOverlaps, Reading
  <2> QED
    BY <2>1, <2>2, <2>3 DEF Next
<1> QED
  BY <1>4, Inv, PTL DEF Spec, RestartKeepsContacts

=============================================================================
