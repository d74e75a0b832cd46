--------------------------- MODULE KadTableProofs ---------------------------
(***************************************************************************)
(* About the routing table of a tracker, for any number of addresses,      *)
(* identifiers and buckets: what the operations of KadTable preserve of the*)
(* contacts, of the two maps that lead to them and of the lists of the     *)
(* buckets, and what a restart leaves of them.                             *)
(*                                                                         *)
(* The model goes through a list with the recursive function After. What   *)
(* it does to each element differs from one use to another, and a lemma    *)
(* cannot have an operator as a parameter: "What is done for each element  *)
(* of a list" has the same argument once for each of these uses.           *)
(***************************************************************************)
EXTENDS Kad, FiniteSetTheorems, SequenceTheorems, WellFoundedInduction, TLAPS

-----------------------------------------------------------------------------
(* Lists and loops *)

\* What holds at the first position and goes from each to the next holds at all.
LEMMA UpTo ==
  ASSUME NEW n \in Nat, NEW good, 0 \in good,
         \A i \in 0..(n - 1) : i \in good => i + 1 \in good
  PROVE  \A i \in 0..n : i \in good
<1> DEFINE bad == (0..n) \ good
           rel == OpToRel(<, Nat)
<1>1. SUFFICES ASSUME bad # {} PROVE FALSE
  OBVIOUS
<1>2. IsWellFoundedOn(rel, Nat)
  BY NatLessThanWellFounded
<1>3. bad \subseteq Nat
  OBVIOUS
<1>4. PICK x \in bad : \A y \in bad : ~(<<y, x>> \in rel)
  <2> HIDE DEF bad, rel
  <2> QED
    BY <1>1, <1>2, <1>3, WFMin
<1>5. x # 0 /\ x - 1 \in 0..(n - 1)
  OBVIOUS
<1>6. x - 1 \in good
  <2>1. SUFFICES ASSUME x - 1 \in bad PROVE FALSE
    BY <1>5
  <2>2. <<x - 1, x>> \in rel
    BY <1>5 DEF OpToRel
  <2> QED
    BY <2>1, <2>2, <1>4
<1> QED
  BY <1>5, <1>6

\* A list without repetitions
Clean(s) == /\ s \in Seq(Keys)
            /\ \A i, j \in 1..Len(s) : s[i] = s[j] => i = j

LEMMA ToSetIs ==
  ASSUME NEW S, NEW s \in Seq(S)
  PROVE  ToSet(s) = {s[i] : i \in 1..Len(s)} /\ ToSet(s) \subseteq S
<1>1. DOMAIN s = 1..Len(s) /\ \A i \in 1..Len(s) : s[i] \in S
  BY LenProperties, ElementOfSeq
<1> QED
  BY <1>1 DEF ToSet

LEMMA AppendIs ==
  ASSUME NEW S, NEW s \in Seq(S), NEW x \in S
  PROVE  /\ Append(s, x) \in Seq(S)
         /\ Len(Append(s, x)) = Len(s) + 1
         /\ ToSet(Append(s, x)) = ToSet(s) \cup {x}
         /\ \A i \in 1..Len(s) : Append(s, x)[i] = s[i]
         /\ Append(s, x)[Len(s) + 1] = x
<1>1. /\ Append(s, x) \in Seq(S) /\ Len(s) \in Nat
      /\ Len(Append(s, x)) = Len(s) + 1
      /\ \A i \in 1..Len(s) : Append(s, x)[i] = s[i]
      /\ Append(s, x)[Len(s) + 1] = x
  BY AppendProperties, LenProperties
<1>2. /\ ToSet(s) = {s[i] : i \in 1..Len(s)}
      /\ ToSet(Append(s, x)) = {Append(s, x)[i] : i \in 1..Len(s) + 1}
  BY <1>1, ToSetIs
<1> DEFINE t == Append(s, x)
<1> HIDE DEF t
<1>3. {t[i] : i \in 1..Len(s) + 1} = {s[i] : i \in 1..Len(s)} \cup {x}
  <2>1. \A i \in 1..Len(s) : t[i] = s[i]
    BY <1>1 DEF t
  <2>2. t[Len(s) + 1] = x
    BY <1>1 DEF t
  <2>3. \A i \in 1..Len(s) + 1 : i \in 1..Len(s) \/ i = Len(s) + 1
    BY <1>1
  <2>4. 1..Len(s) \subseteq 1..Len(s) + 1 /\ Len(s) + 1 \in 1..Len(s) + 1
    BY <1>1
  <2> QED
    BY <2>1, <2>2, <2>3, <2>4
<1> QED
  BY <1>1, <1>2, <1>3 DEF t

LEMMA AppendClean ==
  ASSUME NEW s, Clean(s), NEW x \in Keys, x \notin ToSet(s)
  PROVE  Clean(Append(s, x))
<1>1. s \in Seq(Keys)
  BY DEF Clean
<1>2. Len(s) \in Nat /\ ToSet(s) = {s[i] : i \in 1..Len(s)}
  BY <1>1, ToSetIs, LenProperties
<1> DEFINE t == Append(s, x)
<1>3. /\ t \in Seq(Keys) /\ Len(t) = Len(s) + 1 /\ t[Len(s) + 1] = x
      /\ \A i \in 1..Len(s) : t[i] = s[i]
  BY <1>1, AppendIs
<1> HIDE DEF t
<1>4. ASSUME NEW i \in 1..Len(t), NEW j \in 1..Len(t), t[i] = t[j]
      PROVE  i = j
  <2>1. \A k \in 1..Len(t) : k \in 1..Len(s) \/ k = Len(s) + 1
    BY <1>2, <1>3
  <2>2. \A k \in 1..Len(s) : s[k] # x
    BY <1>2
  <2>3. CASE i \in 1..Len(s) /\ j \in 1..Len(s)
    BY <2>3, <1>3, <1>4 DEF Clean
  <2>4. CASE ~(i \in 1..Len(s) /\ j \in 1..Len(s))
    BY <2>1, <2>2, <2>4, <1>3, <1>4
  <2> QED
    BY <2>3, <2>4
<1> QED
  BY <1>3, <1>4 DEF Clean, t

\* SequencesExt!RemoveAt
LEMMA RemoveAtIs ==
  ASSUME NEW S, NEW s \in Seq(S), NEW p \in 1..Len(s)
  PROVE  /\ RemoveAt(s, p) \in Seq(S)
         /\ Len(RemoveAt(s, p)) = Len(s) - 1
         /\ \A i \in 1..Len(s) - 1 :
              RemoveAt(s, p)[i] = IF i < p THEN s[i] ELSE s[i + 1]
<1> DEFINE a == SubSeq(s, 1, p - 1)
           b == SubSeq(s, p + 1, Len(s))
<1>1. Len(s) \in Nat /\ p \in Nat /\ 1 <= p /\ p <= Len(s) /\ \A i \in 1..Len(s) : s[i] \in S
  BY LenProperties, ElementOfSeq
<1>2. /\ a \in Seq(S) /\ Len(a) = p - 1
      /\ \A i \in 1..p - 1 : a[i] = s[i]
  <2>1. \A i \in 1..p - 1 : s[i] \in S
    BY <1>1
  <2>2. /\ a \in Seq(S) /\ Len(a) = IF 1 <= p - 1 THEN (p - 1) - 1 + 1 ELSE 0
        /\ \A i \in 1..(p - 1) - 1 + 1 : a[i] = s[1 + i - 1]
    <3>1. 1 \in Int /\ p - 1 \in Int
      BY <1>1
    <3> QED
      BY <2>1, <3>1, SubSeqProperties
  <2> HIDE DEF a
  <2> QED
    BY <1>1, <2>2
<1>3. /\ b \in Seq(S) /\ Len(b) = Len(s) - p
      /\ \A i \in 1..Len(s) - p : b[i] = s[p + i]
  <2>1. \A i \in p + 1..Len(s) : s[i] \in S
    BY <1>1
  <2>2. /\ b \in Seq(S) /\ Len(b) = IF p + 1 <= Len(s) THEN Len(s) - (p + 1) + 1 ELSE 0
        /\ \A i \in 1..Len(s) - (p + 1) + 1 : b[i] = s[p + 1 + i - 1]
    <3>1. p + 1 \in Int /\ Len(s) \in Int
      BY <1>1
    <3> QED
      BY <2>1, <3>1, SubSeqProperties
  <2> HIDE DEF b
  <2> QED
    BY <1>1, <2>2
<1>4. /\ a \o b \in Seq(S) /\ Len(a \o b) = Len(a) + Len(b)
      /\ \A i \in 1..Len(a) + Len(b) :
           (a \o b)[i] = IF i <= Len(a) THEN a[i] ELSE b[i - Len(a)]
  <2> HIDE DEF a, b
  <2> QED
    BY <1>2, <1>3, ConcatProperties
<1>5. RemoveAt(s, p) = a \o b
  BY DEF RemoveAt
<1> DEFINE r == a \o b
<1> HIDE DEF a, b, r
<1>6. ASSUME NEW i \in 1..Len(s) - 1
      PROVE  r[i] = IF i < p THEN s[i] ELSE s[i + 1]
  <2>1. r[i] = IF i <= Len(a) THEN a[i] ELSE b[i - Len(a)]
    BY <1>1, <1>2, <1>3, <1>4 DEF r
  <2>2. CASE i < p
    BY <1>1, <1>2, <2>1, <2>2
  <2>3. CASE ~(i < p)
    <3>1. i - Len(a) \in 1..Len(s) - p /\ ~(i <= Len(a)) /\ p + (i - Len(a)) = i + 1
      BY <1>1, <1>2, <2>3
    <3> QED
      BY <1>3, <2>1, <2>3, <3>1
  <2> QED
    BY <2>2, <2>3
<1>7. r \in Seq(S) /\ Len(r) = Len(s) - 1
  BY <1>1, <1>2, <1>3, <1>4 DEF r
<1> QED
  BY <1>5, <1>6, <1>7 DEF r

LEMMA RemoveAtClean ==
  ASSUME NEW s, Clean(s), NEW p \in 1..Len(s)
  PROVE  /\ Clean(RemoveAt(s, p)) /\ Len(RemoveAt(s, p)) = Len(s) - 1
         /\ ToSet(RemoveAt(s, p)) = ToSet(s) \ {s[p]}
<1>1. s \in Seq(Keys) /\ \A i, j \in 1..Len(s) : s[i] = s[j] => i = j
  BY DEF Clean
<1>2. Len(s) \in Nat /\ ToSet(s) = {s[i] : i \in 1..Len(s)}
  BY <1>1, ToSetIs, LenProperties
<1> DEFINE r == RemoveAt(s, p)
<1>3. /\ r \in Seq(Keys) /\ Len(r) = Len(s) - 1
      /\ \A i \in 1..Len(s) - 1 : r[i] = IF i < p THEN s[i] ELSE s[i + 1]
  BY <1>1, RemoveAtIs
<1> HIDE DEF r
<1>4. ToSet(r) = {r[i] : i \in 1..Len(r)}
  BY <1>3, ToSetIs
<1>5. \A i, j \in 1..Len(r) : r[i] = r[j] => i = j
  <2> TAKE i, j \in 1..Len(r)
  <2> HAVE r[i] = r[j]
  <2> DEFINE ii == IF i < p THEN i ELSE i + 1
             jj == IF j < p THEN j ELSE j + 1
  <2>1. ii \in 1..Len(s) /\ jj \in 1..Len(s) /\ r[i] = s[ii] /\ r[j] = s[jj]
    BY <1>2, <1>3
  <2>2. ii = jj
    <3> HIDE DEF ii, jj
    <3> QED
      BY <1>1, <2>1
  <2> QED
    BY <1>2, <1>3, <2>2
<1>6. ToSet(r) \subseteq ToSet(s) \ {s[p]}
  <2>1. ASSUME NEW i \in 1..Len(r)
        PROVE  r[i] \in ToSet(s) \ {s[p]}
    <3> DEFINE ii == IF i < p THEN i ELSE i + 1
    <3>1. ii \in 1..Len(s) /\ r[i] = s[ii] /\ ii # p
      BY <1>2, <1>3
    <3> HIDE DEF ii
    <3> QED
      BY <1>1, <1>2, <3>1
  <2> QED
    BY <1>4, <2>1
<1>7. ToSet(s) \ {s[p]} \subseteq ToSet(r)
  <2>1. ASSUME NEW i \in 1..Len(s), s[i] # s[p]
        PROVE  s[i] \in ToSet(r)
    <3> DEFINE ii == IF i < p THEN i ELSE i - 1
    <3>0. i # p
      BY <2>1
    <3>1. ii \in 1..Len(r) /\ r[ii] = s[i]
      BY <1>2, <1>3, <3>0
    <3> HIDE DEF ii
    <3> QED
      BY <1>4, <3>1
  <2> QED
    BY <1>2, <2>1
<1> QED
  BY <1>3, <1>5, <1>6, <1>7 DEF Clean, r

LEMMA TailClean ==
  ASSUME NEW s, Clean(s), s # << >>
  PROVE  /\ Clean(Tail(s)) /\ Len(Tail(s)) = Len(s) - 1
         /\ ToSet(Tail(s)) = ToSet(s) \ {Head(s)}
         /\ Head(s) \in ToSet(s) /\ Head(s) \in Keys
<1>1. s \in Seq(Keys) /\ \A i, j \in 1..Len(s) : s[i] = s[j] => i = j
  BY DEF Clean
<1>2. /\ Len(s) \in Nat \ {0} /\ ToSet(s) = {s[i] : i \in 1..Len(s)}
      /\ Head(s) = s[1]
  BY <1>1, ToSetIs, EmptySeq
<1> DEFINE r == Tail(s)
<1>3. /\ r \in Seq(Keys) /\ Len(r) = Len(s) - 1 /\ Head(s) \in Keys
      /\ \A i \in 1..Len(r) : r[i] = s[i + 1]
  BY <1>1, HeadTailProperties
<1> HIDE DEF r
<1>4. ToSet(r) = {r[i] : i \in 1..Len(r)}
  BY <1>3, ToSetIs
<1>5. \A i \in 1..Len(r) : i + 1 \in 1..Len(s) /\ r[i] = s[i + 1] /\ i + 1 # 1
  BY <1>2, <1>3
<1>6. \A i, j \in 1..Len(r) : r[i] = r[j] => i = j
  <2> TAKE i, j \in 1..Len(r)
  <2> HAVE r[i] = r[j]
  <2>1. i + 1 = j + 1
    BY <1>1, <1>5
  <2> QED
    BY <2>1
<1>7. ToSet(r) \subseteq ToSet(s) \ {s[1]}
  <2>1. 1 \in 1..Len(s)
    BY <1>2
  <2> QED
    BY <1>1, <1>2, <1>4, <1>5, <2>1
<1>8. ToSet(s) \ {s[1]} \subseteq ToSet(r)
  <2>1. ASSUME NEW i \in 1..Len(s), s[i] # s[1]
        PROVE  s[i] \in ToSet(r)
    <3>1. i - 1 \in 1..Len(r) /\ r[i - 1] = s[i]
      <4>1. i # 1
        BY <2>1
      <4>2. i - 1 \in 1..Len(r)
        BY <1>2, <1>3, <4>1
      <4>3. (i - 1) + 1 = i
        OBVIOUS
      <4> QED
        BY <4>2, <4>3, <1>3
    <3> QED
      BY <1>4, <3>1
  <2> QED
    BY <1>2, <2>1
<1>9. s[1] \in ToSet(s)
  BY <1>2
<1> QED
  BY <1>2, <1>3, <1>6, <1>7, <1>8, <1>9 DEF Clean, r

Replaced(r, s, p, x) == r = [s EXCEPT ![p] = x]
LEMMA ReplacedClean ==
  ASSUME NEW s, Clean(s), NEW p \in 1..Len(s), NEW x \in Keys, x \notin ToSet(s),
         NEW r, Replaced(r, s, p, x)
  PROVE  Clean(r) /\ Len(r) = Len(s) /\ ToSet(r) = (ToSet(s) \ {s[p]}) \cup {x}
<1>1. s \in Seq(Keys) /\ \A i, j \in 1..Len(s) : s[i] = s[j] => i = j
  BY DEF Clean
<1>2. Len(s) \in Nat /\ ToSet(s) = {s[i] : i \in 1..Len(s)}
  BY <1>1, ToSetIs, LenProperties
<1>3. /\ r \in Seq(Keys) /\ Len(r) = Len(s)
      /\ \A i \in 1..Len(s) : r[i] = IF i = p THEN x ELSE s[i]
  BY <1>1, ExceptSeq DEF Replaced
<1>4. ToSet(r) = {r[i] : i \in 1..Len(r)}
  BY <1>3, ToSetIs
<1>5. \A i \in 1..Len(s) : s[i] # x
  BY <1>2
<1>6. \A i, j \in 1..Len(r) : r[i] = r[j] => i = j
  BY <1>1, <1>3, <1>5
<1>7. ToSet(r) \subseteq (ToSet(s) \ {s[p]}) \cup {x}
  BY <1>1, <1>2, <1>3, <1>4
<1>8. (ToSet(s) \ {s[p]}) \cup {x} \subseteq ToSet(r)
  <2>1. ASSUME NEW i \in 1..Len(s), s[i] # s[p]
        PROVE  s[i] \in ToSet(r)
    <3>1. r[i] = s[i]
      BY <1>3, <2>1
    <3> QED
      BY <1>3, <1>4, <3>1
  <2>2. x \in ToSet(r)
    BY <1>3, <1>4
  <2> QED
    BY <1>2, <2>1, <2>2
<1> QED
  BY <1>3, <1>6, <1>7, <1>8 DEF Clean

\* The least of some numbers
LEMMA LeastOf ==
  ASSUME NEW S \in SUBSET Nat, S # {}
  PROVE  Min(S) \in S /\ \A y \in S : Min(S) <= y
<1> DEFINE rel == OpToRel(<, Nat)
<1>1. IsWellFoundedOn(rel, Nat)
  BY NatLessThanWellFounded
<1>2. PICK x \in S : \A y \in S : ~(<<y, x>> \in rel)
  <2> HIDE DEF rel
  <2> QED
    BY <1>1, WFMin
<1>3. \A y \in S : x =< y
  <2> TAKE y \in S
  <2>1. SUFFICES ASSUME y < x PROVE FALSE
    OBVIOUS
  <2>2. <<y, x>> \in rel
    BY <2>1 DEF OpToRel
  <2> QED
    BY <1>2, <2>2
<1> QED
  BY <1>2, <1>3 DEF Min

-----------------------------------------------------------------------------
(* Identifiers and buckets *)

LEMMA Constants ==
  /\ IsFiniteSet(Addrs) /\ Bits \in Nat \ {0} /\ ByteBits \in Nat \ {0} /\ Self \in Ids
  /\ BucketSize \in Nat \ {0} /\ MaxFails \in Nat \ {0}
  /\ NoId \notin Ids /\ Buckets = 1..Bits
<1>1. /\ IsFiniteSet(Addrs) /\ Bits \in Nat \ {0} /\ ByteBits \in Nat \ {0} /\ Self \in Ids
      /\ BucketSize \in Nat \ {0} /\ MaxFails \in Nat \ {0}
  BY TableAssumption
<1>2. NoId \notin Ids
  <2>1. SUFFICES ASSUME NoId \in Ids PROVE FALSE
    OBVIOUS
  <2>2. DOMAIN NoId = 1..Bits
    BY <2>1 DEF Ids
  <2>3. DOMAIN NoId = 1..0
    BY EmptySeq, LenProperties DEF NoId
  <2> QED
    BY <1>1, <2>2, <2>3
<1> QED
  BY <1>1, <1>2 DEF Buckets

\* Two identifiers differ at some first position.
LEMMA FirstDifference ==
  ASSUME NEW a \in Ids, NEW b \in Ids, a # b
  PROVE  \E i \in Buckets : a[i] # b[i] /\ \A j \in 1..(i - 1) : a[j] = b[j]
<1> DEFINE S == {i \in 1..Bits : a[i] # b[i]}
<1>1. Bits \in Nat
  BY Constants
<1>2. S # {} /\ S \in SUBSET Nat
  <2>1. \E i \in 1..Bits : a[i] # b[i]
    BY <1>1 DEF Ids
  <2> QED
    BY <1>1, <2>1
<1> DEFINE m == Min(S)
<1>3. m \in S /\ \A y \in S : m <= y
  <2> HIDE DEF S
  <2> QED
    BY <1>2, LeastOf
<1> HIDE DEF m
<1>4. \A j \in 1..(m - 1) : a[j] = b[j]
  BY <1>1, <1>3
<1> QED
  BY <1>3, <1>4 DEF Buckets

\* kadBucketIndex: every identifier has its bucket, the first bit that differs.
THEOREM BucketOfIdentifier ==
  ASSUME NEW id \in Ids
  PROVE  /\ BucketIndex(id) \in Buckets
         /\ id # Self => /\ id[BucketIndex(id)] # Self[BucketIndex(id)]
                         /\ \A j \in 1..(BucketIndex(id) - 1) : id[j] = Self[j]
<1>1. CASE id = Self
  BY <1>1, Constants DEF BucketIndex
<1>2. CASE id # Self
  <2>1. \E i \in Buckets : id[i] # Self[i] /\ \A j \in 1..(i - 1) : id[j] = Self[j]
    BY <1>2, Constants, FirstDifference
  <2> DEFINE m == CHOOSE i \in Buckets : /\ id[i] # Self[i]
                                         /\ \A j \in 1..(i - 1) : id[j] = Self[j]
  <2>2. BucketIndex(id) = m
    BY <1>2 DEF BucketIndex
  <2>3. m \in Buckets /\ id[m] # Self[m] /\ \A j \in 1..(m - 1) : id[j] = Self[j]
    BY <2>1
  <2> QED
    BY <2>2, <2>3
<1> QED
  BY <1>1, <1>2

LEMMA SameOrLaterByte ==
  ASSUME NEW p \in Nat, NEW q \in Nat, NEW n \in Nat \ {0}, p <= q
  PROVE  p \div n <= q \div n
OBVIOUS

\* randomKadIDWithinBucket: what is drawn for a bucket belongs to it.
THEOREM DrawnBelongs ==
  ASSUME NEW b \in Buckets, NEW drawn \in Ids
  PROVE  IdWithinBucket(b, drawn) \in Ids /\ BucketIndex(IdWithinBucket(b, drawn)) = b
<1> DEFINE id == IdWithinBucket(b, drawn)
<1>1. Bits \in Nat \ {0} /\ ByteBits \in Nat \ {0} /\ Buckets = 1..Bits /\ b \in 1..Bits
  BY Constants
<1>2. /\ \A j \in 1..Bits : Self[j] \in {0, 1} /\ drawn[j] \in {0, 1}
  BY Constants DEF Ids
<1>3. id \in Ids
  <2>1. \A j \in 1..Bits :
          (IF j = b THEN 1 - Self[j]
           ELSE IF (j - 1) \div ByteBits <= (b - 1) \div ByteBits THEN Self[j]
           ELSE drawn[j]) \in {0, 1}
    <3> TAKE j \in 1..Bits
    <3>1. Self[j] \in {0, 1} /\ drawn[j] \in {0, 1}
      BY <1>2
    <3>2. 1 - Self[j] \in {0, 1}
      BY <3>1
    <3> QED
      BY <3>1, <3>2
  <2> QED
    BY <1>1, <2>1 DEF IdWithinBucket, Ids
<1>4. id[b] = 1 - Self[b] /\ id[b] # Self[b]
  <2>1. id[b] = 1 - Self[b]
    BY <1>1 DEF IdWithinBucket
  <2> QED
    BY <1>1, <1>2, <2>1
<1>5. \A j \in 1..(b - 1) : id[j] = Self[j]
  <2> TAKE j \in 1..(b - 1)
  <2>1. j \in 1..Bits /\ j # b /\ j - 1 \in Nat /\ b - 1 \in Nat /\ j - 1 <= b - 1
    BY <1>1
  <2>2. (j - 1) \div ByteBits <= (b - 1) \div ByteBits
    BY <1>1, <2>1, SameOrLaterByte
  <2> QED
    BY <1>1, <2>1, <2>2 DEF IdWithinBucket
<1> HIDE DEF id
<1>6. id # Self
  BY <1>4
<1>7. /\ BucketIndex(id) \in Buckets /\ id[BucketIndex(id)] # Self[BucketIndex(id)]
      /\ \A j \in 1..(BucketIndex(id) - 1) : id[j] = Self[j]
  BY <1>3, <1>6, BucketOfIdentifier
<1>8. BucketIndex(id) = b
  <2> DEFINE c == BucketIndex(id)
  <2>1. c \in 1..Bits /\ id[c] # Self[c] /\ \A j \in 1..(c - 1) : id[j] = Self[j]
    BY <1>1, <1>7
  <2> HIDE DEF c
  <2>2. ~(c < b) /\ ~(b < c)
    BY <1>1, <1>4, <1>5, <2>1
  <2>3. c = b
    BY <1>1, <2>1, <2>2
  <2> QED
    BY <2>3 DEF c
<1> QED
  BY <1>3, <1>8 DEF id

\* DistanceCompare: of two identifiers one is closer to a target, never both.
THEOREM OneIsCloser ==
  ASSUME NEW a \in Ids, NEW b \in Ids, NEW target \in Ids
  PROVE  /\ ~(Closer(a, b, target) /\ Closer(b, a, target))
         /\ a # b => Closer(a, b, target) \/ Closer(b, a, target)
<1>1. Buckets = 1..Bits /\ Bits \in Nat
  BY Constants
<1>2. SUFFICES ASSUME Closer(a, b, target), Closer(b, a, target) PROVE FALSE
  <2> SUFFICES ASSUME a # b PROVE Closer(a, b, target) \/ Closer(b, a, target)
    BY <1>2
  <2>1. PICK i \in Buckets : a[i] # b[i] /\ \A j \in 1..(i - 1) : a[j] = b[j]
    BY FirstDifference
  <2>2. a[i] \in {0, 1} /\ b[i] \in {0, 1} /\ target[i] \in {0, 1}
    BY <1>1 DEF Ids
  <2>3. a[i] = target[i] \/ b[i] = target[i]
    BY <2>1, <2>2
  <2> QED
    BY <2>1, <2>3 DEF Closer
<1>3. PICK i \in Buckets : a[i] # b[i] /\ a[i] = target[i] /\ \A j \in 1..(i - 1) : a[j] = b[j]
  BY <1>2 DEF Closer
<1>4. PICK k \in Buckets : b[k] # a[k] /\ b[k] = target[k] /\ \A j \in 1..(k - 1) : b[j] = a[j]
  BY <1>2 DEF Closer
<1>5. ~(i < k) /\ ~(k < i)
  BY <1>1, <1>3, <1>4
<1> QED
  BY <1>1, <1>3, <1>4, <1>5

-----------------------------------------------------------------------------
(* The table *)

\* A tracker is a record of eleven fields.
IsTracker(w) ==
  DOMAIN w = {"nodes", "at", "live", "repl", "up", "routers", "storage", "tx",
              "running", "index", "answers"}
Rest(w) == <<w.up, w.routers, w.storage, w.tx, w.running, w.index, w.answers>>

\* The contacts that have an identifier; the only ones the buckets may hold
Named(w) == {k \in DOMAIN w.nodes : w.nodes[k].id # NoId}

\* Every address of a contact is in the map. A contact without an identifier is
\* the one that the map has for its address, and no other contact has it.
Sole(w, k) ==
  /\ \A a \in DOMAIN w.at : w.at[a] = k <=> a = w.nodes[k].addr
  /\ \A j \in DOMAIN w.nodes : w.nodes[j].addr = w.nodes[k].addr => j = k
NodesInv(w) ==
  /\ IsFiniteSet(DOMAIN w.nodes) /\ DOMAIN w.nodes \subseteq Keys
  /\ w.nodes \in [DOMAIN w.nodes -> Contact]
  /\ w.at \in [DOMAIN w.at -> DOMAIN w.nodes] /\ DOMAIN w.at \subseteq Addrs
  /\ \A k \in DOMAIN w.nodes : w.nodes[k].addr \in DOMAIN w.at
  /\ \A k \in DOMAIN w.nodes : k \in Named(w) \/ Sole(w, k)

\* The lists of one bucket
BucketOK(s, r, known) ==
  /\ Clean(s) /\ Clean(r) /\ ToSet(s) \cap ToSet(r) = {}
  /\ Len(s) <= BucketSize /\ Len(r) <= BucketSize
  /\ ToSet(s) \subseteq known /\ ToSet(r) \subseteq known
ListsInv(w) ==
  /\ w.live \in [Buckets -> Seq(Keys)] /\ w.repl \in [Buckets -> Seq(Keys)]
  /\ \A b \in Buckets : BucketOK(w.live[b], w.repl[b], Named(w))

TableInv(w) == IsTracker(w) /\ NodesInv(w) /\ ListsInv(w)

\* What an operation on the table does with the rest of the tracker: nothing is
\* lost from the map, no contact loses its identifier.
Moves(w, v) ==
  /\ TableInv(v) /\ Rest(v) = Rest(w)
  /\ DOMAIN w.nodes \subseteq DOMAIN v.nodes /\ Named(w) \subseteq Named(v)
  /\ DOMAIN w.at \subseteq DOMAIN v.at
  /\ \A a \in DOMAIN w.at : v.at[a] = w.at[a]
Stays(w, v) == Moves(w, v) /\ DOMAIN v.nodes = DOMAIN w.nodes /\ v.at = w.at

LEMMA MovesAgain ==
  ASSUME NEW u, NEW v, NEW w, Moves(u, v), Moves(v, w)
  PROVE  Moves(u, w)
BY DEF Moves

LEMMA MovesNothing ==
  ASSUME NEW w, TableInv(w)
  PROVE  Moves(w, w) /\ Stays(w, w)
BY DEF Moves, Stays

\* The invariant bounds the table.
LEMMA InvBounds ==
  ASSUME NEW w, TableInv(w)
  PROVE  Bounded(w)
<1> SUFFICES ASSUME NEW b \in Buckets
             PROVE  /\ Len(w.live[b]) <= BucketSize /\ Len(w.repl[b]) <= BucketSize
                    /\ IsInjective(w.live[b] \o w.repl[b])
                    /\ \A k \in ToSet(w.live[b] \o w.repl[b]) :
                         k \in DOMAIN w.nodes /\ w.nodes[k].id # NoId
  BY DEF Bounded
<1> DEFINE s == w.live[b]
           r == w.repl[b]
<1>1. BucketOK(s, r, Named(w))
  BY DEF TableInv, ListsInv
<1> HIDE DEF s, r
<1>2. s \in Seq(Keys) /\ r \in Seq(Keys) /\ Len(s) \in Nat /\ Len(r) \in Nat
  BY <1>1, LenProperties DEF BucketOK, Clean
<1>3. /\ s \o r \in Seq(Keys) /\ Len(s \o r) = Len(s) + Len(r)
      /\ \A i \in 1..Len(s) + Len(r) :
           (s \o r)[i] = IF i <= Len(s) THEN s[i] ELSE r[i - Len(s)]
  BY <1>2, ConcatProperties
<1> DEFINE t == s \o r
<1> HIDE DEF t
<1>4. DOMAIN t = 1..Len(s) + Len(r) /\ ToSet(t) = {t[i] : i \in 1..Len(s) + Len(r)}
  BY <1>3, LenProperties, ToSetIs DEF t
<1>5. /\ ToSet(s) = {s[i] : i \in 1..Len(s)} /\ ToSet(r) = {r[i] : i \in 1..Len(r)}
      /\ ToSet(s) \cap ToSet(r) = {}
  BY <1>1, <1>2, ToSetIs DEF BucketOK
<1>6. ASSUME NEW i \in 1..Len(s) + Len(r)
      PROVE  \/ i \in 1..Len(s) /\ t[i] = s[i]
             \/ i \notin 1..Len(s) /\ i - Len(s) \in 1..Len(r) /\ t[i] = r[i - Len(s)]
  BY <1>2, <1>3 DEF t
<1>7. \A i \in 1..Len(s) : s[i] \in ToSet(s) /\ s[i] \notin ToSet(r)
  BY <1>5
<1>8. \A i \in 1..Len(r) : r[i] \in ToSet(r)
  BY <1>5
<1>9. ASSUME NEW i \in 1..Len(s) + Len(r), NEW j \in 1..Len(s) + Len(r), t[i] = t[j]
      PROVE  i = j
  <2>1. CASE i \in 1..Len(s) /\ j \in 1..Len(s)
    BY <1>1, <1>6, <1>9, <2>1 DEF BucketOK, Clean
  <2>2. CASE i \notin 1..Len(s) /\ j \notin 1..Len(s)
    <3>1. /\ i - Len(s) \in 1..Len(r) /\ t[i] = r[i - Len(s)]
          /\ j - Len(s) \in 1..Len(r) /\ t[j] = r[j - Len(s)]
      BY <1>6, <2>2
    <3>2. \A p, q \in 1..Len(r) : r[p] = r[q] => p = q
      BY <1>1 DEF BucketOK, Clean
    <3>3. i - Len(s) = j - Len(s)
      BY <1>9, <3>1, <3>2
    <3> QED
      BY <1>2, <3>3
  <2>3. CASE i \in 1..Len(s) /\ j \notin 1..Len(s)
    BY <1>6, <1>7, <1>8, <1>9, <2>3
  <2>4. CASE i \notin 1..Len(s) /\ j \in 1..Len(s)
    BY <1>6, <1>7, <1>8, <1>9, <2>4
  <2> QED
    BY <2>1, <2>2, <2>3, <2>4
<1>10. IsInjective(t)
  BY <1>4, <1>9 DEF IsInjective
<1>11. ToSet(t) \subseteq Named(w)
  <2>1. ASSUME NEW i \in 1..Len(s) + Len(r)
        PROVE  t[i] \in Named(w)
    BY <1>1, <1>6, <1>7, <1>8 DEF BucketOK
  <2> QED
    BY <1>4, <2>1
<1> QED
  BY <1>1, <1>10, <1>11 DEF s, r, t, Named, BucketOK

\* One contact changes: it keeps the identifier that it has, or gets one; an
\* address that it takes is in the map and not that of a contact without one.
LEMMA OneContact ==
  ASSUME NEW w, NodesInv(w), NEW v, v.at = w.at,
         NEW k \in DOMAIN w.nodes, NEW c \in Contact,
         v.nodes = [w.nodes EXCEPT ![k] = c],
         c.addr \in DOMAIN w.at,
         k \in Named(w) => c.id # NoId,
         k \notin Named(w) => c.addr = w.nodes[k].addr,
         \A j \in DOMAIN w.nodes :
           j \in Named(w) \/ w.nodes[j].addr # c.addr \/ j = k
  PROVE  /\ NodesInv(v) /\ Named(w) \subseteq Named(v)
         /\ DOMAIN v.nodes = DOMAIN w.nodes
<1>1. /\ DOMAIN v.nodes = DOMAIN w.nodes /\ v.nodes \in [DOMAIN w.nodes -> Contact]
      /\ v.nodes[k] = c /\ \A j \in DOMAIN w.nodes : j # k => v.nodes[j] = w.nodes[j]
  BY DEF NodesInv
<1>2. Named(w) \subseteq Named(v)
  BY <1>1 DEF Named
<1>3. \A j \in DOMAIN w.nodes : v.nodes[j].addr \in DOMAIN w.at
  BY <1>1 DEF NodesInv
<1>4. ASSUME NEW j \in DOMAIN v.nodes, j \notin Named(v)
      PROVE  Sole(v, j)
  <2>1. j \notin Named(w) /\ Sole(w, j)
    BY <1>1, <1>2, <1>4 DEF NodesInv
  <2>2. v.nodes[j].addr = w.nodes[j].addr
    BY <1>1, <2>1
  <2>3. \A i \in DOMAIN w.nodes : v.nodes[i].addr = w.nodes[j].addr => i = j
    <3> TAKE i \in DOMAIN w.nodes
    <3>1. CASE i # k
      BY <1>1, <2>1, <3>1 DEF Sole
    <3>2. CASE i = k /\ j # k
      <4>1. w.nodes[j].addr # c.addr
        BY <1>1, <2>1, <3>2
      <4> QED
        BY <1>1, <3>2, <4>1
    <3> QED
      BY <3>1, <3>2
  <2> QED
    BY <1>1, <2>1, <2>2, <2>3 DEF Sole
<1> QED
  BY <1>1, <1>2, <1>3, <1>4 DEF NodesInv

\* One bucket changes.
LEMMA OneBucket ==
  ASSUME NEW w, ListsInv(w), NEW v, Named(w) \subseteq Named(v),
         NEW b \in Buckets, NEW s, NEW r,
         v.live = [w.live EXCEPT ![b] = s], v.repl = [w.repl EXCEPT ![b] = r],
         BucketOK(s, r, Named(v))
  PROVE  ListsInv(v)
<1>1. s \in Seq(Keys) /\ r \in Seq(Keys)
  BY DEF BucketOK, Clean
<1>2. /\ v.live \in [Buckets -> Seq(Keys)] /\ v.repl \in [Buckets -> Seq(Keys)]
      /\ v.live[b] = s /\ v.repl[b] = r
      /\ \A c \in Buckets : c # b => v.live[c] = w.live[c] /\ v.repl[c] = w.repl[c]
  BY <1>1 DEF ListsInv
<1>3. \A c \in Buckets : BucketOK(w.live[c], w.repl[c], Named(v))
  BY DEF ListsInv, BucketOK
<1> QED
  BY <1>2, <1>3 DEF ListsInv

LEMMA SameLists ==
  ASSUME NEW w, ListsInv(w), NEW v, Named(w) \subseteq Named(v),
         v.live = w.live, v.repl = w.repl
  PROVE  ListsInv(v)
BY DEF ListsInv, BucketOK

\* findKadNode
Alike(w, k, n) ==
  \/ w.nodes[n].id # NoId /\ w.nodes[k].id = w.nodes[n].id
  \/ w.nodes[k].addr = w.nodes[n].addr
LEMMA PositionIs ==
  ASSUME NEW w, NEW list, list \in Seq(Keys), NEW n
  PROVE  /\ Position(w, list, n) \in 0..Len(list)
         /\ Position(w, list, n) = 0 => \A i \in 1..Len(list) : ~Alike(w, list[i], n)
         /\ Position(w, list, n) # 0 => Alike(w, list[Position(w, list, n)], n)
<1> DEFINE I == {i \in 1..Len(list) : Alike(w, list[i], n)}
<1>1. Position(w, list, n) = IF I # {} THEN Min(I) ELSE 0
  BY DEF Position, SelectInSeq, Alike
<1>2. Len(list) \in Nat
  BY LenProperties
<1>3. I \in SUBSET Nat
  BY <1>2
<1>4. I # {} => Min(I) \in I
  <2> HIDE DEF I
  <2> QED
    BY <1>3, LeastOf
<1> QED
  BY <1>1, <1>2, <1>4

LEMMA ContactFields ==
  ASSUME NEW c \in Contact
  PROVE  /\ c.addr \in Addrs /\ c.id \in Ids \cup {NoId}
         /\ c.fails \in 0..MaxFails
         /\ \A d \in {Confirmed(c), Failed(c)} :
              d \in Contact /\ d.addr = c.addr /\ d.id = c.id
         /\ \A a \in Addrs : /\ [c EXCEPT !.addr = a] \in Contact
                             /\ [c EXCEPT !.addr = a].addr = a
                             /\ [c EXCEPT !.addr = a].id = c.id
<1>1. MaxFails \in Nat \ {0} /\ c.fails \in 0..MaxFails
  BY Constants DEF Contact
<1>2. /\ (IF c.fails < MaxFails THEN c.fails + 1 ELSE c.fails) \in 0..MaxFails
      /\ 0 \in 0..MaxFails
  BY <1>1
<1>3. Confirmed(c) \in Contact /\ Confirmed(c).addr = c.addr /\ Confirmed(c).id = c.id
  <2> DEFINE d == [c EXCEPT !.pinged = TRUE]
  <2>1. d \in Contact /\ d.addr = c.addr /\ d.id = c.id
    BY DEF Contact
  <2>2. Confirmed(c) = [d EXCEPT !.fails = 0]
    BY DEF Confirmed
  <2> HIDE DEF d
  <2> QED
    BY <1>2, <2>1, <2>2 DEF Contact
<1>4. Failed(c) \in Contact /\ Failed(c).addr = c.addr /\ Failed(c).id = c.id
  BY <1>2 DEF Failed, Contact
<1>5. \A a \in Addrs : /\ [c EXCEPT !.addr = a] \in Contact
                       /\ [c EXCEPT !.addr = a].addr = a
                       /\ [c EXCEPT !.addr = a].id = c.id
  BY DEF Contact
<1>6. c.addr \in Addrs /\ c.id \in Ids \cup {NoId}
  BY DEF Contact
<1> QED
  BY <1>1, <1>3, <1>4, <1>5, <1>6

\* A contact that was found again takes over an address.
LEMMA RefreshedIs ==
  ASSUME NEW w, NodesInv(w), NEW k \in Named(w), NEW n \in Named(w), NEW confirmed \in BOOLEAN,
         NEW v, v.at = w.at, v.nodes = Refreshed(w, k, n, confirmed)
  PROVE  /\ NodesInv(v) /\ Named(w) \subseteq Named(v) /\ DOMAIN v.nodes = DOMAIN w.nodes
<1> DEFINE met == [w.nodes[k] EXCEPT !.addr = w.nodes[n].addr]
           c == IF confirmed THEN Confirmed(met) ELSE met
<1>1. /\ k \in DOMAIN w.nodes /\ n \in DOMAIN w.nodes /\ w.nodes[k] \in Contact
      /\ w.nodes[n] \in Contact /\ w.nodes[k].id # NoId
  BY DEF NodesInv, Named
<1>2. c \in Contact /\ c.addr = w.nodes[n].addr /\ c.id = w.nodes[k].id
  <2>1. /\ met \in Contact /\ met.addr = w.nodes[n].addr /\ met.id = w.nodes[k].id
    BY <1>1, ContactFields
  <2> HIDE DEF met
  <2> QED
    BY <2>1, ContactFields
<1>3. v.nodes = [w.nodes EXCEPT ![k] = c]
  BY DEF Refreshed
<1> HIDE DEF c
<1>4. c.addr \in DOMAIN w.at
  BY <1>1, <1>2 DEF NodesInv
<1>5. \A j \in DOMAIN w.nodes : j \in Named(w) \/ w.nodes[j].addr # c.addr \/ j = k
  <2> TAKE j \in DOMAIN w.nodes
  <2>1. SUFFICES ASSUME j \notin Named(w), w.nodes[j].addr = c.addr PROVE FALSE
    OBVIOUS
  <2>2. n = j
    BY <1>1, <1>2, <2>1 DEF NodesInv, Sole
  <2> QED
    BY <2>1, <2>2
<1> QED
  BY <1>1, <1>2, <1>3, <1>4, <1>5, OneContact

LEMMA ConfirmedIs ==
  ASSUME NEW w, NodesInv(w), NEW k \in DOMAIN w.nodes,
         NEW c, c = Confirmed(w.nodes[k]) \/ c = Failed(w.nodes[k]),
         NEW v, v.at = w.at, v.nodes = [w.nodes EXCEPT ![k] = c]
  PROVE  /\ NodesInv(v) /\ Named(w) \subseteq Named(v) /\ DOMAIN v.nodes = DOMAIN w.nodes
<1>1. /\ w.nodes[k] \in Contact /\ w.nodes[k].addr \in DOMAIN w.at
  BY DEF NodesInv
<1>2. c \in Contact /\ c.addr = w.nodes[k].addr /\ c.id = w.nodes[k].id
  BY <1>1, ContactFields
<1>3. \A j \in DOMAIN w.nodes : j \in Named(w) \/ w.nodes[j].addr # c.addr \/ j = k
  BY <1>2 DEF NodesInv, Sole
<1>4. /\ k \in Named(w) => c.id # NoId
      /\ k \notin Named(w) => c.addr = w.nodes[k].addr
  BY <1>2 DEF Named
<1> QED
  BY <1>1, <1>2, <1>3, <1>4, OneContact

\* The same list, in another order
LEMMA ToTheEnd ==
  ASSUME NEW s, Clean(s), NEW p \in 1..Len(s)
  PROVE  LET t == Append(RemoveAt(s, p), s[p])
         IN  Clean(t) /\ Len(t) = Len(s) /\ ToSet(t) = ToSet(s)
<1> DEFINE r == RemoveAt(s, p)
<1>1. s \in Seq(Keys) /\ s[p] \in Keys /\ s[p] \in ToSet(s) /\ Len(s) \in Nat
  BY ElementOfSeq, ToSetIs, LenProperties DEF Clean
<1>2. Clean(r) /\ Len(r) = Len(s) - 1 /\ ToSet(r) = ToSet(s) \ {s[p]}
  BY RemoveAtClean
<1> HIDE DEF r
<1>3. r \in Seq(Keys)
  BY <1>2 DEF Clean
<1>4. Clean(Append(r, s[p]))
  BY <1>1, <1>2, AppendClean
<1>5. Len(Append(r, s[p])) = Len(r) + 1 /\ ToSet(Append(r, s[p])) = ToSet(r) \cup {s[p]}
  BY <1>1, <1>3, AppendIs
<1> QED
  BY <1>1, <1>2, <1>4, <1>5 DEF r

LEMMA AppendBounded ==
  ASSUME NEW s, Clean(s), NEW x \in Keys, x \notin ToSet(s)
  PROVE  /\ Clean(Append(s, x)) /\ Len(Append(s, x)) = Len(s) + 1
         /\ ToSet(Append(s, x)) = ToSet(s) \cup {x} /\ Len(s) \in Nat
<1>1. s \in Seq(Keys)
  BY DEF Clean
<1> QED
  BY <1>1, AppendClean, AppendIs, LenProperties

\* A newcomer is in neither list.
LEMMA NewcomerMoves ==
  ASSUME NEW w, TableInv(w), NEW b \in Buckets, NEW n \in Named(w), NEW confirmed \in BOOLEAN,
         n \notin ToSet(w.live[b]), n \notin ToSet(w.repl[b])
  PROVE  Stays(w, Newcomer(w, b, n, confirmed))
<1> DEFINE s == w.live[b]
           r == w.repl[b]
           x == [w.nodes EXCEPT ![n] = IF confirmed THEN Confirmed(@) ELSE @]
           v == Newcomer(w, b, n, confirmed)
           ss == IF Len(s) < BucketSize THEN Append(s, n) ELSE s
           rr == IF Len(s) < BucketSize THEN r
                 ELSE IF Len(r) < BucketSize THEN Append(r, n) ELSE Append(Tail(r), n)
<1>1. IsTracker(w) /\ NodesInv(w) /\ ListsInv(w) /\ BucketOK(s, r, Named(w))
  BY DEF TableInv, ListsInv
<1>2. n \in Keys /\ n \in DOMAIN w.nodes
  BY <1>1 DEF NodesInv, Named
<1>3. /\ IsTracker(v) /\ Rest(v) = Rest(w) /\ v.nodes = x /\ v.at = w.at
      /\ v.live = [w.live EXCEPT ![b] = ss] /\ v.repl = [w.repl EXCEPT ![b] = rr]
  <2> DEFINE seen == [w EXCEPT !.nodes[n] = IF confirmed THEN Confirmed(@) ELSE @]
  <2>1. /\ IsTracker(seen) /\ Rest(seen) = Rest(w) /\ seen.nodes = x /\ seen.at = w.at
        /\ seen.live = w.live /\ seen.repl = w.repl
    BY <1>1 DEF IsTracker, Rest
  <2> HIDE DEF seen, x
  <2>2. w.live \in [Buckets -> Seq(Keys)] /\ w.repl \in [Buckets -> Seq(Keys)]
    BY <1>1 DEF ListsInv
  <2>3. /\ [w.live EXCEPT ![b] = w.live[b]] = w.live
        /\ [w.repl EXCEPT ![b] = w.repl[b]] = w.repl
    BY <2>2
  <2>4. CASE Len(s) < BucketSize
    <3>1. v = [seen EXCEPT !.live[b] = Append(@, n)]
      BY <2>4 DEF Newcomer, seen
    <3>2. ss = Append(s, n) /\ rr = r
      BY <2>4
    <3>3. v.live = [w.live EXCEPT ![b] = ss]
      BY <2>1, <3>1, <3>2, SMTT(30) DEF IsTracker
    <3>4. IsTracker(v) /\ Rest(v) = Rest(w) /\ v.nodes = x /\ v.at = w.at /\ v.repl = w.repl
      BY <2>1, <3>1 DEF IsTracker, Rest
    <3> HIDE DEF v, ss, rr
    <3> QED
      BY <2>3, <3>2, <3>3, <3>4
  <2>5. CASE ~(Len(s) < BucketSize) /\ Len(r) < BucketSize
    <3>1. v = [seen EXCEPT !.repl[b] = Append(@, n)]
      BY <2>5 DEF Newcomer, seen
    <3>2. ss = s /\ rr = Append(r, n)
      BY <2>5
    <3>3. v.repl = [w.repl EXCEPT ![b] = rr]
      <4>1. v.repl = [seen.repl EXCEPT ![b] = Append(seen.repl[b], n)]
        <5> HIDE DEF v
        <5> QED
          BY <2>1, <3>1 DEF IsTracker
      <4>2. seen.repl = w.repl
        BY <2>1
      <4> HIDE DEF v, ss
      <4> QED
        BY <3>2, <4>1, <4>2
    <3>4. IsTracker(v) /\ Rest(v) = Rest(w) /\ v.nodes = x /\ v.at = w.at /\ v.live = w.live
      BY <2>1, <3>1 DEF IsTracker, Rest
    <3> HIDE DEF v, ss, rr
    <3> QED
      BY <2>3, <3>2, <3>3, <3>4
  <2>6. CASE ~(Len(s) < BucketSize) /\ ~(Len(r) < BucketSize)
    <3>1. v = [seen EXCEPT !.repl[b] = Append(Tail(@), n)]
      BY <2>6 DEF Newcomer, seen
    <3>2. ss = s /\ rr = Append(Tail(r), n)
      BY <2>6
    <3>3. v.repl = [w.repl EXCEPT ![b] = rr]
      <4>1. v.repl = [seen.repl EXCEPT ![b] = Append(Tail(seen.repl[b]), n)]
        <5> HIDE DEF v
        <5> QED
          BY <2>1, <3>1 DEF IsTracker
      <4>2. seen.repl = w.repl
        BY <2>1
      <4> HIDE DEF v, ss
      <4> QED
        BY <3>2, <4>1, <4>2
    <3>4. IsTracker(v) /\ Rest(v) = Rest(w) /\ v.nodes = x /\ v.at = w.at /\ v.live = w.live
      BY <2>1, <3>1 DEF IsTracker, Rest
    <3> HIDE DEF v, ss, rr
    <3> QED
      BY <2>3, <3>2, <3>3, <3>4
  <2> QED
    BY <2>4, <2>5, <2>6
<1> HIDE DEF v
<1>4. NodesInv(v) /\ Named(w) \subseteq Named(v) /\ DOMAIN v.nodes = DOMAIN w.nodes
  <2>1. CASE confirmed
    <3>1. v.nodes = [w.nodes EXCEPT ![n] = Confirmed(w.nodes[n])]
      BY <1>3, <2>1
    <3>2. PICK c : c = Confirmed(w.nodes[n])
      OBVIOUS
    <3>3. v.at = w.at /\ v.nodes = [w.nodes EXCEPT ![n] = c]
      BY <1>3, <3>1, <3>2
    <3> QED
      BY <1>1, <1>2, <3>2, <3>3, ConfirmedIs
  <2>2. CASE ~confirmed
    <3>1. v.nodes = w.nodes
      BY <1>1, <1>3, <2>2 DEF NodesInv
    <3> QED
      BY <1>1, <1>3, <3>1 DEF NodesInv, Named, Sole
  <2> QED
    BY <2>1, <2>2
<1>5. BucketOK(ss, rr, Named(v))
  <2>1. BucketOK(s, r, Named(v)) /\ n \in Named(v) /\ n \notin ToSet(s) /\ n \notin ToSet(r)
    BY <1>1, <1>4 DEF BucketOK
  <2> HIDE DEF s, r
  <2>2. Clean(s) /\ Clean(r) /\ Len(s) \in Nat /\ Len(r) \in Nat /\ BucketSize \in Nat \ {0}
    BY <2>1, LenProperties, Constants DEF BucketOK, Clean
  <2>3. CASE Len(s) < BucketSize
    <3>1. /\ Clean(Append(s, n)) /\ Len(Append(s, n)) = Len(s) + 1
          /\ ToSet(Append(s, n)) = ToSet(s) \cup {n}
      BY <1>2, <2>1, <2>2, AppendBounded
    <3> QED
      BY <2>1, <2>2, <2>3, <3>1 DEF BucketOK
  <2>4. CASE ~(Len(s) < BucketSize) /\ Len(r) < BucketSize
    <3>1. /\ Clean(Append(r, n)) /\ Len(Append(r, n)) = Len(r) + 1
          /\ ToSet(Append(r, n)) = ToSet(r) \cup {n}
      BY <1>2, <2>1, <2>2, AppendBounded
    <3> QED
      BY <2>1, <2>2, <2>4, <3>1 DEF BucketOK
  <2>5. CASE ~(Len(s) < BucketSize) /\ ~(Len(r) < BucketSize)
    <3>1. r # << >>
      BY <2>2, <2>5, EmptySeq
    <3> DEFINE q == Tail(r)
    <3>2. Clean(q) /\ Len(q) = Len(r) - 1 /\ ToSet(q) \subseteq ToSet(r)
      BY <2>2, <3>1, TailClean
    <3> HIDE DEF q
    <3>3. /\ Clean(Append(q, n)) /\ Len(Append(q, n)) = Len(q) + 1
          /\ ToSet(Append(q, n)) = ToSet(q) \cup {n}
      BY <1>2, <2>1, <3>2, AppendBounded
    <3>4. ss = s /\ rr = Append(q, n)
      BY <2>5 DEF q
    <3>5. Len(r) <= BucketSize
      BY <2>1 DEF BucketOK
    <3> HIDE DEF ss, rr
    <3>6. Len(rr) <= BucketSize
      BY <2>2, <3>2, <3>3, <3>4, <3>5
    <3>7. ToSet(rr) \subseteq ToSet(r) \cup {n}
      BY <3>2, <3>3, <3>4
    <3>8. Clean(rr) /\ Clean(ss) /\ ss = s
      BY <2>2, <3>3, <3>4
    <3> QED
      BY <2>1, <3>6, <3>7, <3>8 DEF BucketOK
  <2> QED
    BY <2>3, <2>4, <2>5
<1> HIDE DEF ss, rr
<1>6. ListsInv(v)
  BY <1>1, <1>3, <1>4, <1>5, OneBucket
<1>7. v.at = w.at
  BY <1>3
<1>8. TableInv(v) /\ Rest(v) = Rest(w)
  BY <1>3, <1>4, <1>6 DEF TableInv
<1>9. Stays(w, v)
  BY <1>4, <1>7, <1>8 DEF Moves, Stays
<1> QED
  BY <1>9 DEF v

\* addNode: whatever contact is found under the identifier or the address of
\* another, the buckets keep their bounds.
LEMMA AddNodeMoves ==
  ASSUME NEW w, TableInv(w), NEW n \in DOMAIN w.nodes, NEW confirmed \in BOOLEAN
  PROVE  Stays(w, AddNode(w, n, confirmed))
<1> DEFINE b == BucketIndex(w.nodes[n].id)
           s == w.live[b]
           r == w.repl[b]
           l == Position(w, s, n)
           p == Position(w, r, n)
           rest == RemoveAt(r, p)
           v == AddNode(w, n, confirmed)
<1>1. IsTracker(w) /\ NodesInv(w) /\ ListsInv(w)
  BY DEF TableInv
<1>2. CASE w.nodes[n].id = NoId
  <2>1. v = w
    BY <1>2 DEF AddNode
  <2> QED
    BY <2>1, MovesNothing
<1>3. ASSUME w.nodes[n].id # NoId
      PROVE  Stays(w, v)
  <2>1. w.nodes[n].id \in Ids /\ n \in Named(w)
    BY <1>1, <1>3 DEF NodesInv, Contact, Named
  <2>2. b \in Buckets
    BY <2>1, BucketOfIdentifier
  <2>3. BucketOK(s, r, Named(w)) /\ w.live \in [Buckets -> Seq(Keys)]
        /\ w.repl \in [Buckets -> Seq(Keys)] /\ s \in Seq(Keys) /\ r \in Seq(Keys)
    BY <1>1, <2>2 DEF ListsInv
  <2>4. /\ l \in 0..Len(s) /\ p \in 0..Len(r)
        /\ l = 0 => \A i \in 1..Len(s) : ~Alike(w, s[i], n)
        /\ p = 0 => \A i \in 1..Len(r) : ~Alike(w, r[i], n)
    BY <2>3, PositionIs
  <2>5. Len(s) \in Nat /\ Len(r) \in Nat
    BY <2>3, LenProperties
  <2> DEFINE k == IF l # 0 THEN s[l] ELSE r[p]
             keeps == l = 0 /\ p # 0 /\ ~confirmed
             up == l = 0 /\ p # 0 /\ confirmed /\ Len(s) < BucketSize
             ss == IF l # 0 THEN Append(RemoveAt(s, l), s[l])
                   ELSE IF up THEN Append(s, r[p]) ELSE s
             rr == IF l # 0 \/ keeps THEN r
                   ELSE IF up THEN rest ELSE Append(rest, r[p])
             how == IF keeps THEN FALSE ELSE IF l # 0 THEN confirmed ELSE TRUE
  <2>6. ASSUME l # 0 \/ p # 0
        PROVE  Stays(w, v)
    <3>1. /\ IsTracker(v) /\ Rest(v) = Rest(w) /\ v.at = w.at
          /\ v.nodes = Refreshed(w, k, n, how)
          /\ v.live = [w.live EXCEPT ![b] = ss] /\ v.repl = [w.repl EXCEPT ![b] = rr]
      <4>0. /\ [w.live EXCEPT ![b] = s] = w.live /\ [w.repl EXCEPT ![b] = r] = w.repl
        BY <2>3
      <4>1. CASE l # 0
        <5>1. v = [w EXCEPT !.nodes = Refreshed(w, s[l], n, confirmed),
                            !.live[b] = Append(RemoveAt(@, l), @[l])]
          BY <1>3, <4>1 DEF AddNode
        <5>2. k = s[l] /\ ss = Append(RemoveAt(s, l), s[l]) /\ rr = r /\ how = confirmed
          BY <4>1
        <5>3. IsTracker(v) /\ Rest(v) = Rest(w) /\ v.at = w.at /\ v.repl = w.repl
          BY <1>1, <5>1 DEF IsTracker, Rest
        <5>4. v.nodes = Refreshed(w, s[l], n, confirmed)
          BY <1>1, <5>1 DEF IsTracker
        <5>5. v.live = [w.live EXCEPT ![b] = Append(RemoveAt(s, l), s[l])]
          BY <1>1, <5>1 DEF IsTracker
        <5> HIDE DEF v, k, ss, rr, how, s, r, b, l
        <5> QED
          BY <4>0, <5>2, <5>3, <5>4, <5>5
      <4>2. CASE l = 0 /\ ~confirmed
        <5>1. v = [w EXCEPT !.nodes = Refreshed(w, r[p], n, FALSE)]
          BY <1>3, <2>6, <4>2 DEF AddNode
        <5>2. k = r[p] /\ ss = s /\ rr = r /\ how = FALSE
          BY <2>6, <4>2
        <5>3. /\ IsTracker(v) /\ Rest(v) = Rest(w) /\ v.at = w.at /\ v.live = w.live
              /\ v.repl = w.repl
          BY <1>1, <5>1 DEF IsTracker, Rest
        <5>4. v.nodes = Refreshed(w, r[p], n, FALSE)
          BY <1>1, <5>1 DEF IsTracker
        <5> HIDE DEF v, k, ss, rr, how, s, r, b, p
        <5> QED
          BY <4>0, <5>2, <5>3, <5>4
      <4>3. CASE l = 0 /\ confirmed /\ Len(s) < BucketSize
        <5>1. v = [w EXCEPT !.nodes = Refreshed(w, r[p], n, TRUE),
                            !.repl[b] = rest, !.live[b] = Append(@, r[p])]
          BY <1>3, <2>6, <4>3 DEF AddNode
        <5>2. k = r[p] /\ ss = Append(s, r[p]) /\ rr = rest /\ how = TRUE
          BY <2>6, <4>3
        <5>3. IsTracker(v) /\ Rest(v) = Rest(w) /\ v.at = w.at
          BY <1>1, <5>1 DEF IsTracker, Rest
        <5>4. v.nodes = Refreshed(w, r[p], n, TRUE)
          BY <1>1, <5>1 DEF IsTracker
        <5>5. v.live = [w.live EXCEPT ![b] = Append(s, r[p])]
          BY <1>1, <5>1 DEF IsTracker
        <5>6. v.repl = [w.repl EXCEPT ![b] = rest]
          BY <1>1, <5>1 DEF IsTracker
        <5> HIDE DEF v, k, ss, rr, how, s, r, b, p, rest
        <5> QED
          BY <5>2, <5>3, <5>4, <5>5, <5>6
      <4>4. CASE l = 0 /\ confirmed /\ ~(Len(s) < BucketSize)
        <5>1. v = [w EXCEPT !.nodes = Refreshed(w, r[p], n, TRUE),
                            !.repl[b] = Append(rest, r[p])]
          BY <1>3, <2>6, <4>4 DEF AddNode
        <5>2. k = r[p] /\ ss = s /\ rr = Append(rest, r[p]) /\ how = TRUE
          BY <2>6, <4>4
        <5>3. IsTracker(v) /\ Rest(v) = Rest(w) /\ v.at = w.at /\ v.live = w.live
          BY <1>1, <5>1 DEF IsTracker, Rest
        <5>4. v.nodes = Refreshed(w, r[p], n, TRUE)
          BY <1>1, <5>1 DEF IsTracker
        <5>5. v.repl = [w.repl EXCEPT ![b] = Append(rest, r[p])]
          BY <1>1, <5>1 DEF IsTracker
        <5> HIDE DEF v, k, ss, rr, how, s, r, b, p, rest
        <5> QED
          BY <4>0, <5>2, <5>3, <5>4, <5>5
      <4> QED
        BY <4>1, <4>2, <4>3, <4>4
    <3> HIDE DEF v
    <3>2. k \in Named(w) /\ (l # 0 => s[l] \in ToSet(s)) /\ (l = 0 => p \in 1..Len(r) /\ r[p] \in ToSet(r))
      <4>1. ToSet(s) = {s[i] : i \in 1..Len(s)} /\ ToSet(r) = {r[i] : i \in 1..Len(r)}
        BY <2>3, ToSetIs, SMTT(30)
      <4>2. l # 0 => l \in 1..Len(s)
        <5> HIDE DEF s, l
        <5> QED
          BY <2>4, <2>5
      <4>3. l = 0 => p \in 1..Len(r)
        <5> HIDE DEF r, p, l
        <5> QED
          BY <2>4, <2>5, <2>6
      <4>4. ToSet(s) \subseteq Named(w) /\ ToSet(r) \subseteq Named(w)
        BY <2>3 DEF BucketOK
      <4> HIDE DEF s, r, l, p
      <4> QED
        BY <4>1, <4>2, <4>3, <4>4
    <3>3. how \in BOOLEAN
      OBVIOUS
    <3> HIDE DEF k, how
    <3>4. NodesInv(v) /\ Named(w) \subseteq Named(v) /\ DOMAIN v.nodes = DOMAIN w.nodes
      BY <1>1, <2>1, <3>1, <3>2, <3>3, RefreshedIs, SMTT(30)
    <3>5. BucketOK(ss, rr, Named(v))
      <4>1. BucketOK(s, r, Named(v)) /\ Clean(s) /\ Clean(r)
        BY <2>3, <3>4 DEF BucketOK
      <4>2. CASE l # 0
        <5>1. l \in 1..Len(s)
          <6> HIDE DEF s, l
          <6> QED
            BY <2>4, <2>5, <4>2
        <5>2. ss = Append(RemoveAt(s, l), s[l]) /\ rr = r
          BY <4>2
        <5> HIDE DEF ss, rr, s, r, l
        <5>3. Clean(ss) /\ Len(ss) = Len(s) /\ ToSet(ss) = ToSet(s)
          BY <4>1, <5>1, <5>2, ToTheEnd
        <5> QED
          BY <4>1, <5>2, <5>3 DEF BucketOK
      <4>3. CASE l = 0
        <5>1. p \in 1..Len(r) /\ r[p] \in ToSet(r)
          BY <3>2, <4>3
        <5> HIDE DEF l, p
        <5>2. Clean(rest) /\ Len(rest) = Len(r) - 1 /\ ToSet(rest) = ToSet(r) \ {r[p]}
          <6> HIDE DEF r
          <6> QED
            BY <4>1, <5>1, RemoveAtClean
        <5>3. r[p] \in Keys /\ r[p] \notin ToSet(s)
          <6>1. ToSet(s) \cap ToSet(r) = {} /\ ToSet(r) \subseteq Keys
            BY <2>3, ToSetIs DEF BucketOK
          <6> QED
            BY <5>1, <6>1
        <5> HIDE DEF rest
        <5>4. CASE keeps
          BY <4>1, <4>3, <5>4
        <5>5. CASE up
          <6>1. ss = Append(s, r[p]) /\ rr = rest
            BY <4>3, <5>5
          <6>2. Len(s) < BucketSize
            BY <5>5
          <6> HIDE DEF ss, rr, s, r, up, keeps
          <6>3. Clean(ss) /\ Len(ss) = Len(s) + 1 /\ ToSet(ss) = ToSet(s) \cup {r[p]}
            BY <4>1, <5>3, <6>1, AppendBounded
          <6>4. Len(ss) <= BucketSize /\ Len(rr) <= BucketSize
            BY <2>5, <4>1, <5>2, <6>1, <6>2, <6>3, Constants DEF BucketOK
          <6> QED
            BY <4>1, <5>1, <5>2, <5>3, <6>1, <6>3, <6>4 DEF BucketOK
        <5>6. CASE ~keeps /\ ~up
          <6>1. ss = s /\ rr = Append(rest, r[p])
            BY <4>3, <5>1, <5>6
          <6> HIDE DEF ss, rr, s, up, keeps
          <6>2. Clean(rr) /\ Len(rr) = Len(r) /\ ToSet(rr) = ToSet(r)
            <7> HIDE DEF r
            <7> QED
              BY <4>1, <5>1, <6>1, ToTheEnd DEF rest
          <6> HIDE DEF r
          <6> QED
            BY <4>1, <6>1, <6>2 DEF BucketOK
        <5> QED
          BY <5>4, <5>5, <5>6
      <4> QED
        BY <4>2, <4>3
    <3> HIDE DEF ss, rr, s, r, l, p
    <3>6. ListsInv(v)
      BY <1>1, <2>2, <3>1, <3>4, <3>5, OneBucket
    <3>7. TableInv(v) /\ v.at = w.at /\ Rest(v) = Rest(w)
      BY <3>1, <3>4, <3>6 DEF TableInv
    <3> QED
      BY <3>1, <3>4, <3>7 DEF Moves, Stays
  <2>7. ASSUME l = 0, p = 0
        PROVE  Stays(w, v)
    <3>1. v = Newcomer(w, b, n, confirmed)
      BY <1>3, <2>7 DEF AddNode
    <3>2. n \notin ToSet(s) /\ n \notin ToSet(r)
      <4>1. ToSet(s) = {s[i] : i \in 1..Len(s)} /\ ToSet(r) = {r[i] : i \in 1..Len(r)}
        BY <2>3, ToSetIs, SMTT(30)
      <4>2. Alike(w, n, n)
        BY DEF Alike
      <4>3. (\A i \in 1..Len(s) : ~Alike(w, s[i], n)) /\ (\A i \in 1..Len(r) : ~Alike(w, r[i], n))
        BY <2>4, <2>7
      <4> HIDE DEF s, r
      <4> QED
        BY <4>1, <4>2, <4>3
    <3> HIDE DEF v, b
    <3>3. Stays(w, Newcomer(w, b, n, confirmed))
      BY <2>1, <2>2, <3>2, NewcomerMoves
    <3> QED
      BY <3>1, <3>3
  <2> QED
    BY <2>6, <2>7
<1> QED
  BY <1>2, <1>3

\* One bucket changes, and maybe one contact.
LEMMA BucketMoves ==
  ASSUME NEW w, TableInv(w), NEW v, IsTracker(v), Rest(v) = Rest(w), v.at = w.at,
         NodesInv(v), Named(w) \subseteq Named(v), DOMAIN v.nodes = DOMAIN w.nodes,
         NEW b \in Buckets, NEW s, NEW r, BucketOK(s, r, Named(w)),
         v.live = [w.live EXCEPT ![b] = s], v.repl = [w.repl EXCEPT ![b] = r]
  PROVE  Moves(w, v)
<1>1. BucketOK(s, r, Named(v))
  BY DEF BucketOK
<1>2. ListsInv(v)
  BY <1>1, OneBucket DEF TableInv
<1> QED
  BY <1>2 DEF Moves, TableInv

\* NodeFailed: a contact that is dropped makes room, a replacement that takes
\* its place leaves the replacements.
LEMMA NodeFailedMoves ==
  ASSUME NEW w, TableInv(w), NEW n \in DOMAIN w.nodes
  PROVE  Moves(w, NodeFailed(w, n))
<1> DEFINE b == BucketIndex(w.nodes[n].id)
           s == w.live[b]
           r == w.repl[b]
           l == Position(w, s, n)
           p == Position(w, r, n)
           k == s[l]
           v == NodeFailed(w, n)
           counted == [w EXCEPT !.nodes[k] = Failed(@)]
<1>1. IsTracker(w) /\ NodesInv(w) /\ ListsInv(w)
  BY DEF TableInv
<1>2. CASE w.nodes[n].id = NoId
  <2>1. v = w
    BY <1>2 DEF NodeFailed
  <2> QED
    BY <2>1, MovesNothing
<1>3. ASSUME w.nodes[n].id # NoId
      PROVE  Moves(w, v)
  <2>1. w.nodes[n].id \in Ids
    BY <1>1, <1>3 DEF NodesInv, Contact
  <2>2. b \in Buckets
    BY <2>1, BucketOfIdentifier
  <2>3. BucketOK(s, r, Named(w)) /\ w.live \in [Buckets -> Seq(Keys)]
        /\ w.repl \in [Buckets -> Seq(Keys)] /\ s \in Seq(Keys) /\ r \in Seq(Keys)
    BY <1>1, <2>2 DEF ListsInv
  <2>4. l \in 0..Len(s) /\ p \in 0..Len(r)
    BY <2>3, PositionIs
  <2>5. Len(s) \in Nat /\ Len(r) \in Nat /\ Clean(s) /\ Clean(r)
    BY <2>3, LenProperties DEF BucketOK
  <2>6. /\ [w.live EXCEPT ![b] = s] = w.live /\ [w.repl EXCEPT ![b] = r] = w.repl
    BY <2>3
  <2>7. l # 0 => l \in 1..Len(s) /\ k \in ToSet(s) /\ k \in DOMAIN w.nodes
    <3> HIDE DEF s, l
    <3>1. ToSet(s) = {s[i] : i \in 1..Len(s)} /\ ToSet(s) \subseteq Named(w)
      BY <2>3, ToSetIs DEF BucketOK
    <3> QED
      BY <2>4, <2>5, <3>1 DEF Named
  <2>8. l # 0 => /\ Clean(RemoveAt(s, l)) /\ Len(RemoveAt(s, l)) = Len(s) - 1
                 /\ ToSet(RemoveAt(s, l)) = ToSet(s) \ {k}
    <3> HIDE DEF s, l
    <3> QED
      BY <2>5, <2>7, RemoveAtClean
  <2>9. l # 0 => BucketOK(RemoveAt(s, l), r, Named(w))
    <3> DEFINE ss == RemoveAt(s, l)
    <3>1. l # 0 => Clean(ss) /\ Len(ss) = Len(s) - 1 /\ ToSet(ss) \subseteq ToSet(s)
      BY <2>8
    <3> HIDE DEF ss, s, r, l
    <3>2. BucketSize \in Nat
      BY Constants
    <3> QED
      BY <2>3, <2>5, <3>1, <3>2 DEF BucketOK, ss
  <2>10. ASSUME l # 0
         PROVE  /\ IsTracker(counted) /\ Rest(counted) = Rest(w)
                /\ counted.at = w.at /\ counted.live = w.live /\ counted.repl = w.repl
                /\ NodesInv(counted) /\ Named(w) \subseteq Named(counted)
                /\ DOMAIN counted.nodes = DOMAIN w.nodes
    <3>1. /\ IsTracker(counted) /\ Rest(counted) = Rest(w)
          /\ counted.at = w.at /\ counted.live = w.live /\ counted.repl = w.repl
      BY <1>1 DEF IsTracker, Rest
    <3>2. counted.nodes = [w.nodes EXCEPT ![k] = Failed(w.nodes[k])]
      BY <1>1 DEF IsTracker
    <3>3. k \in DOMAIN w.nodes
      BY <2>7, <2>10
    <3> HIDE DEF counted, k
    <3>4. PICK c : c = Failed(w.nodes[k])
      OBVIOUS
    <3>5. counted.nodes = [w.nodes EXCEPT ![k] = c]
      BY <3>2, <3>4
    <3>6. /\ NodesInv(counted) /\ Named(w) \subseteq Named(counted)
          /\ DOMAIN counted.nodes = DOMAIN w.nodes
      BY <1>1, <3>1, <3>3, <3>4, <3>5, ConfirmedIs
    <3> QED
      BY <3>1, <3>6
  <2>11. CASE l # 0 /\ ~w.nodes[k].pinged
    <3>1. v = [w EXCEPT !.live[b] = RemoveAt(s, l)]
      BY <1>3, <2>11 DEF NodeFailed
    <3>2. /\ IsTracker(v) /\ Rest(v) = Rest(w) /\ v.at = w.at /\ v.nodes = w.nodes
          /\ v.repl = w.repl
      BY <1>1, <3>1 DEF IsTracker, Rest
    <3>3. v.live = [w.live EXCEPT ![b] = RemoveAt(s, l)]
      BY <1>1, <3>1 DEF IsTracker
    <3> HIDE DEF v, s, r, l, b, k
    <3>4. NodesInv(v) /\ Named(v) = Named(w)
      BY <1>1, <3>2 DEF NodesInv, Named, Sole
    <3> QED
      BY <2>2, <2>6, <2>9, <2>11, <3>2, <3>3, <3>4, BucketMoves
  <2>12. CASE l # 0 /\ w.nodes[k].pinged /\ r # << >>
    <3> DEFINE ss == [s EXCEPT ![l] = Head(r)]
               rr == Tail(r)
    <3>1. v = [counted EXCEPT !.live[b][l] = Head(r), !.repl[b] = Tail(@)]
      BY <1>3, <2>12 DEF NodeFailed
    <3>2. /\ IsTracker(counted) /\ counted.live = w.live /\ counted.repl = w.repl
      BY <2>10, <2>12
    <3> HIDE DEF counted
    <3>3. /\ IsTracker(v) /\ Rest(v) = Rest(counted) /\ v.at = counted.at
          /\ v.nodes = counted.nodes
      BY <3>1, <3>2 DEF IsTracker, Rest
    <3>4. v.live = [counted.live EXCEPT ![b] = [counted.live[b] EXCEPT ![l] = Head(r)]]
      BY <3>1, <3>2 DEF IsTracker
    <3>5. v.repl = [counted.repl EXCEPT ![b] = Tail(counted.repl[b])]
      BY <3>1, <3>2 DEF IsTracker
    <3> HIDE DEF v
    <3>6. v.live = [w.live EXCEPT ![b] = ss] /\ v.repl = [w.repl EXCEPT ![b] = rr]
      BY <3>2, <3>4, <3>5
    <3>7. /\ Clean(rr) /\ Len(rr) = Len(r) - 1 /\ ToSet(rr) = ToSet(r) \ {Head(r)}
          /\ Head(r) \in ToSet(r) /\ Head(r) \in Keys
      <4> HIDE DEF r
      <4> QED
        BY <2>5, <2>12, TailClean
    <3>8. /\ Clean(ss) /\ Len(ss) = Len(s) /\ ToSet(ss) = (ToSet(s) \ {k}) \cup {Head(r)}
      <4>1. Head(r) \notin ToSet(s) /\ l \in 1..Len(s)
        BY <2>3, <2>7, <2>12, <3>7 DEF BucketOK
      <4> HIDE DEF r, s, l, ss
      <4>2. ss = [s EXCEPT ![l] = Head(r)]
        BY DEF ss
      <4>3. PICK x : x = Head(r)
        OBVIOUS
      <4>4. Replaced(ss, s, l, x) /\ x \in Keys /\ x \notin ToSet(s)
        BY <3>7, <4>1, <4>2, <4>3 DEF Replaced
      <4>5. Clean(ss) /\ Len(ss) = Len(s) /\ ToSet(ss) = (ToSet(s) \ {s[l]}) \cup {x}
        BY <2>5, <4>1, <4>4, ReplacedClean
      <4> QED
        BY <4>3, <4>5
    <3> HIDE DEF ss, rr, s, r, k, l, b
    <3>9. BucketOK(ss, rr, Named(w))
      <4>1. Len(rr) <= BucketSize
        BY <2>3, <2>5, <3>7, Constants DEF BucketOK
      <4> QED
        BY <2>3, <3>7, <3>8, <4>1 DEF BucketOK
    <3>10. /\ IsTracker(v) /\ Rest(v) = Rest(w) /\ v.at = w.at /\ NodesInv(v)
           /\ Named(w) \subseteq Named(v) /\ DOMAIN v.nodes = DOMAIN w.nodes
      BY <2>10, <2>12, <3>3 DEF NodesInv, Named, Sole
    <3> QED
      BY <2>2, <3>6, <3>9, <3>10, BucketMoves
  <2>13. CASE l # 0 /\ w.nodes[k].pinged /\ r = << >>
    <3>1. CASE counted.nodes[k].fails = MaxFails
      <4>1. v = [counted EXCEPT !.live[b] = RemoveAt(@, l)]
        BY <1>3, <2>13, <3>1 DEF NodeFailed
      <4>2. IsTracker(counted) /\ counted.live = w.live /\ counted.repl = w.repl
        BY <2>10, <2>13
      <4> HIDE DEF counted
      <4>3. /\ IsTracker(v) /\ Rest(v) = Rest(counted) /\ v.at = counted.at
            /\ v.nodes = counted.nodes /\ v.repl = counted.repl
        BY <4>1, <4>2 DEF IsTracker, Rest
      <4>4. v.live = [counted.live EXCEPT ![b] = RemoveAt(counted.live[b], l)]
        BY <4>1, <4>2 DEF IsTracker
      <4> HIDE DEF v
      <4>5. v.live = [w.live EXCEPT ![b] = RemoveAt(s, l)] /\ v.repl = w.repl
        BY <4>2, <4>3, <4>4
      <4> HIDE DEF s, r, k, l, b
      <4>6. /\ IsTracker(v) /\ Rest(v) = Rest(w) /\ v.at = w.at /\ NodesInv(v)
            /\ Named(w) \subseteq Named(v) /\ DOMAIN v.nodes = DOMAIN w.nodes
        BY <2>10, <2>13, <4>3 DEF NodesInv, Named, Sole
      <4> QED
        BY <2>2, <2>6, <2>9, <2>13, <4>5, <4>6, BucketMoves
    <3>2. CASE counted.nodes[k].fails # MaxFails
      <4>1. v = counted
        BY <1>3, <2>13, <3>2 DEF NodeFailed
      <4> HIDE DEF v, counted, s, r, k, l, b
      <4> QED
        BY <2>2, <2>3, <2>6, <2>10, <2>13, <4>1, BucketMoves
    <3> QED
      BY <3>1, <3>2
  <2>14. CASE l = 0 /\ p # 0
    <3> DEFINE rr == RemoveAt(r, p)
    <3>1. v = [w EXCEPT !.repl[b] = RemoveAt(r, p)]
      BY <1>3, <2>14 DEF NodeFailed
    <3>2. /\ IsTracker(v) /\ Rest(v) = Rest(w) /\ v.at = w.at /\ v.nodes = w.nodes
          /\ v.live = w.live
      BY <1>1, <3>1 DEF IsTracker, Rest
    <3>3. v.repl = [w.repl EXCEPT ![b] = rr]
      BY <1>1, <3>1 DEF IsTracker
    <3> HIDE DEF v, s, r, l, b, k, p
    <3>4. NodesInv(v) /\ Named(v) = Named(w)
      BY <1>1, <3>2 DEF NodesInv, Named, Sole
    <3>5. p \in 1..Len(r)
      BY <2>4, <2>5, <2>14
    <3>6. Clean(rr) /\ Len(rr) = Len(r) - 1 /\ ToSet(rr) \subseteq ToSet(r)
      BY <2>5, <3>5, RemoveAtClean
    <3> HIDE DEF rr
    <3>7. BucketOK(s, rr, Named(w))
      BY <2>3, <2>5, <3>6, Constants DEF BucketOK
    <3> QED
      BY <2>2, <2>6, <3>2, <3>3, <3>4, <3>7, BucketMoves
  <2>15. CASE l = 0 /\ p = 0
    <3>1. v = w
      BY <1>3, <2>15 DEF NodeFailed
    <3> QED
      BY <3>1, MovesNothing
  <2> HIDE DEF v, s, r, l, b, k, p
  <2> QED
    BY <2>11, <2>12, <2>13, <2>14, <2>15
<1> QED
  BY <1>2, <1>3

\* A contact is replaced by one of the same address and identifier.
LEMMA SameContact ==
  ASSUME NEW w, TableInv(w), NEW v, IsTracker(v), Rest(v) = Rest(w), v.at = w.at,
         v.live = w.live, v.repl = w.repl,
         NEW k \in DOMAIN w.nodes, NEW c \in Contact, v.nodes = [w.nodes EXCEPT ![k] = c],
         c.addr = w.nodes[k].addr, c.id = w.nodes[k].id
  PROVE  Moves(w, v)
<1>1. NodesInv(w) /\ ListsInv(w) /\ c.addr \in DOMAIN w.at
  BY DEF TableInv, NodesInv
<1>2. \A j \in DOMAIN w.nodes : j \in Named(w) \/ w.nodes[j].addr # c.addr \/ j = k
  BY <1>1 DEF NodesInv, Sole
<1>3. k \in Named(w) => c.id # NoId
  BY DEF Named
<1>4. NodesInv(v) /\ Named(w) \subseteq Named(v) /\ DOMAIN v.nodes = DOMAIN w.nodes
  BY <1>1, <1>2, <1>3, OneContact
<1>5. ListsInv(v)
  BY <1>1, <1>4, SameLists
<1> QED
  BY <1>4, <1>5 DEF Moves, TableInv

LEMMA PutIs ==
  ASSUME NEW f, NEW k, NEW c
  PROVE  /\ DOMAIN Put(f, k, c) = DOMAIN f \cup {k} /\ Put(f, k, c)[k] = c
         /\ \A x \in DOMAIN f : x # k => Put(f, k, c)[x] = f[x]
BY DEF Put

\* A new contact c under a new key k: no contact without an identifier has the
\* address of another.
LEMMA PutContactIs ==
  ASSUME NEW w, TableInv(w), NEW a \in Addrs, NEW k \in Keys, k \notin DOMAIN w.nodes,
         NEW c \in Contact, c.addr = a,
         \A j \in DOMAIN w.nodes :
           w.nodes[j].addr = a => w.nodes[j].id # NoId /\ c.id # NoId,
         NEW v, v = PutContact(w, a, k, c)
  PROVE  /\ TableInv(v) /\ Rest(v) = Rest(w) /\ Named(w) \subseteq Named(v)
         /\ v.live = w.live /\ v.repl = w.repl
         /\ DOMAIN v.nodes = DOMAIN w.nodes \cup {k} /\ v.nodes[k] = c
         /\ \A j \in DOMAIN w.nodes : v.nodes[j] = w.nodes[j]
         /\ DOMAIN v.at = DOMAIN w.at \cup {a} /\ v.at[a] = k
         /\ \A x \in DOMAIN w.at : x # a => v.at[x] = w.at[x]
<1>1. IsTracker(w) /\ NodesInv(w) /\ ListsInv(w)
  BY DEF TableInv
<1>2. /\ IsTracker(v) /\ Rest(v) = Rest(w) /\ v.live = w.live /\ v.repl = w.repl
  BY <1>1 DEF IsTracker, Rest, PutContact
<1>3. v.nodes = Put(w.nodes, k, c)
  BY <1>1 DEF IsTracker, PutContact
<1>4. v.at = Put(w.at, a, k)
  BY <1>1 DEF IsTracker, PutContact
<1>5. /\ DOMAIN v.nodes = DOMAIN w.nodes \cup {k} /\ v.nodes[k] = c
      /\ \A j \in DOMAIN w.nodes : v.nodes[j] = w.nodes[j]
  BY <1>3 DEF Put
<1>6. /\ DOMAIN v.at = DOMAIN w.at \cup {a} /\ v.at[a] = k
      /\ \A x \in DOMAIN w.at : x # a => v.at[x] = w.at[x]
  BY <1>4 DEF Put
<1>7. v.nodes \in [DOMAIN v.nodes -> Contact]
  <2>1. v.nodes = [j \in DOMAIN v.nodes |-> v.nodes[j]]
    BY <1>3 DEF Put
  <2>2. \A j \in DOMAIN v.nodes : v.nodes[j] \in Contact
    BY <1>1, <1>5 DEF NodesInv
  <2> QED
    BY <2>1, <2>2
<1>8. v.at \in [DOMAIN v.at -> DOMAIN v.nodes]
  <2>1. v.at = [x \in DOMAIN v.at |-> v.at[x]]
    BY <1>4 DEF Put
  <2>2. \A x \in DOMAIN w.at : w.at[x] \in DOMAIN w.nodes
    BY <1>1 DEF NodesInv
  <2>3. \A x \in DOMAIN v.at : v.at[x] \in DOMAIN v.nodes
    BY <1>5, <1>6, <2>2
  <2> QED
    BY <2>1, <2>3
<1>9. IsFiniteSet(DOMAIN v.nodes)
  BY <1>1, <1>5, FS_AddElement DEF NodesInv
<1>10. Named(w) \subseteq Named(v)
  BY <1>5 DEF Named
<1>11. ASSUME NEW j \in DOMAIN v.nodes, j \notin Named(v)
       PROVE  Sole(v, j)
  <2>1. CASE j = k
    <3>1. c.id = NoId /\ \A i \in DOMAIN w.nodes : w.nodes[i].addr # a
      BY <1>5, <1>11, <2>1 DEF Named
    <3>2. \A x \in DOMAIN w.at : w.at[x] # k
      BY <1>1 DEF NodesInv
    <3> QED
      BY <1>5, <1>6, <2>1, <3>1, <3>2 DEF Sole
  <2>2. CASE j # k
    <3>1. j \in DOMAIN w.nodes /\ j \notin Named(w) /\ v.nodes[j] = w.nodes[j]
      BY <1>5, <1>10, <1>11, <2>2
    <3>2. Sole(w, j) /\ w.nodes[j].addr # a
      BY <1>1, <3>1 DEF NodesInv, Named
    <3>3. \A x \in DOMAIN v.at : v.at[x] = j <=> x = v.nodes[j].addr
      BY <1>6, <2>2, <3>1, <3>2 DEF Sole
    <3>4. \A i \in DOMAIN v.nodes : v.nodes[i].addr = v.nodes[j].addr => i = j
      BY <1>5, <3>1, <3>2 DEF Sole
    <3> QED
      BY <3>3, <3>4 DEF Sole
  <2> QED
    BY <2>1, <2>2
<1>12. \A j \in DOMAIN v.nodes : v.nodes[j].addr \in DOMAIN v.at
  BY <1>1, <1>5, <1>6 DEF NodesInv
<1>13. DOMAIN v.nodes \subseteq Keys /\ DOMAIN v.at \subseteq Addrs
  BY <1>1, <1>5, <1>6 DEF NodesInv
<1>14. NodesInv(v)
  BY <1>7, <1>8, <1>9, <1>11, <1>12, <1>13 DEF NodesInv
<1>15. ListsInv(v)
  BY <1>1, <1>2, <1>10, SameLists
<1>16. TableInv(v)
  BY <1>2, <1>14, <1>15 DEF TableInv
<1> QED
  BY <1>2, <1>5, <1>6, <1>10, <1>16

\* Among more keys than there are contacts one is new.
LEMMA NewKeyIsNew ==
  ASSUME NEW w, NodesInv(w), NEW a \in Addrs
  PROVE  NewKey(w, a) \in Keys /\ NewKey(w, a) \notin DOMAIN w.nodes
<1> DEFINE c == Cardinality(DOMAIN w.nodes)
           I == {n \in 1..c + 1 : <<a, n>> \notin DOMAIN w.nodes}
<1>1. IsFiniteSet(DOMAIN w.nodes) /\ c \in Nat
  BY FS_CardinalityType DEF NodesInv
<1>2. I # {}
  <2>1. SUFFICES ASSUME \A n \in 1..c + 1 : <<a, n>> \in DOMAIN w.nodes
                 PROVE  FALSE
    OBVIOUS
  <2> DEFINE f == [n \in 1..c + 1 |-> <<a, n>>]
             D == DOMAIN w.nodes
  <2>2. f \in [1..c + 1 -> D]
    BY <2>1
  <2>3. \A m, n \in 1..c + 1 : f[m] = f[n] => m = n
    OBVIOUS
  <2>4. IsFiniteSet(1..c + 1) /\ Cardinality(1..c + 1) = c + 1
    <3> HIDE DEF c
    <3>1. 1 \in Int /\ c + 1 \in Int
      BY <1>1
    <3> QED
      BY <1>1, <3>1, FS_Interval
  <2> HIDE DEF f, D
  <2>5. f \in Injection(1..c + 1, D)
    BY <2>2, <2>3 DEF Injection, IsInjective
  <2>6. Cardinality(1..c + 1) <= Cardinality(D)
    BY <1>1, <2>4, <2>5, FS_Injection DEF D
  <2> QED
    BY <1>1, <2>4, <2>6 DEF D
<1>3. Min(I) \in I
  <2>1. I \in SUBSET Nat
    <3> HIDE DEF c
    <3> QED
      BY <1>1
  <2> HIDE DEF I
  <2> QED
    BY <1>2, <2>1, LeastOf
<1>4. NewKey(w, a) = <<a, Min(I)>>
  BY DEF NewKey
<1>5. Min(I) \in Nat \ {0} /\ <<a, Min(I)>> \notin DOMAIN w.nodes
  <2> DEFINE m == Min(I)
  <2>1. m \in 1..c + 1 /\ <<a, m>> \notin DOMAIN w.nodes
    BY <1>3
  <2> HIDE DEF m, c
  <2> QED
    BY <1>1, <2>1 DEF m
<1> HIDE DEF I
<1> QED
  BY <1>4, <1>5 DEF Keys

LEMMA KnownMoves ==
  ASSUME NEW w, TableInv(w), NEW a \in Addrs
  PROVE  /\ Moves(w, Known(w, a)) /\ a \in DOMAIN Known(w, a).at
         /\ Known(w, a).live = w.live
<1>1. CASE a \in DOMAIN w.at
  BY <1>1, MovesNothing DEF Known
<1>2. CASE a \notin DOMAIN w.at
  <2> DEFINE k == NewKey(w, a)
             c == NewContact(a)
             v == PutContact(w, a, k, c)
  <2>1. Known(w, a) = v
    BY <1>2 DEF Known
  <2>2. k \in Keys /\ k \notin DOMAIN w.nodes
    BY NewKeyIsNew DEF TableInv
  <2>3. c \in Contact /\ c.addr = a
    BY Constants DEF NewContact, Contact
  <2>4. \A j \in DOMAIN w.nodes : w.nodes[j].addr # a
    BY <1>2 DEF TableInv, NodesInv
  <2> HIDE DEF k, c
  <2>5. /\ TableInv(v) /\ Rest(v) = Rest(w) /\ Named(w) \subseteq Named(v)
        /\ v.live = w.live
        /\ DOMAIN v.nodes = DOMAIN w.nodes \cup {k}
        /\ DOMAIN v.at = DOMAIN w.at \cup {a}
        /\ \A x \in DOMAIN w.at : x # a => v.at[x] = w.at[x]
    BY <2>2, <2>3, <2>4, PutContactIs
  <2> HIDE DEF v
  <2> QED
    BY <1>2, <2>1, <2>5 DEF Moves
<1> QED
  BY <1>1, <1>2

\* The contact of an address is told again: the address is its own then.
LEMMA ToldMoves ==
  ASSUME NEW w, TableInv(w), NEW a \in DOMAIN w.at, NEW v, NEW c \in Contact,
         IsTracker(v), Rest(v) = Rest(w), v.at = w.at, v.live = w.live, v.repl = w.repl,
         v.nodes = [w.nodes EXCEPT ![w.at[a]] = c],
         c.addr = a, w.nodes[w.at[a]].id # NoId => c.id # NoId
  PROVE  Moves(w, v)
<1> DEFINE n == w.at[a]
<1>1. NodesInv(w) /\ ListsInv(w) /\ n \in DOMAIN w.nodes
  BY DEF TableInv, NodesInv
<1>2. n \in Named(w) => c.id # NoId
  BY DEF Named
<1>3. n \notin Named(w) => c.addr = w.nodes[n].addr
  BY <1>1 DEF NodesInv, Sole
<1>4. \A j \in DOMAIN w.nodes : j \in Named(w) \/ w.nodes[j].addr # c.addr \/ j = n
  BY <1>1 DEF NodesInv, Sole
<1>5. v.nodes = [w.nodes EXCEPT ![n] = c]
  OBVIOUS
<1> HIDE DEF n
<1>6. NodesInv(v) /\ Named(w) \subseteq Named(v) /\ DOMAIN v.nodes = DOMAIN w.nodes
  BY <1>1, <1>2, <1>3, <1>4, <1>5, OneContact
<1>7. ListsInv(v)
  BY <1>1, <1>6, SameLists
<1> QED
  BY <1>6, <1>7 DEF Moves, TableInv

\* addOrUpdateNodeLocked
LEMMA AddOrUpdateMoves ==
  ASSUME NEW w, TableInv(w), NEW a \in Addrs, NEW id \in Ids \cup {NoId}
  PROVE  Moves(w, AddOrUpdate(w, id, a)) /\ a \in DOMAIN AddOrUpdate(w, id, a).at
<1> DEFINE v == Known(w, a)
           n == v.at[a]
           c == Told(v.nodes[n], a, id)
           told == [v EXCEPT !.nodes[n] = Told(@, a, id)]
<1>1. Moves(w, v) /\ a \in DOMAIN v.at
  BY KnownMoves
<1>2. AddOrUpdate(w, id, a) = AddNode(told, n, FALSE)
  BY DEF AddOrUpdate
<1> HIDE DEF v
<1>3. TableInv(v) /\ IsTracker(v) /\ n \in DOMAIN v.nodes /\ v.nodes[n] \in Contact
  BY <1>1 DEF Moves, TableInv, NodesInv
<1>4. c \in Contact /\ c.addr = a /\ (v.nodes[n].id # NoId => c.id # NoId)
  <2> DEFINE o == v.nodes[n]
             i == IF id # NoId THEN id ELSE o.id
             d == [o EXCEPT !.addr = a]
  <2>1. o \in Contact /\ i \in Ids \cup {NoId} /\ (o.id # NoId => i # NoId)
    BY <1>3 DEF Contact
  <2>2. d \in Contact /\ d.addr = a /\ d.id = o.id
    <3> HIDE DEF o
    <3> QED
      BY <2>1 DEF Contact
  <2>3. c = [d EXCEPT !.id = i]
    BY <1>3 DEF Told, Contact
  <2> HIDE DEF o, i, c, d
  <2> QED
    BY <2>1, <2>2, <2>3 DEF Contact, o
<1>5. /\ IsTracker(told) /\ Rest(told) = Rest(v) /\ told.at = v.at
      /\ told.live = v.live /\ told.repl = v.repl
  BY <1>3 DEF IsTracker, Rest
<1>6. told.nodes = [v.nodes EXCEPT ![n] = c]
  <2> HIDE DEF v
  <2> QED
    BY <1>3 DEF IsTracker
<1> HIDE DEF c, told
<1>7. Moves(v, told)
  BY <1>1, <1>3, <1>4, <1>5, <1>6, ToldMoves
<1>8. n \in DOMAIN told.nodes /\ TableInv(told)
  BY <1>3, <1>7 DEF Moves
<1> HIDE DEF n
<1>9. Moves(told, AddNode(told, n, FALSE))
  BY <1>8, AddNodeMoves DEF Stays
<1>10. Moves(w, AddNode(told, n, FALSE))
  BY <1>1, <1>7, <1>9, MovesAgain
<1>11. a \in DOMAIN AddNode(told, n, FALSE).at
  BY <1>1, <1>7, <1>9 DEF Moves
<1> QED
  BY <1>2, <1>10, <1>11

\* confirmNodeLocked
LEMMA ConfirmNodeMoves ==
  ASSUME NEW w, TableInv(w), NEW a \in Addrs
  PROVE  Moves(w, ConfirmNode(w, a))
<1> DEFINE n == w.at[a]
           v == [w EXCEPT !.nodes[n] = Confirmed(@)]
<1>1. CASE a \notin DOMAIN w.at \/ w.nodes[n].id = NoId
  <2>1. ConfirmNode(w, a) = w
    BY <1>1 DEF ConfirmNode
  <2> QED
    BY <2>1, MovesNothing
<1>2. ASSUME a \in DOMAIN w.at, w.nodes[n].id # NoId
      PROVE  Moves(w, ConfirmNode(w, a))
  <2>1. ConfirmNode(w, a) = AddNode(v, n, TRUE)
    BY <1>2 DEF ConfirmNode
  <2>2. IsTracker(w) /\ n \in DOMAIN w.nodes /\ w.nodes[n] \in Contact
    BY <1>2 DEF TableInv, NodesInv
  <2>3. /\ IsTracker(v) /\ Rest(v) = Rest(w) /\ v.at = w.at
        /\ v.live = w.live /\ v.repl = w.repl
    BY <2>2 DEF IsTracker, Rest
  <2>4. v.nodes = [w.nodes EXCEPT ![n] = Confirmed(w.nodes[n])]
    BY <2>2 DEF IsTracker
  <2>5. PICK c : c = Confirmed(w.nodes[n])
    OBVIOUS
  <2>6. c \in Contact /\ c.addr = w.nodes[n].addr /\ c.id = w.nodes[n].id
    BY <2>2, <2>5, ContactFields
  <2> HIDE DEF v
  <2>7. v.nodes = [w.nodes EXCEPT ![n] = c]
    BY <2>4, <2>5
  <2> HIDE DEF n
  <2>8. Moves(w, v)
    BY <2>2, <2>3, <2>6, <2>7, SameContact
  <2>9. Moves(v, AddNode(v, n, TRUE))
    BY <2>2, <2>8, AddNodeMoves DEF Moves, Stays
  <2> QED
    BY <2>1, <2>8, <2>9, MovesAgain
<1> QED
  BY <1>1, <1>2

-----------------------------------------------------------------------------
(* What is done for each element of a list, step by step *)

\* A fold goes from state to state: one more state after those up to m.
Longer(more, st, m, x) ==
  /\ more = [i \in 0..(m + 1) |-> more[i]]
  /\ \A i \in 0..m : more[i] = st[i]
  /\ more[m + 1] = x
LEMMA OneMore ==
  ASSUME NEW m \in Nat, NEW st, NEW x
  PROVE  \E more : Longer(more, st, m, x)
<1> DEFINE more == [i \in 0..(m + 1) |-> IF i = m + 1 THEN x ELSE st[i]]
<1>1. /\ more = [i \in 0..(m + 1) |-> more[i]] /\ more[m + 1] = x
      /\ \A i \in 0..m : more[i] = st[i]
  OBVIOUS
<1> HIDE DEF more
<1>2. Longer(more, st, m, x)
  BY <1>1 DEF Longer
<1> QED
  BY <1>2

\* addEntry for each of a list of addresses
RunUnknown(st, t, target, list, m) ==
  st = [i \in 0..m |-> IF i = 0 THEN t ELSE AddEntry(st[i - 1], target, list[i], NoId)]
StepsUnknown(now, t, target, list, n) ==
  /\ now[0] = t /\ now[n] = AddUnknown(t, target, list)
  /\ \A i \in 0..(n - 1) : now[i + 1] = AddEntry(now[i], target, list[i + 1], NoId)
LEMMA FoldUnknown ==
  ASSUME NEW t, NEW target, NEW list, NEW n \in Nat, n = Len(list)
  PROVE  \E now : StepsUnknown(now, t, target, list, n)
<1> DEFINE good == {m \in 0..n : \E st : RunUnknown(st, t, target, list, m)}
<1>1. 0 \in good
  <2>1. RunUnknown([i \in 0..0 |-> t], t, target, list, 0)
    BY DEF RunUnknown
  <2> QED
    BY <2>1
<1>2. ASSUME NEW m \in 0..(n - 1), m \in good
      PROVE  m + 1 \in good
  <2>1. PICK st : RunUnknown(st, t, target, list, m)
    BY <1>2
  <2>2. \A i \in 0..m : st[i] = IF i = 0 THEN t ELSE AddEntry(st[i - 1], target, list[i], NoId)
    BY <2>1 DEF RunUnknown
  <2> DEFINE x == AddEntry(st[m], target, list[m + 1], NoId)
  <2> HIDE DEF x
  <2>3. PICK more : Longer(more, st, m, x)
    BY OneMore
  <2>4. ASSUME NEW i \in 1..(m + 1)
        PROVE  more[i] = AddEntry(more[i - 1], target, list[i], NoId)
    <3>0. i - 1 \in 0..m /\ i # 0
      OBVIOUS
    <3>1. more[i - 1] = st[i - 1]
      BY <2>3, <3>0 DEF Longer
    <3>2. CASE i \in 0..m
      BY <2>2, <2>3, <3>0, <3>1, <3>2 DEF Longer
    <3>3. CASE i = m + 1
      <4>1. more[i] = x /\ i - 1 = m
        BY <2>3, <3>3 DEF Longer
      <4> QED
        BY <3>1, <3>3, <4>1 DEF x
    <3> QED
      BY <3>2, <3>3
  <2>5. RunUnknown(more, t, target, list, m + 1)
    <3>1. more[0] = st[0] /\ more = [i \in 0..(m + 1) |-> more[i]]
      BY <2>3 DEF Longer
    <3>2. more[0] = t
      BY <2>2, <3>1
    <3>3. \A i \in 0..(m + 1) : more[i] = IF i = 0 THEN t ELSE AddEntry(more[i - 1], target, list[i], NoId)
      BY <2>4, <3>2
    <3> QED
      BY <3>1, <3>3 DEF RunUnknown
  <2> QED
    BY <2>5
<1>3. n \in good
  <2> HIDE DEF good
  <2>1. \A i \in 0..n : i \in good
    BY ONLY <1>1, <1>2, n \in Nat, UpTo, ZenonT(30)
  <2> QED
    BY <2>1
<1> DEFINE now == CHOOSE st : RunUnknown(st, t, target, list, n)
<1>4. RunUnknown(now, t, target, list, n)
  <2>1. \E st : RunUnknown(st, t, target, list, n)
    BY <1>3
  <2> QED
    BY <2>1
<1>5. now[n] = AddUnknown(t, target, list)
  BY DEF AddUnknown, After, RunUnknown
<1> HIDE DEF now, good
<1>6. \A i \in 0..n : now[i] = IF i = 0 THEN t ELSE AddEntry(now[i - 1], target, list[i], NoId)
  BY <1>4 DEF RunUnknown
<1>7. ASSUME NEW i \in 0..(n - 1)
      PROVE  now[i + 1] = AddEntry(now[i], target, list[i + 1], NoId)
  <2>1. i + 1 \in 0..n /\ i + 1 # 0 /\ (i + 1) - 1 = i
    OBVIOUS
  <2> QED
    BY <1>6, <2>1
<1>8. now[0] = t
  BY <1>6
<1>9. StepsUnknown(now, t, target, list, n)
  BY <1>5, <1>7, <1>8 DEF StepsUnknown
<1> QED
  BY <1>9

Pass(w, t, acc, list) ==
  After(acc, LAMBDA a, i : Visit(w, t, a, i), list)
\* the pass of addRequests over its list
RunVisits(st, acc, w, t, list, m) ==
  st = [i \in 0..m |-> IF i = 0 THEN acc ELSE Visit(w, t, st[i - 1], list[i])]
StepsVisits(now, acc, w, t, list, n) ==
  /\ now[0] = acc /\ now[n] = Pass(w, t, acc, list)
  /\ \A i \in 0..(n - 1) : now[i + 1] = Visit(w, t, now[i], list[i + 1])
LEMMA FoldVisits ==
  ASSUME NEW acc, NEW w, NEW t, NEW list, NEW n \in Nat, n = Len(list)
  PROVE  \E now : StepsVisits(now, acc, w, t, list, n)
<1> DEFINE good == {m \in 0..n : \E st : RunVisits(st, acc, w, t, list, m)}
<1>1. 0 \in good
  <2>1. RunVisits([i \in 0..0 |-> acc], acc, w, t, list, 0)
    BY DEF RunVisits
  <2> QED
    BY <2>1
<1>2. ASSUME NEW m \in 0..(n - 1), m \in good
      PROVE  m + 1 \in good
  <2>1. PICK st : RunVisits(st, acc, w, t, list, m)
    BY <1>2
  <2>2. \A i \in 0..m : st[i] = IF i = 0 THEN acc ELSE Visit(w, t, st[i - 1], list[i])
    BY <2>1 DEF RunVisits
  <2> DEFINE x == Visit(w, t, st[m], list[m + 1])
  <2> HIDE DEF x
  <2>3. PICK more : Longer(more, st, m, x)
    BY OneMore
  <2>4. ASSUME NEW i \in 1..(m + 1)
        PROVE  more[i] = Visit(w, t, more[i - 1], list[i])
    <3>0. i - 1 \in 0..m /\ i # 0
      OBVIOUS
    <3>1. more[i - 1] = st[i - 1]
      BY <2>3, <3>0 DEF Longer
    <3>2. CASE i \in 0..m
      BY <2>2, <2>3, <3>0, <3>1, <3>2 DEF Longer
    <3>3. CASE i = m + 1
      <4>1. more[i] = x /\ i - 1 = m
        BY <2>3, <3>3 DEF Longer
      <4> QED
        BY <3>1, <3>3, <4>1 DEF x
    <3> QED
      BY <3>2, <3>3
  <2>5. RunVisits(more, acc, w, t, list, m + 1)
    <3>1. more[0] = st[0] /\ more = [i \in 0..(m + 1) |-> more[i]]
      BY <2>3 DEF Longer
    <3>2. more[0] = acc
      BY <2>2, <3>1
    <3>3. \A i \in 0..(m + 1) : more[i] = IF i = 0 THEN acc ELSE Visit(w, t, more[i - 1], list[i])
      BY <2>4, <3>2
    <3> QED
      BY <3>1, <3>3 DEF RunVisits
  <2> QED
    BY <2>5
<1>3. n \in good
  <2> HIDE DEF good
  <2>1. \A i \in 0..n : i \in good
    BY ONLY <1>1, <1>2, n \in Nat, UpTo, ZenonT(30)
  <2> QED
    BY <2>1
<1> DEFINE now == CHOOSE st : RunVisits(st, acc, w, t, list, n)
<1>4. RunVisits(now, acc, w, t, list, n)
  <2>1. \E st : RunVisits(st, acc, w, t, list, n)
    BY <1>3
  <2> QED
    BY <2>1
<1>5. now[n] = Pass(w, t, acc, list)
  BY DEF Pass, After, RunVisits
<1> HIDE DEF now, good
<1>6. \A i \in 0..n : now[i] = IF i = 0 THEN acc ELSE Visit(w, t, now[i - 1], list[i])
  BY <1>4 DEF RunVisits
<1>7. ASSUME NEW i \in 0..(n - 1)
      PROVE  now[i + 1] = Visit(w, t, now[i], list[i + 1])
  <2>1. i + 1 \in 0..n /\ i + 1 # 0 /\ (i + 1) - 1 = i
    OBVIOUS
  <2> QED
    BY <1>6, <2>1
<1>8. now[0] = acc
  BY <1>6
<1>9. StepsVisits(now, acc, w, t, list, n)
  BY <1>5, <1>7, <1>8 DEF StepsVisits
<1> QED
  BY <1>9

Meet(t, v, i) == IF t.obs[i].queried THEN v ELSE Greet(v, t.obs[i])
\* done of a bootstrap
RunUnqueried(st, w, t, m) ==
  st = [i \in 0..m |-> IF i = 0 THEN w ELSE Meet(t, st[i - 1], t.order[i])]
StepsUnqueried(now, w, t, n) ==
  /\ now[0] = w /\ now[n] = AddUnqueried(w, t)
  /\ \A i \in 0..(n - 1) : now[i + 1] = Meet(t, now[i], t.order[i + 1])
LEMMA FoldUnqueried ==
  ASSUME NEW w, NEW t, NEW n \in Nat, n = Len(t.order)
  PROVE  \E now : StepsUnqueried(now, w, t, n)
<1> DEFINE good == {m \in 0..n : \E st : RunUnqueried(st, w, t, m)}
<1>1. 0 \in good
  <2>1. RunUnqueried([i \in 0..0 |-> w], w, t, 0)
    BY DEF RunUnqueried
  <2> QED
    BY <2>1
<1>2. ASSUME NEW m \in 0..(n - 1), m \in good
      PROVE  m + 1 \in good
  <2>1. PICK st : RunUnqueried(st, w, t, m)
    BY <1>2
  <2>2. \A i \in 0..m : st[i] = IF i = 0 THEN w ELSE Meet(t, st[i - 1], t.order[i])
    BY <2>1 DEF RunUnqueried
  <2> DEFINE x == Meet(t, st[m], t.order[m + 1])
  <2> HIDE DEF x
  <2>3. PICK more : Longer(more, st, m, x)
    BY OneMore
  <2>4. ASSUME NEW i \in 1..(m + 1)
        PROVE  more[i] = Meet(t, more[i - 1], t.order[i])
    <3>0. i - 1 \in 0..m /\ i # 0
      OBVIOUS
    <3>1. more[i - 1] = st[i - 1]
      BY <2>3, <3>0 DEF Longer
    <3>2. CASE i \in 0..m
      BY <2>2, <2>3, <3>0, <3>1, <3>2 DEF Longer
    <3>3. CASE i = m + 1
      <4>1. more[i] = x /\ i - 1 = m
        BY <2>3, <3>3 DEF Longer
      <4> QED
        BY <3>1, <3>3, <4>1 DEF x
    <3> QED
      BY <3>2, <3>3
  <2>5. RunUnqueried(more, w, t, m + 1)
    <3>1. more[0] = st[0] /\ more = [i \in 0..(m + 1) |-> more[i]]
      BY <2>3 DEF Longer
    <3>2. more[0] = w
      BY <2>2, <3>1
    <3>3. \A i \in 0..(m + 1) : more[i] = IF i = 0 THEN w ELSE Meet(t, more[i - 1], t.order[i])
      BY <2>4, <3>2
    <3> QED
      BY <3>1, <3>3 DEF RunUnqueried
  <2> QED
    BY <2>5
<1>3. n \in good
  <2> HIDE DEF good
  <2>1. \A i \in 0..n : i \in good
    BY ONLY <1>1, <1>2, n \in Nat, UpTo, ZenonT(30)
  <2> QED
    BY <2>1
<1> DEFINE now == CHOOSE st : RunUnqueried(st, w, t, n)
<1>4. RunUnqueried(now, w, t, n)
  <2>1. \E st : RunUnqueried(st, w, t, n)
    BY <1>3
  <2> QED
    BY <2>1
<1>5. now[n] = AddUnqueried(w, t)
  BY DEF AddUnqueried, Meet, After, RunUnqueried
<1> HIDE DEF now, good
<1>6. \A i \in 0..n : now[i] = IF i = 0 THEN w ELSE Meet(t, now[i - 1], t.order[i])
  BY <1>4 DEF RunUnqueried
<1>7. ASSUME NEW i \in 0..(n - 1)
      PROVE  now[i + 1] = Meet(t, now[i], t.order[i + 1])
  <2>1. i + 1 \in 0..n /\ i + 1 # 0 /\ (i + 1) - 1 = i
    OBVIOUS
  <2> QED
    BY <1>6, <2>1
<1>8. now[0] = w
  BY <1>6
<1>9. StepsUnqueried(now, w, t, n)
  BY <1>5, <1>7, <1>8 DEF StepsUnqueried
<1> QED
  BY <1>9

AllSlow(w, list) ==
  After(w, Slow, list)
\* the short time-outs of a tick
RunSlow(st, w, list, m) ==
  st = [i \in 0..m |-> IF i = 0 THEN w ELSE Slow(st[i - 1], list[i])]
StepsSlow(now, w, list, n) ==
  /\ now[0] = w /\ now[n] = AllSlow(w, list)
  /\ \A i \in 0..(n - 1) : now[i + 1] = Slow(now[i], list[i + 1])
LEMMA FoldSlow ==
  ASSUME NEW w, NEW list, NEW n \in Nat, n = Len(list)
  PROVE  \E now : StepsSlow(now, w, list, n)
<1> DEFINE good == {m \in 0..n : \E st : RunSlow(st, w, list, m)}
<1>1. 0 \in good
  <2>1. RunSlow([i \in 0..0 |-> w], w, list, 0)
    BY DEF RunSlow
  <2> QED
    BY <2>1
<1>2. ASSUME NEW m \in 0..(n - 1), m \in good
      PROVE  m + 1 \in good
  <2>1. PICK st : RunSlow(st, w, list, m)
    BY <1>2
  <2>2. \A i \in 0..m : st[i] = IF i = 0 THEN w ELSE Slow(st[i - 1], list[i])
    BY <2>1 DEF RunSlow
  <2> DEFINE x == Slow(st[m], list[m + 1])
  <2> HIDE DEF x
  <2>3. PICK more : Longer(more, st, m, x)
    BY OneMore
  <2>4. ASSUME NEW i \in 1..(m + 1)
        PROVE  more[i] = Slow(more[i - 1], list[i])
    <3>0. i - 1 \in 0..m /\ i # 0
      OBVIOUS
    <3>1. more[i - 1] = st[i - 1]
      BY <2>3, <3>0 DEF Longer
    <3>2. CASE i \in 0..m
      BY <2>2, <2>3, <3>0, <3>1, <3>2 DEF Longer
    <3>3. CASE i = m + 1
      <4>1. more[i] = x /\ i - 1 = m
        BY <2>3, <3>3 DEF Longer
      <4> QED
        BY <3>1, <3>3, <4>1 DEF x
    <3> QED
      BY <3>2, <3>3
  <2>5. RunSlow(more, w, list, m + 1)
    <3>1. more[0] = st[0] /\ more = [i \in 0..(m + 1) |-> more[i]]
      BY <2>3 DEF Longer
    <3>2. more[0] = w
      BY <2>2, <3>1
    <3>3. \A i \in 0..(m + 1) : more[i] = IF i = 0 THEN w ELSE Slow(more[i - 1], list[i])
      BY <2>4, <3>2
    <3> QED
      BY <3>1, <3>3 DEF RunSlow
  <2> QED
    BY <2>5
<1>3. n \in good
  <2> HIDE DEF good
  <2>1. \A i \in 0..n : i \in good
    BY ONLY <1>1, <1>2, n \in Nat, UpTo, ZenonT(30)
  <2> QED
    BY <2>1
<1> DEFINE now == CHOOSE st : RunSlow(st, w, list, n)
<1>4. RunSlow(now, w, list, n)
  <2>1. \E st : RunSlow(st, w, list, n)
    BY <1>3
  <2> QED
    BY <2>1
<1>5. now[n] = AllSlow(w, list)
  BY DEF AllSlow, After, RunSlow
<1> HIDE DEF now, good
<1>6. \A i \in 0..n : now[i] = IF i = 0 THEN w ELSE Slow(now[i - 1], list[i])
  BY <1>4 DEF RunSlow
<1>7. ASSUME NEW i \in 0..(n - 1)
      PROVE  now[i + 1] = Slow(now[i], list[i + 1])
  <2>1. i + 1 \in 0..n /\ i + 1 # 0 /\ (i + 1) - 1 = i
    OBVIOUS
  <2> QED
    BY <1>6, <2>1
<1>8. now[0] = w
  BY <1>6
<1>9. StepsSlow(now, w, list, n)
  BY <1>5, <1>7, <1>8 DEF StepsSlow
<1> QED
  BY <1>9

AllOver(w, list) ==
  After(w, Over, list)
\* the time-outs of a tick
RunOver(st, w, list, m) ==
  st = [i \in 0..m |-> IF i = 0 THEN w ELSE Over(st[i - 1], list[i])]
StepsOver(now, w, list, n) ==
  /\ now[0] = w /\ now[n] = AllOver(w, list)
  /\ \A i \in 0..(n - 1) : now[i + 1] = Over(now[i], list[i + 1])
LEMMA FoldOver ==
  ASSUME NEW w, NEW list, NEW n \in Nat, n = Len(list)
  PROVE  \E now : StepsOver(now, w, list, n)
<1> DEFINE good == {m \in 0..n : \E st : RunOver(st, w, list, m)}
<1>1. 0 \in good
  <2>1. RunOver([i \in 0..0 |-> w], w, list, 0)
    BY DEF RunOver
  <2> QED
    BY <2>1
<1>2. ASSUME NEW m \in 0..(n - 1), m \in good
      PROVE  m + 1 \in good
  <2>1. PICK st : RunOver(st, w, list, m)
    BY <1>2
  <2>2. \A i \in 0..m : st[i] = IF i = 0 THEN w ELSE Over(st[i - 1], list[i])
    BY <2>1 DEF RunOver
  <2> DEFINE x == Over(st[m], list[m + 1])
  <2> HIDE DEF x
  <2>3. PICK more : Longer(more, st, m, x)
    BY OneMore
  <2>4. ASSUME NEW i \in 1..(m + 1)
        PROVE  more[i] = Over(more[i - 1], list[i])
    <3>0. i - 1 \in 0..m /\ i # 0
      OBVIOUS
    <3>1. more[i - 1] = st[i - 1]
      BY <2>3, <3>0 DEF Longer
    <3>2. CASE i \in 0..m
      BY <2>2, <2>3, <3>0, <3>1, <3>2 DEF Longer
    <3>3. CASE i = m + 1
      <4>1. more[i] = x /\ i - 1 = m
        BY <2>3, <3>3 DEF Longer
      <4> QED
        BY <3>1, <3>3, <4>1 DEF x
    <3> QED
      BY <3>2, <3>3
  <2>5. RunOver(more, w, list, m + 1)
    <3>1. more[0] = st[0] /\ more = [i \in 0..(m + 1) |-> more[i]]
      BY <2>3 DEF Longer
    <3>2. more[0] = w
      BY <2>2, <3>1
    <3>3. \A i \in 0..(m + 1) : more[i] = IF i = 0 THEN w ELSE Over(more[i - 1], list[i])
      BY <2>4, <3>2
    <3> QED
      BY <3>1, <3>3 DEF RunOver
  <2> QED
    BY <2>5
<1>3. n \in good
  <2> HIDE DEF good
  <2>1. \A i \in 0..n : i \in good
    BY ONLY <1>1, <1>2, n \in Nat, UpTo, ZenonT(30)
  <2> QED
    BY <2>1
<1> DEFINE now == CHOOSE st : RunOver(st, w, list, n)
<1>4. RunOver(now, w, list, n)
  <2>1. \E st : RunOver(st, w, list, n)
    BY <1>3
  <2> QED
    BY <2>1
<1>5. now[n] = AllOver(w, list)
  BY DEF AllOver, After, RunOver
<1> HIDE DEF now, good
<1>6. \A i \in 0..n : now[i] = IF i = 0 THEN w ELSE Over(now[i - 1], list[i])
  BY <1>4 DEF RunOver
<1>7. ASSUME NEW i \in 0..(n - 1)
      PROVE  now[i + 1] = Over(now[i], list[i + 1])
  <2>1. i + 1 \in 0..n /\ i + 1 # 0 /\ (i + 1) - 1 = i
    OBVIOUS
  <2> QED
    BY <1>6, <2>1
<1>8. now[0] = w
  BY <1>6
<1>9. StepsOver(now, w, list, n)
  BY <1>5, <1>7, <1>8 DEF StepsOver
<1> QED
  BY <1>9

HandOver(t, u, i) ==
  IF t.obs[i].failed THEN u ELSE AddCandidate(u, t.obs[i].to, t.obs[i].id)
HandOverAll(t, first) ==
  After(first,
        LAMBDA u, i : IF t.obs[i].failed THEN u
                      ELSE AddCandidate(u, t.obs[i].to, t.obs[i].id),
        t.order)
\* the contacts that a find hands over
RunDirect(st, first, t, m) ==
  st = [i \in 0..m |-> IF i = 0 THEN first ELSE HandOver(t, st[i - 1], t.order[i])]
StepsDirect(now, first, t, n) ==
  /\ now[0] = first /\ now[n] = HandOverAll(t, first)
  /\ \A i \in 0..(n - 1) : now[i + 1] = HandOver(t, now[i], t.order[i + 1])
LEMMA FoldDirect ==
  ASSUME NEW first, NEW t, NEW n \in Nat, n = Len(t.order)
  PROVE  \E now : StepsDirect(now, first, t, n)
<1> DEFINE good == {m \in 0..n : \E st : RunDirect(st, first, t, m)}
<1>1. 0 \in good
  <2>1. RunDirect([i \in 0..0 |-> first], first, t, 0)
    BY DEF RunDirect
  <2> QED
    BY <2>1
<1>2. ASSUME NEW m \in 0..(n - 1), m \in good
      PROVE  m + 1 \in good
  <2>1. PICK st : RunDirect(st, first, t, m)
    BY <1>2
  <2>2. \A i \in 0..m : st[i] = IF i = 0 THEN first ELSE HandOver(t, st[i - 1], t.order[i])
    BY <2>1 DEF RunDirect
  <2> DEFINE x == HandOver(t, st[m], t.order[m + 1])
  <2> HIDE DEF x
  <2>3. PICK more : Longer(more, st, m, x)
    BY OneMore
  <2>4. ASSUME NEW i \in 1..(m + 1)
        PROVE  more[i] = HandOver(t, more[i - 1], t.order[i])
    <3>0. i - 1 \in 0..m /\ i # 0
      OBVIOUS
    <3>1. more[i - 1] = st[i - 1]
      BY <2>3, <3>0 DEF Longer
    <3>2. CASE i \in 0..m
      BY <2>2, <2>3, <3>0, <3>1, <3>2 DEF Longer
    <3>3. CASE i = m + 1
      <4>1. more[i] = x /\ i - 1 = m
        BY <2>3, <3>3 DEF Longer
      <4> QED
        BY <3>1, <3>3, <4>1 DEF x
    <3> QED
      BY <3>2, <3>3
  <2>5. RunDirect(more, first, t, m + 1)
    <3>1. more[0] = st[0] /\ more = [i \in 0..(m + 1) |-> more[i]]
      BY <2>3 DEF Longer
    <3>2. more[0] = first
      BY <2>2, <3>1
    <3>3. \A i \in 0..(m + 1) : more[i] = IF i = 0 THEN first ELSE HandOver(t, more[i - 1], t.order[i])
      BY <2>4, <3>2
    <3> QED
      BY <3>1, <3>3 DEF RunDirect
  <2> QED
    BY <2>5
<1>3. n \in good
  <2> HIDE DEF good
  <2>1. \A i \in 0..n : i \in good
    BY ONLY <1>1, <1>2, n \in Nat, UpTo, ZenonT(30)
  <2> QED
    BY <2>1
<1> DEFINE now == CHOOSE st : RunDirect(st, first, t, n)
<1>4. RunDirect(now, first, t, n)
  <2>1. \E st : RunDirect(st, first, t, n)
    BY <1>3
  <2> QED
    BY <2>1
<1>5. now[n] = HandOverAll(t, first)
  BY DEF HandOverAll, HandOver, After, RunDirect
<1> HIDE DEF now, good
<1>6. \A i \in 0..n : now[i] = IF i = 0 THEN first ELSE HandOver(t, now[i - 1], t.order[i])
  BY <1>4 DEF RunDirect
<1>7. ASSUME NEW i \in 0..(n - 1)
      PROVE  now[i + 1] = HandOver(t, now[i], t.order[i + 1])
  <2>1. i + 1 \in 0..n /\ i + 1 # 0 /\ (i + 1) - 1 = i
    OBVIOUS
  <2> QED
    BY <1>6, <2>1
<1>8. now[0] = first
  BY <1>6
<1>9. StepsDirect(now, first, t, n)
  BY <1>5, <1>7, <1>8 DEF StepsDirect
<1> QED
  BY <1>9

AllNearer(w, target, found, live) ==
  After(found, LAMBDA list, n : Nearer(w, target, list, n), live)
\* one live list, ordered by distance
RunNearer(st, found, w, target, live, m) ==
  st = [i \in 0..m |-> IF i = 0 THEN found ELSE Nearer(w, target, st[i - 1], live[i])]
StepsNearer(now, found, w, target, live, n) ==
  /\ now[0] = found /\ now[n] = AllNearer(w, target, found, live)
  /\ \A i \in 0..(n - 1) : now[i + 1] = Nearer(w, target, now[i], live[i + 1])
LEMMA FoldNearer ==
  ASSUME NEW found, NEW w, NEW target, NEW live, NEW n \in Nat, n = Len(live)
  PROVE  \E now : StepsNearer(now, found, w, target, live, n)
<1> DEFINE good == {m \in 0..n : \E st : RunNearer(st, found, w, target, live, m)}
<1>1. 0 \in good
  <2>1. RunNearer([i \in 0..0 |-> found], found, w, target, live, 0)
    BY DEF RunNearer
  <2> QED
    BY <2>1
<1>2. ASSUME NEW m \in 0..(n - 1), m \in good
      PROVE  m + 1 \in good
  <2>1. PICK st : RunNearer(st, found, w, target, live, m)
    BY <1>2
  <2>2. \A i \in 0..m : st[i] = IF i = 0 THEN found ELSE Nearer(w, target, st[i - 1], live[i])
    BY <2>1 DEF RunNearer
  <2> DEFINE x == Nearer(w, target, st[m], live[m + 1])
  <2> HIDE DEF x
  <2>3. PICK more : Longer(more, st, m, x)
    BY OneMore
  <2>4. ASSUME NEW i \in 1..(m + 1)
        PROVE  more[i] = Nearer(w, target, more[i - 1], live[i])
    <3>0. i - 1 \in 0..m /\ i # 0
      OBVIOUS
    <3>1. more[i - 1] = st[i - 1]
      BY <2>3, <3>0 DEF Longer
    <3>2. CASE i \in 0..m
      BY <2>2, <2>3, <3>0, <3>1, <3>2 DEF Longer
    <3>3. CASE i = m + 1
      <4>1. more[i] = x /\ i - 1 = m
        BY <2>3, <3>3 DEF Longer
      <4> QED
        BY <3>1, <3>3, <4>1 DEF x
    <3> QED
      BY <3>2, <3>3
  <2>5. RunNearer(more, found, w, target, live, m + 1)
    <3>1. more[0] = st[0] /\ more = [i \in 0..(m + 1) |-> more[i]]
      BY <2>3 DEF Longer
    <3>2. more[0] = found
      BY <2>2, <3>1
    <3>3. \A i \in 0..(m + 1) : more[i] = IF i = 0 THEN found ELSE Nearer(w, target, more[i - 1], live[i])
      BY <2>4, <3>2
    <3> QED
      BY <3>1, <3>3 DEF RunNearer
  <2> QED
    BY <2>5
<1>3. n \in good
  <2> HIDE DEF good
  <2>1. \A i \in 0..n : i \in good
    BY ONLY <1>1, <1>2, n \in Nat, UpTo, ZenonT(30)
  <2> QED
    BY <2>1
<1> DEFINE now == CHOOSE st : RunNearer(st, found, w, target, live, n)
<1>4. RunNearer(now, found, w, target, live, n)
  <2>1. \E st : RunNearer(st, found, w, target, live, n)
    BY <1>3
  <2> QED
    BY <2>1
<1>5. now[n] = AllNearer(w, target, found, live)
  BY DEF AllNearer, After, RunNearer
<1> HIDE DEF now, good
<1>6. \A i \in 0..n : now[i] = IF i = 0 THEN found ELSE Nearer(w, target, now[i - 1], live[i])
  BY <1>4 DEF RunNearer
<1>7. ASSUME NEW i \in 0..(n - 1)
      PROVE  now[i + 1] = Nearer(w, target, now[i], live[i + 1])
  <2>1. i + 1 \in 0..n /\ i + 1 # 0 /\ (i + 1) - 1 = i
    OBVIOUS
  <2> QED
    BY <1>6, <2>1
<1>8. now[0] = found
  BY <1>6
<1>9. StepsNearer(now, found, w, target, live, n)
  BY <1>5, <1>7, <1>8 DEF StepsNearer
<1> QED
  BY <1>9

ByDistance(w, target, found, lists) ==
  After(found,
        LAMBDA all, live :
          After(all, LAMBDA list, n : Nearer(w, target, list, n), live),
        lists)
\* all live lists, ordered by distance
RunAllLive(st, found, w, target, lists, m) ==
  st = [i \in 0..m |-> IF i = 0 THEN found ELSE AllNearer(w, target, st[i - 1], lists[i])]
StepsAllLive(now, found, w, target, lists, n) ==
  /\ now[0] = found /\ now[n] = ByDistance(w, target, found, lists)
  /\ \A i \in 0..(n - 1) : now[i + 1] = AllNearer(w, target, now[i], lists[i + 1])
LEMMA FoldAllLive ==
  ASSUME NEW found, NEW w, NEW target, NEW lists, NEW n \in Nat, n = Len(lists)
  PROVE  \E now : StepsAllLive(now, found, w, target, lists, n)
<1> DEFINE good == {m \in 0..n : \E st : RunAllLive(st, found, w, target, lists, m)}
<1>1. 0 \in good
  <2>1. RunAllLive([i \in 0..0 |-> found], found, w, target, lists, 0)
    BY DEF RunAllLive
  <2> QED
    BY <2>1
<1>2. ASSUME NEW m \in 0..(n - 1), m \in good
      PROVE  m + 1 \in good
  <2>1. PICK st : RunAllLive(st, found, w, target, lists, m)
    BY <1>2
  <2>2. \A i \in 0..m : st[i] = IF i = 0 THEN found ELSE AllNearer(w, target, st[i - 1], lists[i])
    BY <2>1 DEF RunAllLive
  <2> DEFINE x == AllNearer(w, target, st[m], lists[m + 1])
  <2> HIDE DEF x
  <2>3. PICK more : Longer(more, st, m, x)
    BY OneMore
  <2>4. ASSUME NEW i \in 1..(m + 1)
        PROVE  more[i] = AllNearer(w, target, more[i - 1], lists[i])
    <3>0. i - 1 \in 0..m /\ i # 0
      OBVIOUS
    <3>1. more[i - 1] = st[i - 1]
      BY <2>3, <3>0 DEF Longer
    <3>2. CASE i \in 0..m
      BY <2>2, <2>3, <3>0, <3>1, <3>2 DEF Longer
    <3>3. CASE i = m + 1
      <4>1. more[i] = x /\ i - 1 = m
        BY <2>3, <3>3 DEF Longer
      <4> QED
        BY <3>1, <3>3, <4>1 DEF x
    <3> QED
      BY <3>2, <3>3
  <2>5. RunAllLive(more, found, w, target, lists, m + 1)
    <3>1. more[0] = st[0] /\ more = [i \in 0..(m + 1) |-> more[i]]
      BY <2>3 DEF Longer
    <3>2. more[0] = found
      BY <2>2, <3>1
    <3>3. \A i \in 0..(m + 1) : more[i] = IF i = 0 THEN found ELSE AllNearer(w, target, more[i - 1], lists[i])
      BY <2>4, <3>2
    <3> QED
      BY <3>1, <3>3 DEF RunAllLive
  <2> QED
    BY <2>5
<1>3. n \in good
  <2> HIDE DEF good
  <2>1. \A i \in 0..n : i \in good
    BY ONLY <1>1, <1>2, n \in Nat, UpTo, ZenonT(30)
  <2> QED
    BY <2>1
<1> DEFINE now == CHOOSE st : RunAllLive(st, found, w, target, lists, n)
<1>4. RunAllLive(now, found, w, target, lists, n)
  <2>1. \E st : RunAllLive(st, found, w, target, lists, n)
    BY <1>3
  <2> QED
    BY <2>1
<1>5. now[n] = ByDistance(w, target, found, lists)
  BY DEF ByDistance, AllNearer, After, RunAllLive
<1> HIDE DEF now, good
<1>6. \A i \in 0..n : now[i] = IF i = 0 THEN found ELSE AllNearer(w, target, now[i - 1], lists[i])
  BY <1>4 DEF RunAllLive
<1>7. ASSUME NEW i \in 0..(n - 1)
      PROVE  now[i + 1] = AllNearer(w, target, now[i], lists[i + 1])
  <2>1. i + 1 \in 0..n /\ i + 1 # 0 /\ (i + 1) - 1 = i
    OBVIOUS
  <2> QED
    BY <1>6, <2>1
<1>8. now[0] = found
  BY <1>6
<1>9. StepsAllLive(now, found, w, target, lists, n)
  BY <1>5, <1>7, <1>8 DEF StepsAllLive
<1> QED
  BY <1>9

AddContact(w, t, n) == AddCandidate(t, w.nodes[n].addr, w.nodes[n].id)
AddContacts(w, t, list) ==
  After(t, LAMBDA u, n : AddCandidate(u, w.nodes[n].addr, w.nodes[n].id), list)
\* the contacts a search starts from
RunCandidates(st, t, w, list, m) ==
  st = [i \in 0..m |-> IF i = 0 THEN t ELSE AddContact(w, st[i - 1], list[i])]
StepsCandidates(now, t, w, list, n) ==
  /\ now[0] = t /\ now[n] = AddContacts(w, t, list)
  /\ \A i \in 0..(n - 1) : now[i + 1] = AddContact(w, now[i], list[i + 1])
LEMMA FoldCandidates ==
  ASSUME NEW t, NEW w, NEW list, NEW n \in Nat, n = Len(list)
  PROVE  \E now : StepsCandidates(now, t, w, list, n)
<1> DEFINE good == {m \in 0..n : \E st : RunCandidates(st, t, w, list, m)}
<1>1. 0 \in good
  <2>1. RunCandidates([i \in 0..0 |-> t], t, w, list, 0)
    BY DEF RunCandidates
  <2> QED
    BY <2>1
<1>2. ASSUME NEW m \in 0..(n - 1), m \in good
      PROVE  m + 1 \in good
  <2>1. PICK st : RunCandidates(st, t, w, list, m)
    BY <1>2
  <2>2. \A i \in 0..m : st[i] = IF i = 0 THEN t ELSE AddContact(w, st[i - 1], list[i])
    BY <2>1 DEF RunCandidates
  <2> DEFINE x == AddContact(w, st[m], list[m + 1])
  <2> HIDE DEF x
  <2>3. PICK more : Longer(more, st, m, x)
    BY OneMore
  <2>4. ASSUME NEW i \in 1..(m + 1)
        PROVE  more[i] = AddContact(w, more[i - 1], list[i])
    <3>0. i - 1 \in 0..m /\ i # 0
      OBVIOUS
    <3>1. more[i - 1] = st[i - 1]
      BY <2>3, <3>0 DEF Longer
    <3>2. CASE i \in 0..m
      BY <2>2, <2>3, <3>0, <3>1, <3>2 DEF Longer
    <3>3. CASE i = m + 1
      <4>1. more[i] = x /\ i - 1 = m
        BY <2>3, <3>3 DEF Longer
      <4> QED
        BY <3>1, <3>3, <4>1 DEF x
    <3> QED
      BY <3>2, <3>3
  <2>5. RunCandidates(more, t, w, list, m + 1)
    <3>1. more[0] = st[0] /\ more = [i \in 0..(m + 1) |-> more[i]]
      BY <2>3 DEF Longer
    <3>2. more[0] = t
      BY <2>2, <3>1
    <3>3. \A i \in 0..(m + 1) : more[i] = IF i = 0 THEN t ELSE AddContact(w, more[i - 1], list[i])
      BY <2>4, <3>2
    <3> QED
      BY <3>1, <3>3 DEF RunCandidates
  <2> QED
    BY <2>5
<1>3. n \in good
  <2> HIDE DEF good
  <2>1. \A i \in 0..n : i \in good
    BY ONLY <1>1, <1>2, n \in Nat, UpTo, ZenonT(30)
  <2> QED
    BY <2>1
<1> DEFINE now == CHOOSE st : RunCandidates(st, t, w, list, n)
<1>4. RunCandidates(now, t, w, list, n)
  <2>1. \E st : RunCandidates(st, t, w, list, n)
    BY <1>3
  <2> QED
    BY <2>1
<1>5. now[n] = AddContacts(w, t, list)
  BY DEF AddContacts, AddContact, After, RunCandidates
<1> HIDE DEF now, good
<1>6. \A i \in 0..n : now[i] = IF i = 0 THEN t ELSE AddContact(w, now[i - 1], list[i])
  BY <1>4 DEF RunCandidates
<1>7. ASSUME NEW i \in 0..(n - 1)
      PROVE  now[i + 1] = AddContact(w, now[i], list[i + 1])
  <2>1. i + 1 \in 0..n /\ i + 1 # 0 /\ (i + 1) - 1 = i
    OBVIOUS
  <2> QED
    BY <1>6, <2>1
<1>8. now[0] = t
  BY <1>6
<1>9. StepsCandidates(now, t, w, list, n)
  BY <1>5, <1>7, <1>8 DEF StepsCandidates
<1> QED
  BY <1>9

\* Size
RunCount(st, w, m) ==
  st = [i \in 0..m |-> IF i = 0 THEN 0 ELSE st[i - 1] + Len(w.live[i])]
StepsCount(now, w, n) ==
  /\ now[0] = 0 /\ now[n] = LiveCount(w)
  /\ \A i \in 0..(n - 1) : now[i + 1] = now[i] + Len(w.live[i + 1])
LEMMA FoldCount ==
  ASSUME NEW w, NEW n \in Nat, n = Len(w.live)
  PROVE  \E now : StepsCount(now, w, n)
<1> DEFINE good == {m \in 0..n : \E st : RunCount(st, w, m)}
<1>1. 0 \in good
  <2>1. RunCount([i \in 0..0 |-> 0], w, 0)
    BY DEF RunCount
  <2> QED
    BY <2>1
<1>2. ASSUME NEW m \in 0..(n - 1), m \in good
      PROVE  m + 1 \in good
  <2>1. PICK st : RunCount(st, w, m)
    BY <1>2
  <2>2. \A i \in 0..m : st[i] = IF i = 0 THEN 0 ELSE st[i - 1] + Len(w.live[i])
    BY <2>1 DEF RunCount
  <2> DEFINE x == st[m] + Len(w.live[m + 1])
  <2> HIDE DEF x
  <2>3. PICK more : Longer(more, st, m, x)
    BY OneMore
  <2>4. ASSUME NEW i \in 1..(m + 1)
        PROVE  more[i] = more[i - 1] + Len(w.live[i])
    <3>0. i - 1 \in 0..m /\ i # 0
      OBVIOUS
    <3>1. more[i - 1] = st[i - 1]
      BY <2>3, <3>0 DEF Longer
    <3>2. CASE i \in 0..m
      BY <2>2, <2>3, <3>0, <3>1, <3>2 DEF Longer
    <3>3. CASE i = m + 1
      <4>1. more[i] = x /\ i - 1 = m
        BY <2>3, <3>3 DEF Longer
      <4> QED
        BY <3>1, <3>3, <4>1 DEF x
    <3> QED
      BY <3>2, <3>3
  <2>5. RunCount(more, w, m + 1)
    <3>1. more[0] = st[0] /\ more = [i \in 0..(m + 1) |-> more[i]]
      BY <2>3 DEF Longer
    <3>2. more[0] = 0
      BY <2>2, <3>1
    <3>3. \A i \in 0..(m + 1) : more[i] = IF i = 0 THEN 0 ELSE more[i - 1] + Len(w.live[i])
      BY <2>4, <3>2
    <3> QED
      BY <3>1, <3>3 DEF RunCount
  <2> QED
    BY <2>5
<1>3. n \in good
  <2> HIDE DEF good
  <2>1. \A i \in 0..n : i \in good
    BY ONLY <1>1, <1>2, n \in Nat, UpTo, ZenonT(30)
  <2> QED
    BY <2>1
<1> DEFINE now == CHOOSE st : RunCount(st, w, n)
<1>4. RunCount(now, w, n)
  <2>1. \E st : RunCount(st, w, n)
    BY <1>3
  <2> QED
    BY <2>1
<1>5. now[n] = LiveCount(w)
  BY DEF LiveCount, After, RunCount
<1> HIDE DEF now, good
<1>6. \A i \in 0..n : now[i] = IF i = 0 THEN 0 ELSE now[i - 1] + Len(w.live[i])
  BY <1>4 DEF RunCount
<1>7. ASSUME NEW i \in 0..(n - 1)
      PROVE  now[i + 1] = now[i] + Len(w.live[i + 1])
  <2>1. i + 1 \in 0..n /\ i + 1 # 0 /\ (i + 1) - 1 = i
    OBVIOUS
  <2> QED
    BY <1>6, <2>1
<1>8. now[0] = 0
  BY <1>6
<1>9. StepsCount(now, w, n)
  BY <1>5, <1>7, <1>8 DEF StepsCount
<1> QED
  BY <1>9

PutAllBack(w, u, list) ==
  After(u, LAMBDA v, k : PutBack(w, v, k), list)
\* ApplyState
RunPutBack(st, u, w, list, m) ==
  st = [i \in 0..m |-> IF i = 0 THEN u ELSE PutBack(w, st[i - 1], list[i])]
StepsPutBack(now, u, w, list, n) ==
  /\ now[0] = u /\ now[n] = PutAllBack(w, u, list)
  /\ \A i \in 0..(n - 1) : now[i + 1] = PutBack(w, now[i], list[i + 1])
LEMMA FoldPutBack ==
  ASSUME NEW u, NEW w, NEW list, NEW n \in Nat, n = Len(list)
  PROVE  \E now : StepsPutBack(now, u, w, list, n)
<1> DEFINE good == {m \in 0..n : \E st : RunPutBack(st, u, w, list, m)}
<1>1. 0 \in good
  <2>1. RunPutBack([i \in 0..0 |-> u], u, w, list, 0)
    BY DEF RunPutBack
  <2> QED
    BY <2>1
<1>2. ASSUME NEW m \in 0..(n - 1), m \in good
      PROVE  m + 1 \in good
  <2>1. PICK st : RunPutBack(st, u, w, list, m)
    BY <1>2
  <2>2. \A i \in 0..m : st[i] = IF i = 0 THEN u ELSE PutBack(w, st[i - 1], list[i])
    BY <2>1 DEF RunPutBack
  <2> DEFINE x == PutBack(w, st[m], list[m + 1])
  <2> HIDE DEF x
  <2>3. PICK more : Longer(more, st, m, x)
    BY OneMore
  <2>4. ASSUME NEW i \in 1..(m + 1)
        PROVE  more[i] = PutBack(w, more[i - 1], list[i])
    <3>0. i - 1 \in 0..m /\ i # 0
      OBVIOUS
    <3>1. more[i - 1] = st[i - 1]
      BY <2>3, <3>0 DEF Longer
    <3>2. CASE i \in 0..m
      BY <2>2, <2>3, <3>0, <3>1, <3>2 DEF Longer
    <3>3. CASE i = m + 1
      <4>1. more[i] = x /\ i - 1 = m
        BY <2>3, <3>3 DEF Longer
      <4> QED
        BY <3>1, <3>3, <4>1 DEF x
    <3> QED
      BY <3>2, <3>3
  <2>5. RunPutBack(more, u, w, list, m + 1)
    <3>1. more[0] = st[0] /\ more = [i \in 0..(m + 1) |-> more[i]]
      BY <2>3 DEF Longer
    <3>2. more[0] = u
      BY <2>2, <3>1
    <3>3. \A i \in 0..(m + 1) : more[i] = IF i = 0 THEN u ELSE PutBack(w, more[i - 1], list[i])
      BY <2>4, <3>2
    <3> QED
      BY <3>1, <3>3 DEF RunPutBack
  <2> QED
    BY <2>5
<1>3. n \in good
  <2> HIDE DEF good
  <2>1. \A i \in 0..n : i \in good
    BY ONLY <1>1, <1>2, n \in Nat, UpTo, ZenonT(30)
  <2> QED
    BY <2>1
<1> DEFINE now == CHOOSE st : RunPutBack(st, u, w, list, n)
<1>4. RunPutBack(now, u, w, list, n)
  <2>1. \E st : RunPutBack(st, u, w, list, n)
    BY <1>3
  <2> QED
    BY <2>1
<1>5. now[n] = PutAllBack(w, u, list)
  BY DEF PutAllBack, After, RunPutBack
<1> HIDE DEF now, good
<1>6. \A i \in 0..n : now[i] = IF i = 0 THEN u ELSE PutBack(w, now[i - 1], list[i])
  BY <1>4 DEF RunPutBack
<1>7. ASSUME NEW i \in 0..(n - 1)
      PROVE  now[i + 1] = PutBack(w, now[i], list[i + 1])
  <2>1. i + 1 \in 0..n /\ i + 1 # 0 /\ (i + 1) - 1 = i
    OBVIOUS
  <2> QED
    BY <1>6, <2>1
<1>8. now[0] = u
  BY <1>6
<1>9. StepsPutBack(now, u, w, list, n)
  BY <1>5, <1>7, <1>8 DEF StepsPutBack
<1> QED
  BY <1>9

MeetEntry(cs, edition, verified, v, i) ==
  MetInFile(v, cs[i], edition, i \in verified)
MeetEntries(cs, edition, verified, w, list) ==
  After(w, LAMBDA v, i : MetInFile(v, cs[i], edition, i \in verified), list)
\* ApplyNodesDat, the entries of a file
RunMetInFile(st, w, cs, edition, verified, list, m) ==
  st = [i \in 0..m |-> IF i = 0 THEN w ELSE MeetEntry(cs, edition, verified, st[i - 1], list[i])]
StepsMetInFile(now, w, cs, edition, verified, list, n) ==
  /\ now[0] = w /\ now[n] = MeetEntries(cs, edition, verified, w, list)
  /\ \A i \in 0..(n - 1) : now[i + 1] = MeetEntry(cs, edition, verified, now[i], list[i + 1])
LEMMA FoldMetInFile ==
  ASSUME NEW w, NEW cs, NEW edition, NEW verified, NEW list, NEW n \in Nat, n = Len(list)
  PROVE  \E now : StepsMetInFile(now, w, cs, edition, verified, list, n)
<1> DEFINE good == {m \in 0..n : \E st : RunMetInFile(st, w, cs, edition, verified, list, m)}
<1>1. 0 \in good
  <2>1. RunMetInFile([i \in 0..0 |-> w], w, cs, edition, verified, list, 0)
    BY DEF RunMetInFile
  <2> QED
    BY <2>1
<1>2. ASSUME NEW m \in 0..(n - 1), m \in good
      PROVE  m + 1 \in good
  <2>1. PICK st : RunMetInFile(st, w, cs, edition, verified, list, m)
    BY <1>2
  <2>2. \A i \in 0..m : st[i] = IF i = 0 THEN w ELSE MeetEntry(cs, edition, verified, st[i - 1], list[i])
    BY <2>1 DEF RunMetInFile
  <2> DEFINE x == MeetEntry(cs, edition, verified, st[m], list[m + 1])
  <2> HIDE DEF x
  <2>3. PICK more : Longer(more, st, m, x)
    BY OneMore
  <2>4. ASSUME NEW i \in 1..(m + 1)
        PROVE  more[i] = MeetEntry(cs, edition, verified, more[i - 1], list[i])
    <3>0. i - 1 \in 0..m /\ i # 0
      OBVIOUS
    <3>1. more[i - 1] = st[i - 1]
      BY <2>3, <3>0 DEF Longer
    <3>2. CASE i \in 0..m
      BY <2>2, <2>3, <3>0, <3>1, <3>2 DEF Longer
    <3>3. CASE i = m + 1
      <4>1. more[i] = x /\ i - 1 = m
        BY <2>3, <3>3 DEF Longer
      <4> QED
        BY <3>1, <3>3, <4>1 DEF x
    <3> QED
      BY <3>2, <3>3
  <2>5. RunMetInFile(more, w, cs, edition, verified, list, m + 1)
    <3>1. more[0] = st[0] /\ more = [i \in 0..(m + 1) |-> more[i]]
      BY <2>3 DEF Longer
    <3>2. more[0] = w
      BY <2>2, <3>1
    <3>3. \A i \in 0..(m + 1) : more[i] = IF i = 0 THEN w ELSE MeetEntry(cs, edition, verified, more[i - 1], list[i])
      BY <2>4, <3>2
    <3> QED
      BY <3>1, <3>3 DEF RunMetInFile
  <2> QED
    BY <2>5
<1>3. n \in good
  <2> HIDE DEF good
  <2>1. \A i \in 0..n : i \in good
    BY ONLY <1>1, <1>2, n \in Nat, UpTo, ZenonT(30)
  <2> QED
    BY <2>1
<1> DEFINE now == CHOOSE st : RunMetInFile(st, w, cs, edition, verified, list, n)
<1>4. RunMetInFile(now, w, cs, edition, verified, list, n)
  <2>1. \E st : RunMetInFile(st, w, cs, edition, verified, list, n)
    BY <1>3
  <2> QED
    BY <2>1
<1>5. now[n] = MeetEntries(cs, edition, verified, w, list)
  BY DEF MeetEntries, MeetEntry, After, RunMetInFile
<1> HIDE DEF now, good
<1>6. \A i \in 0..n : now[i] = IF i = 0 THEN w ELSE MeetEntry(cs, edition, verified, now[i - 1], list[i])
  BY <1>4 DEF RunMetInFile
<1>7. ASSUME NEW i \in 0..(n - 1)
      PROVE  now[i + 1] = MeetEntry(cs, edition, verified, now[i], list[i + 1])
  <2>1. i + 1 \in 0..n /\ i + 1 # 0 /\ (i + 1) - 1 = i
    OBVIOUS
  <2> QED
    BY <1>6, <2>1
<1>8. now[0] = w
  BY <1>6
<1>9. StepsMetInFile(now, w, cs, edition, verified, list, n)
  BY <1>5, <1>7, <1>8 DEF StepsMetInFile
<1> QED
  BY <1>9

Confirm(v, c) == AddNode(v, v.at[c[1]], TRUE)
ConfirmAll(w, cs) ==
  After(w, LAMBDA v, c : AddNode(v, v.at[c[1]], TRUE), cs)
\* ApplyNodesDat, all entries as confirmed
RunConfirm(st, w, cs, m) ==
  st = [i \in 0..m |-> IF i = 0 THEN w ELSE Confirm(st[i - 1], cs[i])]
StepsConfirm(now, w, cs, n) ==
  /\ now[0] = w /\ now[n] = ConfirmAll(w, cs)
  /\ \A i \in 0..(n - 1) : now[i + 1] = Confirm(now[i], cs[i + 1])
LEMMA FoldConfirm ==
  ASSUME NEW w, NEW cs, NEW n \in Nat, n = Len(cs)
  PROVE  \E now : StepsConfirm(now, w, cs, n)
<1> DEFINE good == {m \in 0..n : \E st : RunConfirm(st, w, cs, m)}
<1>1. 0 \in good
  <2>1. RunConfirm([i \in 0..0 |-> w], w, cs, 0)
    BY DEF RunConfirm
  <2> QED
    BY <2>1
<1>2. ASSUME NEW m \in 0..(n - 1), m \in good
      PROVE  m + 1 \in good
  <2>1. PICK st : RunConfirm(st, w, cs, m)
    BY <1>2
  <2>2. \A i \in 0..m : st[i] = IF i = 0 THEN w ELSE Confirm(st[i - 1], cs[i])
    BY <2>1 DEF RunConfirm
  <2> DEFINE x == Confirm(st[m], cs[m + 1])
  <2> HIDE DEF x
  <2>3. PICK more : Longer(more, st, m, x)
    BY OneMore
  <2>4. ASSUME NEW i \in 1..(m + 1)
        PROVE  more[i] = Confirm(more[i - 1], cs[i])
    <3>0. i - 1 \in 0..m /\ i # 0
      OBVIOUS
    <3>1. more[i - 1] = st[i - 1]
      BY <2>3, <3>0 DEF Longer
    <3>2. CASE i \in 0..m
      BY <2>2, <2>3, <3>0, <3>1, <3>2 DEF Longer
    <3>3. CASE i = m + 1
      <4>1. more[i] = x /\ i - 1 = m
        BY <2>3, <3>3 DEF Longer
      <4> QED
        BY <3>1, <3>3, <4>1 DEF x
    <3> QED
      BY <3>2, <3>3
  <2>5. RunConfirm(more, w, cs, m + 1)
    <3>1. more[0] = st[0] /\ more = [i \in 0..(m + 1) |-> more[i]]
      BY <2>3 DEF Longer
    <3>2. more[0] = w
      BY <2>2, <3>1
    <3>3. \A i \in 0..(m + 1) : more[i] = IF i = 0 THEN w ELSE Confirm(more[i - 1], cs[i])
      BY <2>4, <3>2
    <3> QED
      BY <3>1, <3>3 DEF RunConfirm
  <2> QED
    BY <2>5
<1>3. n \in good
  <2> HIDE DEF good
  <2>1. \A i \in 0..n : i \in good
    BY ONLY <1>1, <1>2, n \in Nat, UpTo, ZenonT(30)
  <2> QED
    BY <2>1
<1> DEFINE now == CHOOSE st : RunConfirm(st, w, cs, n)
<1>4. RunConfirm(now, w, cs, n)
  <2>1. \E st : RunConfirm(st, w, cs, n)
    BY <1>3
  <2> QED
    BY <2>1
<1>5. now[n] = ConfirmAll(w, cs)
  BY DEF ConfirmAll, Confirm, After, RunConfirm
<1> HIDE DEF now, good
<1>6. \A i \in 0..n : now[i] = IF i = 0 THEN w ELSE Confirm(now[i - 1], cs[i])
  BY <1>4 DEF RunConfirm
<1>7. ASSUME NEW i \in 0..(n - 1)
      PROVE  now[i + 1] = Confirm(now[i], cs[i + 1])
  <2>1. i + 1 \in 0..n /\ i + 1 # 0 /\ (i + 1) - 1 = i
    OBVIOUS
  <2> QED
    BY <1>6, <2>1
<1>8. now[0] = w
  BY <1>6
<1>9. StepsConfirm(now, w, cs, n)
  BY <1>5, <1>7, <1>8 DEF StepsConfirm
<1> QED
  BY <1>9

TellAll(acc, cs) ==
  After(acc, TellOne, cs)
\* the contacts of an answer
RunTell(st, acc, cs, m) ==
  st = [i \in 0..m |-> IF i = 0 THEN acc ELSE TellOne(st[i - 1], cs[i])]
StepsTell(now, acc, cs, n) ==
  /\ now[0] = acc /\ now[n] = TellAll(acc, cs)
  /\ \A i \in 0..(n - 1) : now[i + 1] = TellOne(now[i], cs[i + 1])
LEMMA FoldTell ==
  ASSUME NEW acc, NEW cs, NEW n \in Nat, n = Len(cs)
  PROVE  \E now : StepsTell(now, acc, cs, n)
<1> DEFINE good == {m \in 0..n : \E st : RunTell(st, acc, cs, m)}
<1>1. 0 \in good
  <2>1. RunTell([i \in 0..0 |-> acc], acc, cs, 0)
    BY DEF RunTell
  <2> QED
    BY <2>1
<1>2. ASSUME NEW m \in 0..(n - 1), m \in good
      PROVE  m + 1 \in good
  <2>1. PICK st : RunTell(st, acc, cs, m)
    BY <1>2
  <2>2. \A i \in 0..m : st[i] = IF i = 0 THEN acc ELSE TellOne(st[i - 1], cs[i])
    BY <2>1 DEF RunTell
  <2> DEFINE x == TellOne(st[m], cs[m + 1])
  <2> HIDE DEF x
  <2>3. PICK more : Longer(more, st, m, x)
    BY OneMore
  <2>4. ASSUME NEW i \in 1..(m + 1)
        PROVE  more[i] = TellOne(more[i - 1], cs[i])
    <3>0. i - 1 \in 0..m /\ i # 0
      OBVIOUS
    <3>1. more[i - 1] = st[i - 1]
      BY <2>3, <3>0 DEF Longer
    <3>2. CASE i \in 0..m
      BY <2>2, <2>3, <3>0, <3>1, <3>2 DEF Longer
    <3>3. CASE i = m + 1
      <4>1. more[i] = x /\ i - 1 = m
        BY <2>3, <3>3 DEF Longer
      <4> QED
        BY <3>1, <3>3, <4>1 DEF x
    <3> QED
      BY <3>2, <3>3
  <2>5. RunTell(more, acc, cs, m + 1)
    <3>1. more[0] = st[0] /\ more = [i \in 0..(m + 1) |-> more[i]]
      BY <2>3 DEF Longer
    <3>2. more[0] = acc
      BY <2>2, <3>1
    <3>3. \A i \in 0..(m + 1) : more[i] = IF i = 0 THEN acc ELSE TellOne(more[i - 1], cs[i])
      BY <2>4, <3>2
    <3> QED
      BY <3>1, <3>3 DEF RunTell
  <2> QED
    BY <2>5
<1>3. n \in good
  <2> HIDE DEF good
  <2>1. \A i \in 0..n : i \in good
    BY ONLY <1>1, <1>2, n \in Nat, UpTo, ZenonT(30)
  <2> QED
    BY <2>1
<1> DEFINE now == CHOOSE st : RunTell(st, acc, cs, n)
<1>4. RunTell(now, acc, cs, n)
  <2>1. \E st : RunTell(st, acc, cs, n)
    BY <1>3
  <2> QED
    BY <2>1
<1>5. now[n] = TellAll(acc, cs)
  BY DEF TellAll, After, RunTell
<1> HIDE DEF now, good
<1>6. \A i \in 0..n : now[i] = IF i = 0 THEN acc ELSE TellOne(now[i - 1], cs[i])
  BY <1>4 DEF RunTell
<1>7. ASSUME NEW i \in 0..(n - 1)
      PROVE  now[i + 1] = TellOne(now[i], cs[i + 1])
  <2>1. i + 1 \in 0..n /\ i + 1 # 0 /\ (i + 1) - 1 = i
    OBVIOUS
  <2> QED
    BY <1>6, <2>1
<1>8. now[0] = acc
  BY <1>6
<1>9. StepsTell(now, acc, cs, n)
  BY <1>5, <1>7, <1>8 DEF StepsTell
<1> QED
  BY <1>9

TraverseAll(w, key, cs) ==
  After(w, LAMBDA v, c : Traverse(v, key, c), cs)
\* the contacts of an answer, for the traversal that asked
RunTraverse(st, w, key, cs, m) ==
  st = [i \in 0..m |-> IF i = 0 THEN w ELSE Traverse(st[i - 1], key, cs[i])]
StepsTraverse(now, w, key, cs, n) ==
  /\ now[0] = w /\ now[n] = TraverseAll(w, key, cs)
  /\ \A i \in 0..(n - 1) : now[i + 1] = Traverse(now[i], key, cs[i + 1])
LEMMA FoldTraverse ==
  ASSUME NEW w, NEW key, NEW cs, NEW n \in Nat, n = Len(cs)
  PROVE  \E now : StepsTraverse(now, w, key, cs, n)
<1> DEFINE good == {m \in 0..n : \E st : RunTraverse(st, w, key, cs, m)}
<1>1. 0 \in good
  <2>1. RunTraverse([i \in 0..0 |-> w], w, key, cs, 0)
    BY DEF RunTraverse
  <2> QED
    BY <2>1
<1>2. ASSUME NEW m \in 0..(n - 1), m \in good
      PROVE  m + 1 \in good
  <2>1. PICK st : RunTraverse(st, w, key, cs, m)
    BY <1>2
  <2>2. \A i \in 0..m : st[i] = IF i = 0 THEN w ELSE Traverse(st[i - 1], key, cs[i])
    BY <2>1 DEF RunTraverse
  <2> DEFINE x == Traverse(st[m], key, cs[m + 1])
  <2> HIDE DEF x
  <2>3. PICK more : Longer(more, st, m, x)
    BY OneMore
  <2>4. ASSUME NEW i \in 1..(m + 1)
        PROVE  more[i] = Traverse(more[i - 1], key, cs[i])
    <3>0. i - 1 \in 0..m /\ i # 0
      OBVIOUS
    <3>1. more[i - 1] = st[i - 1]
      BY <2>3, <3>0 DEF Longer
    <3>2. CASE i \in 0..m
      BY <2>2, <2>3, <3>0, <3>1, <3>2 DEF Longer
    <3>3. CASE i = m + 1
      <4>1. more[i] = x /\ i - 1 = m
        BY <2>3, <3>3 DEF Longer
      <4> QED
        BY <3>1, <3>3, <4>1 DEF x
    <3> QED
      BY <3>2, <3>3
  <2>5. RunTraverse(more, w, key, cs, m + 1)
    <3>1. more[0] = st[0] /\ more = [i \in 0..(m + 1) |-> more[i]]
      BY <2>3 DEF Longer
    <3>2. more[0] = w
      BY <2>2, <3>1
    <3>3. \A i \in 0..(m + 1) : more[i] = IF i = 0 THEN w ELSE Traverse(more[i - 1], key, cs[i])
      BY <2>4, <3>2
    <3> QED
      BY <3>1, <3>3 DEF RunTraverse
  <2> QED
    BY <2>5
<1>3. n \in good
  <2> HIDE DEF good
  <2>1. \A i \in 0..n : i \in good
    BY ONLY <1>1, <1>2, n \in Nat, UpTo, ZenonT(30)
  <2> QED
    BY <2>1
<1> DEFINE now == CHOOSE st : RunTraverse(st, w, key, cs, n)
<1>4. RunTraverse(now, w, key, cs, n)
  <2>1. \E st : RunTraverse(st, w, key, cs, n)
    BY <1>3
  <2> QED
    BY <2>1
<1>5. now[n] = TraverseAll(w, key, cs)
  BY DEF TraverseAll, After, RunTraverse
<1> HIDE DEF now, good
<1>6. \A i \in 0..n : now[i] = IF i = 0 THEN w ELSE Traverse(now[i - 1], key, cs[i])
  BY <1>4 DEF RunTraverse
<1>7. ASSUME NEW i \in 0..(n - 1)
      PROVE  now[i + 1] = Traverse(now[i], key, cs[i + 1])
  <2>1. i + 1 \in 0..n /\ i + 1 # 0 /\ (i + 1) - 1 = i
    OBVIOUS
  <2> QED
    BY <1>6, <2>1
<1>8. now[0] = w
  BY <1>6
<1>9. StepsTraverse(now, w, key, cs, n)
  BY <1>5, <1>7, <1>8 DEF StepsTraverse
<1> QED
  BY <1>9

-----------------------------------------------------------------------------
(* Live contacts, and what a restart leaves of them *)

\* A bucket with replacements has live contacts.
Filled(w) == \A b \in Buckets : w.repl[b] # << >> => w.live[b] # << >>
Alive(w) == \E b \in Buckets : w.live[b] # << >>
Fills(w, v) ==
  /\ \A b \in Buckets : w.live[b] # << >> => v.live[b] # << >>
  /\ Filled(w) => Filled(v)

LEMMA NotEmpty ==
  ASSUME NEW s \in Seq(Keys)
  PROVE  /\ Len(s) > 0 <=> s # << >>
         /\ \A k \in Keys : Append(s, k) \in Seq(Keys) /\ Append(s, k) # << >>
<1>1. Len(s) \in Nat /\ (Len(s) = 0 <=> s = << >>)
  BY LenProperties, EmptySeq
<1>2. ASSUME NEW k \in Keys
      PROVE  Append(s, k) \in Seq(Keys) /\ Append(s, k) # << >>
  <2> DEFINE t == Append(s, k)
  <2>1. t \in Seq(Keys) /\ Len(t) = Len(s) + 1
    BY AppendIs
  <2> HIDE DEF t
  <2>2. t # << >>
    BY <1>1, <2>1, EmptySeq
  <2> QED
    BY <2>1, <2>2 DEF t
<1> QED
  BY <1>1, <1>2

\* No bucket runs out of live contacts because of addNode, and one that it
\* adds to has some.
LEMMA AddNodeFills ==
  ASSUME NEW w, TableInv(w), NEW n \in DOMAIN w.nodes, NEW confirmed \in BOOLEAN
  PROVE  LET v == AddNode(w, n, confirmed)
         IN  Fills(w, v) /\ (Filled(w) /\ n \in Named(w) => Alive(v))
<1> DEFINE b == BucketIndex(w.nodes[n].id)
           s == w.live[b]
           r == w.repl[b]
           l == Position(w, s, n)
           p == Position(w, r, n)
           rest == RemoveAt(r, p)
           v == AddNode(w, n, confirmed)
           Good == Fills(w, v) /\ (Filled(w) /\ n \in Named(w) => Alive(v))
<1>1. IsTracker(w) /\ NodesInv(w) /\ ListsInv(w)
  BY DEF TableInv
<1>2. CASE w.nodes[n].id = NoId
  <2>1. v = w
    BY <1>2 DEF AddNode
  <2>2. n \notin Named(w)
    BY <1>2 DEF Named
  <2> HIDE DEF v
  <2> QED
    BY <2>1, <2>2 DEF Fills, v
<1>3. ASSUME w.nodes[n].id # NoId
      PROVE  Good
  <2>1. w.nodes[n].id \in Ids /\ n \in Named(w) /\ n \in Keys
    BY <1>1, <1>3 DEF NodesInv, Contact, Named
  <2>2. b \in Buckets
    BY <2>1, BucketOfIdentifier
  <2>3. /\ w.live \in [Buckets -> Seq(Keys)] /\ w.repl \in [Buckets -> Seq(Keys)]
        /\ s \in Seq(Keys) /\ r \in Seq(Keys)
    BY <1>1, <2>2 DEF ListsInv
  <2>4. l \in 0..Len(s) /\ p \in 0..Len(r) /\ Len(s) \in Nat /\ Len(r) \in Nat
    BY <2>3, PositionIs, LenProperties
  <2>5. /\ [w.live EXCEPT ![b] = s] = w.live /\ [w.repl EXCEPT ![b] = r] = w.repl
    BY <2>3
  <2>6. BucketSize \in Nat \ {0}
    BY Constants
  <2>7. ASSUME NEW ss \in Seq(Keys), ss # << >>, NEW rr,
               v.live = [w.live EXCEPT ![b] = ss], v.repl = [w.repl EXCEPT ![b] = rr]
        PROVE  Good
    <3> HIDE DEF v, b
    <3>1. /\ v.live[b] = ss
          /\ \A c \in Buckets : c # b => v.live[c] = w.live[c] /\ v.repl[c] = w.repl[c]
      BY <2>2, <2>3, <2>7
    <3>2. Fills(w, v) /\ Alive(v)
      BY <2>2, <2>7, <3>1 DEF Fills, Filled, Alive
    <3> QED
      BY <3>2
  <2>8. l # 0 => RemoveAt(s, l) \in Seq(Keys) /\ s[l] \in Keys
    <3> HIDE DEF s, l
    <3>1. l # 0 => l \in 1..Len(s)
      BY <2>4
    <3> QED
      BY <2>3, <3>1, RemoveAtIs, ElementOfSeq
  <2>9. p # 0 => r[p] \in Keys /\ r # << >>
    <3> HIDE DEF r, p
    <3>1. p # 0 => p \in 1..Len(r) /\ Len(r) > 0
      BY <2>4
    <3> QED
      BY <2>3, <3>1, ElementOfSeq, NotEmpty
  <2>10. ~(Len(s) < BucketSize) => s # << >>
    <3> HIDE DEF s
    <3> QED
      BY <2>3, <2>4, <2>6, NotEmpty
  <2>11. CASE l # 0
    <3>1. v = [w EXCEPT !.nodes = Refreshed(w, s[l], n, confirmed),
                        !.live[b] = Append(RemoveAt(@, l), @[l])]
      BY <1>3, <2>11 DEF AddNode
    <3>2. v.repl = w.repl
      BY <1>1, <3>1 DEF IsTracker
    <3>3. v.live = [w.live EXCEPT ![b] = Append(RemoveAt(s, l), s[l])]
      BY <1>1, <3>1 DEF IsTracker
    <3> DEFINE q == RemoveAt(s, l)
               ss == Append(q, s[l])
    <3>4. ss \in Seq(Keys) /\ ss # << >>
      <4> HIDE DEF q, s, l
      <4> QED
        BY <2>8, <2>11, NotEmpty DEF q
    <3>5. v.live = [w.live EXCEPT ![b] = ss] /\ v.repl = [w.repl EXCEPT ![b] = r]
      BY <2>5, <3>2, <3>3
    <3> HIDE DEF Good, ss, v, b, r
    <3> QED
      BY <2>7, <3>4, <3>5
  <2>12. CASE l = 0 /\ p # 0 /\ ~confirmed
    <3>1. v = [w EXCEPT !.nodes = Refreshed(w, r[p], n, FALSE)]
      BY <1>3, <2>12 DEF AddNode
    <3>2. v.live = w.live /\ v.repl = w.repl
      BY <1>1, <3>1 DEF IsTracker
    <3> HIDE DEF v
    <3>3. Fills(w, v)
      BY <3>2 DEF Fills, Filled
    <3>4. Filled(w) => Alive(v)
      <4>1. w.repl[b] # << >>
        BY <2>9, <2>12
      <4> HIDE DEF b
      <4> QED
        BY <2>2, <3>2, <4>1 DEF Filled, Alive
    <3> QED
      BY <3>3, <3>4
  <2>13. CASE l = 0 /\ p # 0 /\ confirmed /\ Len(s) < BucketSize
    <3>1. v = [w EXCEPT !.nodes = Refreshed(w, r[p], n, TRUE),
                        !.repl[b] = rest, !.live[b] = Append(@, r[p])]
      BY <1>3, <2>13 DEF AddNode
    <3>2. v.live = [w.live EXCEPT ![b] = Append(s, r[p])]
      BY <1>1, <3>1 DEF IsTracker
    <3>3. v.repl = [w.repl EXCEPT ![b] = rest]
      BY <1>1, <3>1 DEF IsTracker
    <3> DEFINE ss == Append(s, r[p])
    <3>4. ss \in Seq(Keys) /\ ss # << >>
      <4> HIDE DEF r, s, p
      <4> QED
        BY <2>3, <2>9, <2>13, NotEmpty
    <3>5. v.live = [w.live EXCEPT ![b] = ss]
      BY <3>2
    <3> HIDE DEF Good, ss, v, b, rest
    <3> QED
      BY <2>7, <3>3, <3>4, <3>5
  <2>14. CASE l = 0 /\ p # 0 /\ confirmed /\ ~(Len(s) < BucketSize)
    <3>1. v = [w EXCEPT !.nodes = Refreshed(w, r[p], n, TRUE),
                        !.repl[b] = Append(rest, r[p])]
      BY <1>3, <2>14 DEF AddNode
    <3>2. v.live = w.live
      BY <1>1, <3>1 DEF IsTracker
    <3>3. v.repl = [w.repl EXCEPT ![b] = Append(rest, r[p])]
      BY <1>1, <3>1 DEF IsTracker
    <3> HIDE DEF Good, v, b, rest, r, s, p
    <3> QED
      BY <2>3, <2>5, <2>7, <2>10, <2>14, <3>2, <3>3
  <2>15. CASE l = 0 /\ p = 0
    <3>1. v = Newcomer(w, b, n, confirmed)
      BY <1>3, <2>15 DEF AddNode
    <3> DEFINE seen == [w EXCEPT !.nodes[n] = IF confirmed THEN Confirmed(@) ELSE @]
    <3>2. IsTracker(seen) /\ seen.live = w.live /\ seen.repl = w.repl
      BY <1>1 DEF IsTracker
    <3>3. v = IF Len(w.live[b]) < BucketSize
              THEN [seen EXCEPT !.live[b] = Append(@, n)]
              ELSE IF Len(w.repl[b]) < BucketSize
                   THEN [seen EXCEPT !.repl[b] = Append(@, n)]
                   ELSE [seen EXCEPT !.repl[b] = Append(Tail(@), n)]
      BY <3>1 DEF Newcomer
    <3> HIDE DEF v, seen, b
    <3>4. CASE Len(w.live[b]) < BucketSize
      <4>1. v.live = [seen.live EXCEPT ![b] = Append(seen.live[b], n)] /\ v.repl = seen.repl
        BY <3>2, <3>3, <3>4 DEF IsTracker
      <4> DEFINE ss == Append(s, n)
      <4>2. v.live = [w.live EXCEPT ![b] = ss] /\ v.repl = [w.repl EXCEPT ![b] = r]
        BY <2>5, <3>2, <4>1
      <4>3. ss \in Seq(Keys) /\ ss # << >>
        <5> HIDE DEF s
        <5> QED
          BY <2>1, <2>3, NotEmpty
      <4> HIDE DEF Good, ss, r
      <4> QED
        BY <2>7, <4>2, <4>3
    <3>5. CASE ~(Len(w.live[b]) < BucketSize)
      <4>1. PICK rr : v.live = seen.live /\ v.repl = [seen.repl EXCEPT ![b] = rr]
        <5>1. CASE Len(w.repl[b]) < BucketSize
          <6>1. v.live = seen.live /\ v.repl = [seen.repl EXCEPT ![b] = Append(seen.repl[b], n)]
            BY <3>2, <3>3, <3>5, <5>1 DEF IsTracker
          <6> QED
            BY <6>1
        <5>2. CASE ~(Len(w.repl[b]) < BucketSize)
          <6>1. /\ v.live = seen.live
                /\ v.repl = [seen.repl EXCEPT ![b] = Append(Tail(seen.repl[b]), n)]
            BY <3>2, <3>3, <3>5, <5>2 DEF IsTracker
          <6> QED
            BY <6>1
        <5> QED
          BY <5>1, <5>2
      <4>2. v.live = [w.live EXCEPT ![b] = s] /\ v.repl = [w.repl EXCEPT ![b] = rr]
        BY <2>5, <3>2, <4>1
      <4>3. s \in Seq(Keys) /\ s # << >>
        BY <2>3, <2>10, <3>5
      <4> HIDE DEF Good, s
      <4> QED
        BY <2>7, <4>2, <4>3
    <3> QED
      BY <3>4, <3>5
  <2> HIDE DEF Good, b, s, r, l, p
  <2> QED
    BY <2>11, <2>12, <2>13, <2>14, <2>15
<1> QED
  BY <1>2, <1>3

LEMMA LiveCountIs ==
  ASSUME NEW w, w.live \in [Buckets -> Seq(Keys)]
  PROVE  LiveCount(w) \in Nat /\ (LiveCount(w) > 0 <=> Alive(w))
<1> DEFINE list == w.live
           S == Seq(Keys)
<1>1. Bits \in Nat \ {0} /\ Buckets = 1..Bits
  BY Constants DEF Buckets
<1>2. Len(list) = Bits
  <2>1. list \in Seq(S)
    <3> HIDE DEF S
    <3> QED
      BY <1>1 DEF S
  <2>2. Len(list) \in Nat /\ 1..Len(list) = 1..Bits
    <3> HIDE DEF S
    <3> QED
      BY <1>1, <2>1, LenProperties DEF S
  <2> HIDE DEF list
  <2> QED
    BY <1>1, <2>2
<1>steps. PICK now : StepsCount(now, w, Bits)
  <2>1. PICK n \in Nat : n = Bits
    BY <1>1
  <2>2. n = Len(w.live)
    BY <1>2, <2>1
  <2>3. \E now : StepsCount(now, w, n)
    BY ONLY <2>1, <2>2, FoldCount
  <2> QED
    BY <2>1, <2>3
<1>3. /\ now[0] = 0 /\ now[Bits] = LiveCount(w)
      /\ \A i \in 0..(Bits - 1) : now[i + 1] = now[i] + Len(list[i + 1])
  BY <1>2, <1>steps DEF StepsCount
<1> DEFINE good == {i \in 0..Bits : /\ now[i] \in Nat
                                    /\ now[i] > 0 <=> \E b \in 1..i : list[b] # << >>}
<1>4. 0 \in good
  BY <1>1, <1>3
<1>5. ASSUME NEW i \in 0..(Bits - 1), i \in good
      PROVE  i + 1 \in good
  <2>1. i + 1 \in 1..Bits /\ i \in Nat
    BY <1>1
  <2>2. list[i + 1] \in Seq(Keys)
    BY <1>1, <2>1
  <2> HIDE DEF list
  <2>3. /\ Len(list[i + 1]) \in Nat /\ (Len(list[i + 1]) > 0 <=> list[i + 1] # << >>)
    BY <2>2, NotEmpty, LenProperties
  <2>4. now[i + 1] = now[i] + Len(list[i + 1])
    BY <1>3
  <2>5. now[i] \in Nat /\ (now[i] > 0 <=> \E b \in 1..i : list[b] # << >>)
    BY <1>5
  <2>6. (\E b \in 1..(i + 1) : list[b] # << >>)
          <=> (\E b \in 1..i : list[b] # << >>) \/ list[i + 1] # << >>
    BY <2>1
  <2>7. now[i + 1] \in Nat
    BY <2>3, <2>4, <2>5
  <2>8. now[i + 1] > 0 <=> now[i] > 0 \/ Len(list[i + 1]) > 0
    BY <2>3, <2>4, <2>5
  <2> QED
    BY <2>1, <2>3, <2>5, <2>6, <2>7, <2>8
<1>6. Bits \in good
  <2>1. Bits \in Nat
    BY <1>1
  <2> HIDE DEF good
  <2> QED
    BY <1>4, <1>5, <2>1, UpTo, SMTT(30)
<1> QED
  BY <1>1, <1>3, <1>6 DEF Alive

\* What may be restored: a contact without an identifier shares its address
\* with none of the others.
Restorable(w, order) ==
  /\ Len(order) \in Nat
  /\ \A i \in 1..Len(order) : /\ order[i] \in DOMAIN w.nodes /\ order[i] \in Keys
                              /\ w.nodes[order[i]] \in Contact
  /\ \A i, j \in 1..Len(order) : order[i] = order[j] => i = j
  /\ \A i, j \in 1..Len(order) :
       w.nodes[order[i]].id = NoId /\ w.nodes[order[i]].addr = w.nodes[order[j]].addr => i = j

\* The first i of them are back: each in the map, under its key, and those
\* that have an identifier left live contacts.
Back(w, order, i, v) ==
  /\ TableInv(v) /\ Filled(v)
  /\ DOMAIN v.nodes = {order[j] : j \in 1..i}
  /\ \A a \in DOMAIN v.at : w.nodes[v.at[a]].addr = a
  /\ \A k \in DOMAIN v.nodes : w.nodes[k].id # NoId => k \in Named(v)
  /\ (\E j \in 1..i : w.nodes[order[j]].id # NoId) => Alive(v)

LEMMA PutBackStep ==
  ASSUME NEW w, NEW order, Restorable(w, order), NEW i \in 0..(Len(order) - 1),
         NEW u, Back(w, order, i, u), NEW v, v = PutBack(w, u, order[i + 1])
  PROVE  Back(w, order, i + 1, v) /\ Rest(v) = Rest(u)
<1> DEFINE k == order[i + 1]
           c == w.nodes[k]
           a == c.addr
           x == PutContact(u, a, k, c)
<1>1. /\ Len(order) \in Nat /\ i \in Nat /\ i + 1 \in 1..Len(order) /\ i + 1 \notin 1..i
      /\ 1..(i + 1) = (1..i) \cup {i + 1} /\ 1..i \subseteq 1..Len(order)
  BY DEF Restorable
<1>2. /\ k \in DOMAIN w.nodes /\ k \in Keys /\ c \in Contact
      /\ a \in Addrs /\ c.pinged \in BOOLEAN
  BY <1>1 DEF Restorable, Contact
<1>3. k \notin DOMAIN u.nodes
  BY <1>1 DEF Restorable, Back
<1>4. ASSUME NEW j \in DOMAIN u.nodes, u.nodes[j].addr = a
      PROVE  u.nodes[j].id # NoId /\ c.id # NoId
  <2>1. NodesInv(u) /\ a \in DOMAIN u.at
    BY <1>4 DEF Back, TableInv, NodesInv
  <2>2. PICK m \in 1..i : u.at[a] = order[m] /\ w.nodes[order[m]].addr = a
    BY <2>1 DEF Back, NodesInv
  <2>3. c.id # NoId
    BY <1>1, <2>2 DEF Restorable
  <2>4. u.nodes[j].id # NoId
    <3>1. SUFFICES ASSUME u.nodes[j].id = NoId PROVE FALSE
      OBVIOUS
    <3>2. u.at[a] = j
      BY <1>4, <2>1, <3>1 DEF NodesInv, Named, Sole
    <3>3. w.nodes[j].id = NoId
      BY <3>1 DEF Back, Named
    <3> QED
      BY <1>1, <2>2, <3>2, <3>3 DEF Restorable
  <2> QED
    BY <2>3, <2>4
<1>5. v = AddNode(x, k, c.pinged)
  BY DEF PutBack
<1> HIDE DEF k, c, a
<1>6. TableInv(u) /\ a = c.addr
  BY DEF Back, a
<1>7. /\ TableInv(x) /\ Rest(x) = Rest(u) /\ Named(u) \subseteq Named(x)
      /\ x.live = u.live /\ x.repl = u.repl
      /\ DOMAIN x.nodes = DOMAIN u.nodes \cup {k} /\ x.nodes[k] = c
      /\ DOMAIN x.at = DOMAIN u.at \cup {a} /\ x.at[a] = k
      /\ \A y \in DOMAIN u.at : y # a => x.at[y] = u.at[y]
  BY <1>2, <1>3, <1>4, <1>6, PutContactIs
<1> HIDE DEF x
<1>8. Stays(x, v) /\ TableInv(v) /\ Rest(v) = Rest(x) /\ Named(x) \subseteq Named(v)
  BY <1>2, <1>5, <1>7, AddNodeMoves DEF Stays, Moves
<1>9. Fills(x, v) /\ (Filled(x) /\ k \in Named(x) => Alive(v))
  BY <1>2, <1>5, <1>7, AddNodeFills
<1>10. Filled(x) /\ (Alive(u) => Alive(x))
  BY <1>7 DEF Back, Filled, Alive
<1>11. DOMAIN v.nodes = {order[j] : j \in 1..(i + 1)}
  BY <1>1, <1>7, <1>8 DEF Back, Stays, k
<1>12. \A y \in DOMAIN v.at : w.nodes[v.at[y]].addr = y
  BY <1>7, <1>8 DEF Back, Stays, a, c
<1>13. k \in Named(x) <=> c.id # NoId
  BY <1>7 DEF Named
<1>14. \A j \in DOMAIN v.nodes : w.nodes[j].id # NoId => j \in Named(v)
  BY <1>7, <1>8, <1>13 DEF Back, Stays, c
<1>15. (\E j \in 1..(i + 1) : w.nodes[order[j]].id # NoId) => Alive(v)
  <2>1. Alive(x) => Alive(v)
    BY <1>9 DEF Fills, Alive
  <2>2. ASSUME NEW j \in 1..(i + 1), w.nodes[order[j]].id # NoId
        PROVE  Alive(v)
    <3>1. CASE j \in 1..i
      BY <1>10, <2>1, <2>2, <3>1 DEF Back
    <3>2. CASE j = i + 1
      BY <1>9, <1>10, <1>13, <2>2, <3>2 DEF k, c
    <3> QED
      BY <1>1, <3>1, <3>2
  <2> QED
    BY <2>2
<1>16. Filled(v)
  BY <1>9, <1>10 DEF Fills
<1> QED
  BY <1>7, <1>8, <1>11, <1>12, <1>14, <1>15, <1>16 DEF Back

\* The tracker that ApplyState starts from
Fresh(w) == [NewTracker EXCEPT !.routers = w.routers, !.storage = w.storage]
LEMMA FreshIs ==
  ASSUME NEW w
  PROVE  /\ TableInv(Fresh(w)) /\ Filled(Fresh(w)) /\ DOMAIN Fresh(w).nodes = {}
         /\ DOMAIN Fresh(w).at = {}
         /\ Rest(Fresh(w)) = <<FALSE, w.routers, w.storage, << >>, Empty,
                               [what \in {"sources", "keywords", "notes"} |-> {}], << >>>>
<1> DEFINE v == Fresh(w)
<1>1. /\ v.nodes = << >> /\ v.at = << >> /\ v.live = EmptyBuckets /\ v.repl = EmptyBuckets
      /\ IsTracker(v)
      /\ Rest(v) = <<FALSE, w.routers, w.storage, << >>, Empty,
                     [what \in {"sources", "keywords", "notes"} |-> {}], << >>>>
  BY DEF Fresh, NewTracker, IsTracker, Rest, Empty
<1> HIDE DEF v
<1>2. DOMAIN v.nodes = {} /\ DOMAIN v.at = {}
  BY <1>1
<1>3. NodesInv(v)
  <2>1. v.nodes \in [{} -> Contact] /\ v.at \in [{} -> {}]
    BY <1>1
  <2>2. IsFiniteSet({})
    BY FS_EmptySet
  <2> QED
    BY <1>2, <2>1, <2>2 DEF NodesInv
<1>4. Clean(<< >>) /\ ToSet(<< >>) = {} /\ Len(<< >>) = 0
  BY DEF Clean, ToSet
<1>5. ListsInv(v)
  <2>1. BucketOK(<< >>, << >>, Named(v))
    BY <1>4, Constants DEF BucketOK
  <2>2. \A b \in Buckets : v.live[b] = << >> /\ v.repl[b] = << >>
    BY <1>1 DEF EmptyBuckets
  <2>3. v.live \in [Buckets -> Seq(Keys)] /\ v.repl \in [Buckets -> Seq(Keys)]
    BY <1>1 DEF EmptyBuckets
  <2> QED
    BY <2>1, <2>2, <2>3 DEF ListsInv
<1>6. Filled(v)
  BY <1>1 DEF Filled, EmptyBuckets
<1> QED
  BY <1>1, <1>2, <1>3, <1>5, <1>6 DEF TableInv, v

LEMMA RestoreIs ==
  ASSUME NEW w, NEW order, Restorable(w, order)
  PROVE  LET v == Restore(w, order)
         IN  Back(w, order, Len(order), v) /\ Rest(v) = Rest(Fresh(w))
<1>0. PICK u : u = Fresh(w)
  OBVIOUS
<1>1. PICK n \in Nat : n = Len(order)
  BY DEF Restorable
<1>2. Restore(w, order) = PutAllBack(w, u, order)
  BY <1>0 DEF Restore, PutAllBack, Fresh
<1>steps. PICK now : StepsPutBack(now, u, w, order, n)
  BY ONLY <1>1, FoldPutBack
<1>3. /\ now[0] = u /\ now[n] = PutAllBack(w, u, order)
      /\ \A i \in 0..(n - 1) : now[i + 1] = PutBack(w, now[i], order[i + 1])
  BY <1>steps DEF StepsPutBack
<1> DEFINE good == {i \in 0..n : Back(w, order, i, now[i]) /\ Rest(now[i]) = Rest(u)}
<1>4. 0 \in good
  <2>1. Back(w, order, 0, u)
    <3>0. DOMAIN u.nodes = {}
      BY <1>0, FreshIs
    <3>1. 1..0 = {} /\ Named(u) = {}
      BY <3>0 DEF Named
    <3> QED
      BY <1>0, <3>1, FreshIs DEF Back
  <2> QED
    BY <1>1, <1>3, <2>1
<1>5. ASSUME NEW i \in 0..(n - 1), i \in good
      PROVE  i + 1 \in good
  <2>1. /\ Back(w, order, i, now[i]) /\ Rest(now[i]) = Rest(u)
        /\ now[i + 1] = PutBack(w, now[i], order[i + 1]) /\ i + 1 \in 0..n
    BY <1>1, <1>3, <1>5
  <2>2. Back(w, order, i + 1, now[i + 1]) /\ Rest(now[i + 1]) = Rest(now[i])
    BY <1>1, <2>1, PutBackStep
  <2> QED
    BY <2>1, <2>2
<1>6. n \in good
  <2> HIDE DEF good
  <2> QED
    BY <1>4, <1>5, UpTo, SMTT(30)
<1> QED
  BY <1>0, <1>1, <1>2, <1>3, <1>6

=============================================================================
