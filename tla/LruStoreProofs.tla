--------------------------- MODULE LruStoreProofs ---------------------------
(***************************************************************************)
(* What the operations of LruStore keep, for every store and capacity, and *)
(* theorems about StoreHistory for every finite set of keys, every         *)
(* capacity and all ttls.                                                  *)
(***************************************************************************)
EXTENDS StoreHistory, FiniteSetTheorems, SequenceTheorems, TLAPS

\* No key is stored twice.
Distinct(s) == \A i, j \in 1..Len(s) : s[i].key = s[j].key => i = j

\* Every entry of t is one of s.
Within(t, s) == \A i \in 1..Len(t) : \E j \in 1..Len(s) : t[i] = s[j]

\* The entries of t are e and entries of s under other keys.
Replaces(t, s, e) ==
    \A i \in 1..Len(t) : t[i] = e \/ \E j \in 1..Len(s) : t[i] = s[j] /\ s[j].key # e.key

LEMMA CapacityType == Capacity \in Nat \ {0}
  BY StoreAssumption DEF Capacity

LEMMA PositionOK ==
  ASSUME NEW Key, NEW Val, NEW s \in Seq(Entry(Key, Val)), NEW k, Holds(s, k)
  PROVE  /\ Position(s, k) \in 1..Len(s)
         /\ s[Position(s, k)].key = k
         /\ s[Position(s, k)] \in Entry(Key, Val)
<1>1. Position(s, k) \in 1..Len(s) /\ s[Position(s, k)].key = k
  BY DEF Holds, Position
<1>2. QED
  BY <1>1, ElementOfSeq

LEMMA RemoveAtOK ==
  ASSUME NEW S, NEW s \in Seq(S), NEW p \in 1..Len(s)
  PROVE  /\ RemoveAt(s, p) \in Seq(S)
         /\ Len(RemoveAt(s, p)) = Len(s) - 1
         /\ \A i \in 1..(Len(s) - 1) : RemoveAt(s, p)[i] = IF i < p THEN s[i] ELSE s[i + 1]
<1> DEFINE front == SubSeq(s, 1, p - 1)
    back == SubSeq(s, p + 1, Len(s))
<1>1. Len(s) \in Nat /\ p \in Int /\ \A i \in 1..Len(s) : s[i] \in S
  BY LenProperties, ElementOfSeq
<1>2. /\ front \in Seq(S)
      /\ Len(front) = p - 1
      /\ \A i \in 1..(p - 1) : front[i] = s[i]
  <2>1. \A i \in 1..(p - 1) : s[i] \in S
    BY <1>1
  <2>2. /\ front \in Seq(S)
        /\ Len(front) = IF 1 <= p - 1 THEN (p - 1) - 1 + 1 ELSE 0
        /\ \A i \in 1..((p - 1) - 1 + 1) : front[i] = s[1 + i - 1]
    BY <1>1, <2>1, SubSeqProperties
  <2>3. QED
    BY <1>1, <2>2
<1>3. /\ back \in Seq(S)
      /\ Len(back) = Len(s) - p
      /\ \A i \in 1..(Len(s) - p) : back[i] = s[p + i]
  <2>1. \A i \in (p + 1)..Len(s) : s[i] \in S
    BY <1>1
  <2>2. /\ back \in Seq(S)
        /\ Len(back) = IF p + 1 <= Len(s) THEN Len(s) - (p + 1) + 1 ELSE 0
        /\ \A i \in 1..(Len(s) - (p + 1) + 1) : back[i] = s[(p + 1) + i - 1]
    BY <1>1, <2>1, SubSeqProperties
  <2>3. QED
    BY <1>1, <2>2
<1>4. RemoveAt(s, p) = front \o back
  BY DEF RemoveAt
<1> HIDE DEF front, back
<1>5. /\ front \o back \in Seq(S)
      /\ Len(front \o back) = Len(front) + Len(back)
      /\ \A i \in 1..(Len(front) + Len(back)) :
            (front \o back)[i] = IF i <= Len(front) THEN front[i] ELSE back[i - Len(front)]
  BY <1>2, <1>3, ConcatProperties
<1>6. QED
  BY <1>1, <1>2, <1>3, <1>4, <1>5

LEMMA WithoutOK ==
  ASSUME NEW Key, NEW Val, NEW s \in Seq(Entry(Key, Val)), NEW k
  PROVE  /\ Without(s, k) \in Seq(Entry(Key, Val))
         /\ Len(Without(s, k)) = IF Holds(s, k) THEN Len(s) - 1 ELSE Len(s)
         /\ Within(Without(s, k), s)
         /\ Distinct(s) => Distinct(Without(s, k)) /\ ~Holds(Without(s, k), k)
<1>1. Len(s) \in Nat
  BY LenProperties
<1>2. CASE Holds(s, k)
  <2> DEFINE p == Position(s, k)
  <2>1. p \in 1..Len(s) /\ s[p].key = k
    BY <1>2, PositionOK
  <2>2. Without(s, k) = RemoveAt(s, p)
    BY <1>2 DEF Without
  <2> HIDE DEF p
  <2>3. /\ RemoveAt(s, p) \in Seq(Entry(Key, Val))
        /\ Len(RemoveAt(s, p)) = Len(s) - 1
        /\ \A i \in 1..(Len(s) - 1) : RemoveAt(s, p)[i] = IF i < p THEN s[i] ELSE s[i + 1]
    BY <2>1, RemoveAtOK
  <2>4. Within(RemoveAt(s, p), s)
    BY <1>1, <2>1, <2>3, SMTT(30) DEF Within
  <2>5. Distinct(s) => Distinct(RemoveAt(s, p)) /\ ~Holds(RemoveAt(s, p), k)
    <3> DEFINE old(i) == IF i < p THEN i ELSE i + 1
    <3>1. \A i \in 1..(Len(s) - 1) :
            old(i) \in 1..Len(s) /\ old(i) # p /\ RemoveAt(s, p)[i] = s[old(i)]
      BY <1>1, <2>1, <2>3
    <3>2. \A i, j \in 1..(Len(s) - 1) : old(i) = old(j) => i = j
      BY <1>1, <2>1
    <3> HIDE DEF old
    <3>3. Distinct(s) => \A i \in 1..(Len(s) - 1) : s[old(i)].key # k
      BY <2>1, <3>1 DEF Distinct
    <3>4. Distinct(s) => Distinct(RemoveAt(s, p))
      BY <2>3, <3>1, <3>2 DEF Distinct
    <3>5. QED
      BY <2>3, <3>1, <3>3, <3>4 DEF Holds
  <2>6. QED
    BY <1>2, <2>2, <2>3, <2>4, <2>5
<1>3. CASE ~Holds(s, k)
  BY <1>3 DEF Without, Within
<1>4. QED
  BY <1>2, <1>3

\* get returns an entry to the end of the line or deletes it: it never stores
\* anything new, nor more than there was.
LEMMA AfterGetOK ==
  ASSUME NEW Key, NEW Val, NEW s \in Seq(Entry(Key, Val)), NEW k, NEW now \in Int
  PROVE  /\ AfterGet(s, k, now) \in Seq(Entry(Key, Val))
         /\ Len(AfterGet(s, k, now)) <= Len(s)
         /\ Within(AfterGet(s, k, now), s)
         /\ Distinct(s) => Distinct(AfterGet(s, k, now))
<1>1. /\ Len(s) \in Nat
      /\ Without(s, k) \in Seq(Entry(Key, Val))
      /\ Len(Without(s, k)) \in Nat
      /\ Len(Without(s, k)) = IF Holds(s, k) THEN Len(s) - 1 ELSE Len(s)
      /\ Within(Without(s, k), s)
      /\ Distinct(s) => Distinct(Without(s, k)) /\ ~Holds(Without(s, k), k)
  BY WithoutOK, LenProperties
<1>2. CASE Fresh(s, k, now)
  <2> DEFINE w == Without(s, k)
      e == s[Position(s, k)]
  <2>1. /\ Holds(s, k)
        /\ Position(s, k) \in 1..Len(s)
        /\ e.key = k
        /\ e \in Entry(Key, Val)
    BY <1>2, PositionOK DEF Fresh
  <2>2. AfterGet(s, k, now) = Append(w, e)
    BY <1>2 DEF AfterGet
  <2>3. \E j \in 1..Len(s) : e = s[j]
    BY <2>1
  <2> HIDE DEF e
  <2>4. /\ Append(w, e) \in Seq(Entry(Key, Val))
        /\ Len(Append(w, e)) = Len(w) + 1
        /\ \A i \in 1..Len(w) : Append(w, e)[i] = w[i]
        /\ Append(w, e)[Len(w) + 1] = e
    BY <1>1, <2>1, AppendProperties
  <2> HIDE DEF w
  <2>5. w = Without(s, k)
    BY DEF w
  <2>6. Within(Append(w, e), s)
    <3>1. ASSUME NEW i \in 1..Len(w) PROVE \E j \in 1..Len(s) : Append(w, e)[i] = s[j]
      BY <1>1, <2>4, <2>5, <3>1 DEF Within
    <3>2. \A i \in 1..(Len(w) + 1) : i \in 1..Len(w) \/ i = Len(w) + 1
      BY <1>1, <2>5
    <3>3. QED
      BY <2>3, <2>4, <3>1, <3>2 DEF Within
  <2>7. Distinct(s) => Distinct(Append(w, e))
    <3>1. ASSUME Distinct(s), NEW i \in 1..Len(w)
          PROVE  Append(w, e)[i].key # e.key
      BY <1>1, <2>1, <2>4, <2>5, <3>1 DEF Holds
    <3>2. ASSUME Distinct(s), NEW i \in 1..(Len(w) + 1), NEW j \in 1..(Len(w) + 1),
                 Append(w, e)[i].key = Append(w, e)[j].key
          PROVE  i = j
      <4>1. CASE i \in 1..Len(w) /\ j \in 1..Len(w)
        BY <1>1, <2>4, <2>5, <3>2, <4>1 DEF Distinct
      <4>2. CASE i = Len(w) + 1 \/ j = Len(w) + 1
        BY <1>1, <2>4, <2>5, <3>1, <3>2, <4>2
      <4>3. QED
        BY <1>1, <2>5, <4>1, <4>2
    <3>3. QED
      BY <2>4, <3>2 DEF Distinct
  <2>8. QED
    BY <1>1, <2>1, <2>2, <2>4, <2>5, <2>6, <2>7
<1>3. CASE ~Fresh(s, k, now)
  BY <1>1, <1>3 DEF AfterGet
<1>4. QED
  BY <1>2, <1>3

LEMMA NewestOK ==
  ASSUME NEW S, NEW s \in Seq(S), NEW n \in Nat \ {0}
  PROVE  /\ Newest(s, n) \in Seq(S)
         /\ Len(Newest(s, n)) <= n
         /\ Within(Newest(s, n), s)
         /\ Distinct(s) => Distinct(Newest(s, n))
<1>1. Len(s) \in Nat /\ \A i \in 1..Len(s) : s[i] \in S
  BY LenProperties, ElementOfSeq
<1>2. CASE Len(s) > n
  <2> DEFINE m == Len(s) - n + 1
      t == SubSeq(s, m, Len(s))
  <2>0. m \in 1..Len(s) /\ Len(s) - m + 1 = n
    BY <1>1, <1>2
  <2>1. Newest(s, n) = t
    BY <1>2 DEF Newest
  <2> HIDE DEF m
  <2>2. /\ t \in Seq(S)
        /\ Len(t) = IF m <= Len(s) THEN Len(s) - m + 1 ELSE 0
        /\ \A i \in 1..(Len(s) - m + 1) : t[i] = s[m + i - 1]
    BY <1>1, <2>0, SubSeqProperties
  <2> HIDE DEF t
  <2>3. Len(t) = n /\ \A i \in 1..n : t[i] = s[Len(s) - n + i]
    BY <1>1, <2>0, <2>2 DEF m
  <2>4. \A i \in 1..n : Len(s) - n + i \in 1..Len(s)
    BY <1>1, <1>2
  <2>5. Within(t, s)
    BY <2>3, <2>4 DEF Within
  <2>6. Distinct(s) => Distinct(t)
    <3>1. ASSUME Distinct(s), NEW i \in 1..n, NEW j \in 1..n, t[i].key = t[j].key
          PROVE  i = j
      <4> DEFINE a == Len(s) - n + i
          b == Len(s) - n + j
      <4>1. a \in 1..Len(s) /\ b \in 1..Len(s) /\ t[i] = s[a] /\ t[j] = s[b]
        BY <2>3, <2>4
      <4>2. a = b => i = j
        BY <1>1
      <4> HIDE DEF a, b
      <4>3. a = b
        BY <3>1, <4>1 DEF Distinct
      <4>4. QED
        BY <4>2, <4>3
    <3>2. QED
      BY <2>3, <3>1 DEF Distinct
  <2>7. QED
    BY <2>1, <2>2, <2>3, <2>5, <2>6
<1>3. CASE ~(Len(s) > n)
  BY <1>1, <1>3 DEF Newest, Within
<1>4. QED
  BY <1>2, <1>3

\* set keeps the store within its capacity and its keys distinct, and leaves only the
\* new entry and entries of other keys.
LEMMA AfterSetOK ==
  ASSUME NEW Key, NEW Val, NEW s \in Seq(Entry(Key, Val)),
         NEW k \in Key, NEW v \in Val, NEW ttl \in Int, NEW now \in Int
  PROVE  /\ AfterSet(s, k, v, ttl, now) \in Seq(Entry(Key, Val))
         /\ Len(s) <= Capacity => Len(AfterSet(s, k, v, ttl, now)) <= Capacity
         /\ Distinct(s) => Distinct(AfterSet(s, k, v, ttl, now))
         /\ ttl <= 0 => AfterSet(s, k, v, ttl, now) = s
         /\ ttl > 0 /\ Distinct(s) =>
              Replaces(AfterSet(s, k, v, ttl, now), s, NewEntry(k, v, now + ttl))
<1> DEFINE new == NewEntry(k, v, now + ttl)
    t == AfterSet(s, k, v, ttl, now)
    w == Without(s, k)
    a == Append(w, new)
<1>1. CASE ttl <= 0
  BY <1>1 DEF AfterSet
<1>2. CASE ttl > 0
  <2>1. /\ Len(s) \in Nat
        /\ w \in Seq(Entry(Key, Val))
        /\ Len(w) \in Nat
        /\ Within(w, s)
        /\ Distinct(s) => Distinct(w) /\ ~Holds(w, k)
    BY WithoutOK, LenProperties
  <2>2. new \in Entry(Key, Val) /\ new.key = k
    BY DEF Entry, NewEntry
  <2>3. t = Newest(a, Capacity)
    BY <1>2 DEF AfterSet
  <2> HIDE DEF new
  <2>4. /\ a \in Seq(Entry(Key, Val))
        /\ Len(a) = Len(w) + 1
        /\ \A i \in 1..Len(w) : a[i] = w[i]
        /\ a[Len(w) + 1] = new
    BY <2>1, <2>2, AppendProperties
  <2> HIDE DEF w, a, t
  <2>5. \A i \in 1..Len(a) : i \in 1..Len(w) \/ i = Len(w) + 1
    BY <2>1, <2>4
  <2>6. Distinct(s) => \A i \in 1..Len(w) : w[i].key # k
    BY <2>1 DEF Holds
  <2>7. Distinct(s) => Distinct(a)
    BY <2>1, <2>2, <2>4, <2>5, <2>6 DEF Distinct
  <2>8. ASSUME Distinct(s), NEW i \in 1..Len(a)
        PROVE  a[i] = new \/ \E j \in 1..Len(s) : a[i] = s[j] /\ s[j].key # k
    <3>1. CASE i \in 1..Len(w)
      <4>1. PICK j \in 1..Len(s) : w[i] = s[j]
        BY <2>1, <3>1 DEF Within
      <4>2. QED
        BY <2>4, <2>6, <2>8, <3>1, <4>1
    <3>2. CASE i = Len(w) + 1
      BY <2>4, <3>2
    <3>3. QED
      BY <2>5, <3>1, <3>2
  <2>9. /\ t \in Seq(Entry(Key, Val))
        /\ Len(t) <= Capacity
        /\ Within(t, a)
        /\ Distinct(a) => Distinct(t)
    BY <2>3, <2>4, CapacityType, NewestOK
  <2>10. Distinct(s) => Replaces(t, s, new)
    BY <2>2, <2>8, <2>9 DEF Within, Replaces
  <2>11. QED
    BY <1>2, <2>7, <2>9, <2>10 DEF new, t
<1>3. QED
  BY <1>1, <1>2

\* The last fact of AfterSetOK on its own.
LEMMA AfterSetReplaces ==
  ASSUME NEW Key, NEW Val, NEW s \in Seq(Entry(Key, Val)),
         NEW k \in Key, NEW v \in Val, NEW ttl \in Int, NEW now \in Int,
         ttl > 0, Distinct(s)
  PROVE  Replaces(AfterSet(s, k, v, ttl, now), s, NewEntry(k, v, now + ttl))
  BY AfterSetOK

-----------------------------------------------------------------------------
(***************************************************************************)
(* The order of the entries and what is dropped.                           *)
(***************************************************************************)

\* Of two entries of s, the later one's key is related to the earlier one's.
InOrder(s, rel) == \A i, j \in 1..Len(s) : i < j => s[j].key \in rel[s[i].key]

\* The relation that Use(k) makes of `rel`.
Used(rel, k) == [j \in DOMAIN rel |-> IF j = k THEN {} ELSE rel[j] \cup {k}]

\* Removing a key keeps the order of the others, and loses none of them.
LEMMA WithoutKeepsOrder ==
  ASSUME NEW Key, NEW Val, NEW s \in Seq(Entry(Key, Val)), NEW k, NEW rel, InOrder(s, rel)
  PROVE  /\ InOrder(Without(s, k), rel)
         /\ \A j : j # k /\ Holds(s, j) => Holds(Without(s, k), j)
<1>1. Len(s) \in Nat
  BY LenProperties
<1>2. CASE Holds(s, k)
  <2> DEFINE p == Position(s, k)
             w == RemoveAt(s, p)
             old(i) == IF i < p THEN i ELSE i + 1
             new(i) == IF i < p THEN i ELSE i - 1
  <2>1. p \in 1..Len(s) /\ s[p].key = k /\ Without(s, k) = w
    BY <1>2, PositionOK DEF Without
  <2> HIDE DEF p
  <2>2. /\ Len(w) = Len(s) - 1
        /\ \A i \in 1..(Len(s) - 1) : w[i] = IF i < p THEN s[i] ELSE s[i + 1]
    BY <2>1, RemoveAtOK
  <2> HIDE DEF w
  <2>3. \A i \in 1..Len(w) : old(i) \in 1..Len(s) /\ w[i] = s[old(i)]
    BY <1>1, <2>1, <2>2
  <2>4. \A i, j \in 1..Len(w) : i < j => old(i) < old(j)
    BY <1>1, <2>1, <2>2
  <2>5. \A i \in (1..Len(s)) \ {p} : new(i) \in 1..Len(w) /\ old(new(i)) = i
    BY <1>1, <2>1, <2>2
  <2> HIDE DEF old, new
  <2>6. InOrder(w, rel)
    BY <2>3, <2>4 DEF InOrder
  <2>7. ASSUME NEW j, j # k, Holds(s, j) PROVE Holds(w, j)
    <3>1. PICK i \in 1..Len(s) : s[i].key = j
      BY <2>7 DEF Holds
    <3>2. new(i) \in 1..Len(w) /\ w[new(i)].key = j
      BY <2>1, <2>3, <2>5, <2>7, <3>1
    <3>3. QED
      BY <3>2 DEF Holds
  <2>8. QED
    BY <2>1, <2>6, <2>7
<1>3. CASE ~Holds(s, k)
  BY <1>3 DEF Without
<1>4. QED
  BY <1>2, <1>3

\* An entry of a new key, put at the end, comes after all others.
LEMMA AppendKeepsOrder ==
  ASSUME NEW Key, NEW Val, NEW w \in Seq(Entry(Key, Val)), NEW e \in Entry(Key, Val),
         ~Holds(w, e.key), NEW rel, DOMAIN rel = Key, InOrder(w, rel)
  PROVE  /\ InOrder(Append(w, e), Used(rel, e.key))
         /\ \A j : Holds(Append(w, e), j) <=> j = e.key \/ Holds(w, j)
<1> DEFINE a == Append(w, e)
           after == Used(rel, e.key)
<1>1. /\ Len(w) \in Nat
      /\ Len(a) = Len(w) + 1
      /\ \A i \in 1..Len(w) : a[i] = w[i]
      /\ a[Len(w) + 1] = e
  BY AppendProperties, LenProperties
<1> HIDE DEF a
<1>2. \A i \in 1..Len(a) : i \in 1..Len(w) \/ i = Len(w) + 1
  BY <1>1
<1>3. ASSUME NEW i \in 1..Len(w)
      PROVE  w[i].key \in Key /\ w[i].key # e.key /\ after[w[i].key] = rel[w[i].key] \cup {e.key}
  <2>1. w[i] \in Entry(Key, Val)
    BY <1>1, ElementOfSeq
  <2>2. w[i].key \in Key /\ w[i].key # e.key
    BY <2>1 DEF Holds, Entry
  <2>3. QED
    BY <2>2 DEF Used
<1>4. ASSUME NEW i \in 1..Len(a), NEW j \in 1..Len(a), i < j PROVE a[j].key \in after[a[i].key]
  <2>1. i \in 1..Len(w) /\ a[i] = w[i]
    BY <1>1, <1>4
  <2>2. CASE j \in 1..Len(w)
    BY <1>1, <1>3, <1>4, <2>1, <2>2 DEF InOrder
  <2>3. CASE j = Len(w) + 1
    BY <1>1, <1>3, <2>1, <2>3
  <2>4. QED
    BY <1>2, <2>2, <2>3
<1>5. InOrder(a, after)
  BY <1>4 DEF InOrder
<1>6. ASSUME NEW j PROVE Holds(a, j) <=> j = e.key \/ Holds(w, j)
  <2>1. Len(w) + 1 \in 1..Len(a) /\ \A i \in 1..Len(w) : i \in 1..Len(a)
    BY <1>1
  <2>2. QED
    BY <1>1, <1>2, <2>1 DEF Holds
<1>7. QED
  BY <1>5, <1>6 DEF a

\* Evicting one entry of n + 1 keeps the order, and n others were used after its key.
LEMMA NewestDropsFirst ==
  ASSUME NEW Key, NEW Val, IsFiniteSet(Key), NEW a \in Seq(Entry(Key, Val)), Distinct(a),
         NEW n \in Nat \ {0}, Len(a) <= n + 1,
         NEW rel \in [Key -> SUBSET Key], InOrder(a, rel)
  PROVE  /\ InOrder(Newest(a, n), rel)
         /\ \A i \in 1..Len(a) :
              Holds(Newest(a, n), a[i].key) \/ Cardinality(rel[a[i].key]) >= n
<1>1. Len(a) \in Nat /\ \A i \in 1..Len(a) : a[i] \in Entry(Key, Val)
  BY LenProperties, ElementOfSeq
<1>2. CASE Len(a) > n
  <2> DEFINE t == SubSeq(a, 2, Len(a))
  <2>1. Len(a) = n + 1 /\ Newest(a, n) = t
    BY <1>1, <1>2 DEF Newest
  <2>2. /\ Len(t) = IF 2 <= Len(a) THEN Len(a) - 2 + 1 ELSE 0
        /\ \A i \in 1..(Len(a) - 2 + 1) : t[i] = a[2 + i - 1]
    BY <1>1, SubSeqProperties
  <2> HIDE DEF t
  <2>3. Len(t) = n /\ \A i \in 1..n : i + 1 \in 1..Len(a) /\ t[i] = a[i + 1]
    BY <2>1, <2>2
  <2>4. InOrder(t, rel)
    <3>1. ASSUME NEW i \in 1..n, NEW j \in 1..n, i < j PROVE t[j].key \in rel[t[i].key]
      <4>1. i + 1 < j + 1
        BY <3>1
      <4>2. QED
        BY <2>3, <4>1 DEF InOrder
    <3>2. QED
      BY <2>3, <3>1 DEF InOrder
  <2>5. Cardinality(rel[a[1].key]) >= n
    <3> DEFINE f == [i \in 1..n |-> a[i + 1].key]
               after == rel[a[1].key]
    <3>1. a[1] \in Entry(Key, Val) /\ 1 \in 1..Len(a)
      BY <1>1, <2>1
    <3>2. after \in SUBSET Key
      BY <3>1 DEF Entry
    <3>3. \A i \in 1..n : f[i] \in after
      BY <2>1, <2>3, <3>1 DEF InOrder
    <3>4. ASSUME NEW i \in 1..n, NEW j \in 1..n, f[i] = f[j] PROVE i = j
      <4>1. i + 1 = j + 1
        BY <2>3, <3>4 DEF Distinct
      <4>2. QED
        BY <4>1
    <3>5. f \in Injection(1..n, after)
      BY <3>3, <3>4 DEF Injection, IsInjective
    <3> HIDE DEF f, after
    <3>6. IsFiniteSet(after) /\ Cardinality(after) \in Nat
      BY <3>2, FS_Subset, FS_CardinalityType
    <3>7. Cardinality(1..n) <= Cardinality(after)
      BY <3>5, <3>6, FS_Injection
    <3>8. Cardinality(1..n) = n
      <4>1. Cardinality(1..n) = IF 1 > n THEN 0 ELSE n - 1 + 1
        BY FS_Interval
      <4>2. QED
        BY <4>1
    <3>9. QED
      BY <3>6, <3>7, <3>8 DEF after
  <2>6. ASSUME NEW i \in 1..Len(a), i # 1 PROVE Holds(t, a[i].key)
    <3>1. i - 1 \in 1..Len(t) /\ t[i - 1] = a[(i - 1) + 1] /\ (i - 1) + 1 = i
      BY <2>1, <2>3, <2>6
    <3>2. QED
      BY <3>1 DEF Holds
  <2>7. QED
    BY <2>1, <2>4, <2>5, <2>6
<1>3. CASE ~(Len(a) > n)
  BY <1>3 DEF Newest, Holds
<1>4. QED
  BY <1>2, <1>3

-----------------------------------------------------------------------------
(***************************************************************************)
(* Type correctness of StoreHistory.                                       *)
(***************************************************************************)

\* The variables always have the types StoreTypeOK gives them.
THEOREM StoreTypeCorrect == StoreSpec => []StoreTypeOK
<1> USE DEF StoreTypeOK
<1>1. StoreInit => StoreTypeOK
  BY DEF StoreInit
<1>2. StoreTypeOK /\ [StoreNext]_storeVars => StoreTypeOK'
  <2> SUFFICES ASSUME StoreTypeOK, [StoreNext]_storeVars PROVE StoreTypeOK'
    OBVIOUS
  <2>0. ASSUME NEW k \in StoredKeys, Use(k) \/ UNCHANGED since
        PROVE  since' \in [StoredKeys -> SUBSET StoredKeys]
    BY <2>0 DEF Use
  <2>1. ASSUME NEW k \in StoredKeys, Get(k) PROVE StoreTypeOK'
    <3>1. store' \in Seq(Entry(StoredKeys, StoredValues))
      BY <2>1, AfterGetOK DEF Get
    <3>2. Use(k) \/ UNCHANGED since
      BY <2>1 DEF Get
    <3>3. QED
      BY <2>0, <2>1, <3>1, <3>2 DEF Get
  <2>2. ASSUME NEW k \in StoredKeys, NEW v \in StoredValues, NEW ttl \in Ttls, Put(k, v, ttl)
        PROVE  StoreTypeOK'
    <3>1. ttl \in Int
      BY HistoryAssumption
    <3>2. store' \in Seq(Entry(StoredKeys, StoredValues))
      BY <2>2, <3>1, AfterSetOK DEF Put
    <3>3. Use(k) \/ UNCHANGED since
      BY <2>2 DEF Put
    <3>4. lastSet' \in [StoredKeys -> [value: StoredValues, expires: Int] \cup {NeverSet}]
      BY <2>2, <3>1 DEF Put
    <3>5. QED
      BY <2>0, <2>2, <3>2, <3>3, <3>4 DEF Put
  <2>3. CASE TimePasses
    BY <2>3 DEF TimePasses
  <2>4. CASE UNCHANGED storeVars
    BY <2>4 DEF storeVars
  <2>5. QED
    BY <2>1, <2>2, <2>3, <2>4 DEF StoreNext
<1>3. QED
  BY <1>1, <1>2, PTL DEF StoreSpec

-----------------------------------------------------------------------------
(***************************************************************************)
(* What is in the store, in which order, and why the rest is not.          *)
(***************************************************************************)

\* The use of a key takes nothing from what is recorded of the others.
LEMMA UseGrows ==
  ASSUME StoreTypeOK, NEW k \in StoredKeys, Use(k)
  PROVE  /\ since' = Used(since, k)
         /\ \A j \in StoredKeys \ {k} : Cardinality(since[j]) <= Cardinality(since'[j])
<1>1. since' = Used(since, k)
  BY DEF StoreTypeOK, Use, Used
<1>2. ASSUME NEW j \in StoredKeys \ {k} PROVE Cardinality(since[j]) <= Cardinality(since'[j])
  <2>1. since'[j] = since[j] \cup {k} /\ since'[j] \in SUBSET StoredKeys
    BY DEF StoreTypeOK, Use
  <2>2. IsFiniteSet(since'[j])
    BY <2>1, HistoryAssumption, FS_Subset
  <2>3. QED
    BY <2>1, <2>2, FS_Subset
<1>3. QED
  BY <1>1, <1>2

LEMMA GetKeepsHistory ==
  ASSUME StoreTypeOK, HistoryInv, NEW k \in StoredKeys, Get(k)
  PROVE  HistoryInv'
<1> USE DEF HistoryInv
<1>1. /\ Distinct(store) /\ InOrder(store, since)
      /\ Len(store) \in Nat /\ Len(store) <= Capacity
      /\ store \in Seq(Entry(StoredKeys, StoredValues)) /\ clock \in Int
  BY LenProperties DEF StoreTypeOK, KeptAsSet, OrderedByUse, Distinct, InOrder
<1>2. /\ store' \in Seq(Entry(StoredKeys, StoredValues))
      /\ Len(store') <= Len(store) /\ Len(store') \in Nat
      /\ Within(store', store)
      /\ Distinct(store')
      /\ UNCHANGED <<clock, lastSet>>
  <2>1. store' = AfterGet(store, k, clock)
    BY DEF Get
  <2>2. /\ store' \in Seq(Entry(StoredKeys, StoredValues)) /\ Len(store') <= Len(store)
        /\ Within(store', store) /\ Distinct(store')
    BY <1>1, <2>1, AfterGetOK
  <2>3. QED
    BY <2>2, LenProperties DEF Get
<1>3. Len(store') <= Capacity
  BY <1>1, <1>2, CapacityType
<1>4. KeptAsSet'
  <2>1. \A i, j \in 1..Len(store') : store'[i].key = store'[j].key => i = j
    BY <1>2 DEF Distinct
  <2>2. ASSUME NEW i \in 1..Len(store')
        PROVE  /\ store'[i].value = lastSet'[store'[i].key].value
               /\ store'[i].expires = lastSet'[store'[i].key].expires
    <3>1. PICK j \in 1..Len(store) : store'[i] = store[j]
      BY <1>2 DEF Within
    <3>2. QED
      BY <1>2, <3>1 DEF KeptAsSet
  <2>3. QED
    BY <2>1, <2>2 DEF KeptAsSet
<1>5. CASE Fresh(store, k, clock)
  <2> DEFINE w == Without(store, k)
             e == store[Position(store, k)]
  <2>1. store' = Append(w, e) /\ Use(k)
    BY <1>5 DEF Get, AfterGet
  <2>2. e \in Entry(StoredKeys, StoredValues) /\ e.key = k
    BY <1>1, <1>5, PositionOK DEF Fresh
  <2>3. w \in Seq(Entry(StoredKeys, StoredValues)) /\ ~Holds(w, k)
    BY <1>1, WithoutOK
  <2>4. InOrder(w, since) /\ \A j : j # k /\ Holds(store, j) => Holds(w, j)
    BY <1>1, WithoutKeepsOrder
  <2> HIDE DEF w, e
  <2>5. DOMAIN since = StoredKeys
    BY DEF StoreTypeOK
  <2>6. /\ InOrder(store', Used(since, k))
        /\ \A j : Holds(store', j) <=> j = k \/ Holds(w, j)
    BY <2>1, <2>2, <2>3, <2>4, <2>5, AppendKeepsOrder
  <2>7. OrderedByUse'
    BY <1>3, <2>1, <2>6, UseGrows DEF OrderedByUse, InOrder
  <2>8. ASSUME NEW j \in StoredKeys, ~Holds(store', j), lastSet'[j].expires > clock'
        PROVE  Cardinality(since'[j]) >= Capacity
    <3>1. j # k /\ ~Holds(store, j)
      BY <2>4, <2>6, <2>8
    <3>2. Cardinality(since[j]) >= Capacity
      BY <1>2, <2>8, <3>1 DEF LostForCause
    <3>3. /\ Cardinality(since[j]) <= Cardinality(since'[j])
          /\ Cardinality(since[j]) \in Int /\ Cardinality(since'[j]) \in Int
      <4>1. since[j] \in SUBSET StoredKeys /\ since'[j] \in SUBSET StoredKeys
        BY <2>1 DEF StoreTypeOK, Use
      <4>2. QED
        BY <2>1, <3>1, <4>1, UseGrows, HistoryAssumption, FS_Subset, FS_CardinalityType
    <3>4. QED
      BY <3>2, <3>3, CapacityType
  <2>9. LostForCause'
    BY <2>8 DEF LostForCause, Holds
  <2>10. QED
    BY <1>4, <2>7, <2>9
<1>6. CASE ~Fresh(store, k, clock)
  <2>1. store' = Without(store, k) /\ UNCHANGED since
    BY <1>6 DEF Get, AfterGet
  <2>2. InOrder(store', since) /\ \A j : j # k /\ Holds(store, j) => Holds(store', j)
    BY <1>1, <2>1, WithoutKeepsOrder
  <2>3. OrderedByUse'
    BY <1>3, <2>1, <2>2 DEF OrderedByUse, InOrder
  <2>4. ASSUME NEW j \in StoredKeys, ~Holds(store', j), lastSet[j].expires > clock
        PROVE  ~Holds(store, j)
    <3>1. CASE j # k
      BY <2>2, <2>4, <3>1
    <3>2. CASE j = k /\ Holds(store, k)
      <4>1. Position(store, k) \in 1..Len(store) /\ store[Position(store, k)].key = k
        BY <1>1, <3>2, PositionOK
      <4>2. store[Position(store, k)].expires = lastSet[k].expires
        BY <4>1 DEF KeptAsSet
      <4>3. QED
        BY <1>6, <2>4, <3>2, <4>2 DEF Fresh
    <3>3. QED
      BY <3>1, <3>2
  <2>5. LostForCause'
    BY <1>2, <2>1, <2>4 DEF LostForCause, Holds
  <2>6. QED
    BY <1>4, <2>3, <2>5
<1>7. QED
  BY <1>5, <1>6

LEMMA PutKeepsHistory ==
  ASSUME StoreTypeOK, HistoryInv, NEW k \in StoredKeys, NEW v \in StoredValues, NEW ttl \in Ttls,
         Put(k, v, ttl)
  PROVE  HistoryInv'
<1> USE DEF HistoryInv
<1>1. /\ Distinct(store) /\ InOrder(store, since)
      /\ Len(store) \in Nat /\ Len(store) <= Capacity
      /\ store \in Seq(Entry(StoredKeys, StoredValues)) /\ clock \in Int /\ ttl \in Int
  BY LenProperties, HistoryAssumption DEF StoreTypeOK, KeptAsSet, OrderedByUse, Distinct, InOrder
<1>2. CASE ttl <= 0
  <2>1. UNCHANGED storeVars
    BY <1>1, <1>2 DEF Put, AfterSet, storeVars
  <2>2. QED
    BY <2>1 DEF storeVars, OrderedByUse, KeptAsSet, LostForCause, Holds
<1>3. CASE ttl > 0
  <2> DEFINE w == Without(store, k)
             new == NewEntry(k, v, clock + ttl)
             a == Append(w, new)
  <2>1. /\ store' = Newest(a, Capacity)
        /\ Use(k)
        /\ lastSet' = [lastSet EXCEPT ![k] = [value |-> v, expires |-> clock + ttl]]
        /\ UNCHANGED clock
    BY <1>1, <1>3 DEF Put, AfterSet
  <2>2. /\ new \in Entry(StoredKeys, StoredValues)
        /\ new.key = k /\ new.value = v /\ new.expires = clock + ttl
    BY <1>1 DEF NewEntry, Entry
  <2>3. /\ w \in Seq(Entry(StoredKeys, StoredValues)) /\ Len(w) \in Nat /\ Len(w) <= Capacity
        /\ ~Holds(w, k) /\ Distinct(w)
    BY <1>1, WithoutOK, LenProperties, CapacityType
  <2>4. InOrder(w, since) /\ \A j : j # k /\ Holds(store, j) => Holds(w, j)
    BY <1>1, WithoutKeepsOrder
  <2>5. /\ Distinct(store') /\ Len(store') <= Capacity
        /\ Replaces(store', store, new)
    BY <1>1, <1>3, AfterSetOK, AfterSetReplaces DEF Put
  <2> HIDE DEF w, new
  <2>6. /\ a \in Seq(Entry(StoredKeys, StoredValues)) /\ Len(a) = Len(w) + 1
        /\ \A i \in 1..Len(w) : a[i] = w[i]
        /\ a[Len(w) + 1] = new
    BY <2>2, <2>3, AppendProperties
  <2>7. DOMAIN since = StoredKeys
    BY DEF StoreTypeOK
  <2>8. InOrder(a, Used(since, k)) /\ \A j : Holds(a, j) <=> j = k \/ Holds(w, j)
    BY <2>2, <2>3, <2>4, <2>7, AppendKeepsOrder
  <2> HIDE DEF a
  <2>9. since' = Used(since, k) /\ since' \in [StoredKeys -> SUBSET StoredKeys]
    BY <2>1, UseGrows DEF StoreTypeOK, Use
  <2>10. Distinct(a)
    <3>1. \A i \in 1..Len(a) : i \in 1..Len(w) \/ i = Len(w) + 1
      BY <2>3, <2>6
    <3>2. \A i \in 1..Len(w) : w[i].key # k
      BY <2>3 DEF Holds
    <3>3. QED
      BY <2>2, <2>3, <2>6, <3>1, <3>2 DEF Distinct
  <2>11. /\ InOrder(store', since')
         /\ \A i \in 1..Len(a) :
              Holds(store', a[i].key) \/ Cardinality(since'[a[i].key]) >= Capacity
    <3>1. IsFiniteSet(StoredKeys) /\ InOrder(a, since') /\ Len(a) <= Capacity + 1
      BY <2>3, <2>6, <2>8, <2>9, CapacityType, HistoryAssumption
    <3>2. /\ InOrder(Newest(a, Capacity), since')
          /\ \A i \in 1..Len(a) :
               Holds(Newest(a, Capacity), a[i].key) \/ Cardinality(since'[a[i].key]) >= Capacity
      BY <2>6, <2>9, <2>10, <3>1, CapacityType, NewestDropsFirst
    <3>3. QED
      BY <2>1, <3>2
  <2>12. OrderedByUse'
    BY <2>5, <2>11 DEF OrderedByUse, InOrder
  <2>13. KeptAsSet'
    <3>1. \A i, j \in 1..Len(store') : store'[i].key = store'[j].key => i = j
      BY <2>5 DEF Distinct
    <3>2. ASSUME NEW i \in 1..Len(store')
          PROVE  /\ store'[i].value = lastSet'[store'[i].key].value
                 /\ store'[i].expires = lastSet'[store'[i].key].expires
      <4>1. CASE store'[i] = new
        BY <2>1, <2>2, <4>1 DEF StoreTypeOK
      <4>2. ASSUME NEW j \in 1..Len(store), store'[i] = store[j], store[j].key # k
            PROVE  /\ store'[i].value = lastSet'[store'[i].key].value
                   /\ store'[i].expires = lastSet'[store'[i].key].expires
        <5>1. store[j] \in Entry(StoredKeys, StoredValues) /\ store[j].key \in StoredKeys
          <6>1. store[j] \in Entry(StoredKeys, StoredValues)
            BY <1>1, ElementOfSeq
          <6>2. QED
            BY <6>1 DEF Entry
        <5>2. lastSet'[store[j].key] = lastSet[store[j].key]
          BY <2>1, <4>2, <5>1 DEF StoreTypeOK
        <5>3. QED
          BY <4>2, <5>2 DEF KeptAsSet
      <4>3. QED
        BY <2>2, <2>5, <4>1, <4>2 DEF Replaces
    <3>3. QED
      BY <3>1, <3>2 DEF KeptAsSet
  <2>14. ASSUME NEW j \in StoredKeys, ~Holds(store', j), lastSet'[j].expires > clock'
         PROVE  Cardinality(since'[j]) >= Capacity
    <3>1. CASE Holds(a, j)
      <4>1. PICK i \in 1..Len(a) : a[i].key = j
        BY <3>1 DEF Holds
      <4>2. QED
        BY <2>11, <2>14, <4>1
    <3>2. CASE ~Holds(a, j)
      <4>1. j # k /\ ~Holds(store, j)
        BY <2>4, <2>8, <3>2
      <4>2. lastSet'[j] = lastSet[j]
        BY <2>1, <4>1 DEF StoreTypeOK
      <4>3. Cardinality(since[j]) >= Capacity
        BY <2>1, <2>14, <4>1, <4>2 DEF LostForCause
      <4>4. /\ Cardinality(since[j]) <= Cardinality(since'[j])
            /\ Cardinality(since[j]) \in Int /\ Cardinality(since'[j]) \in Int
        <5>1. since[j] \in SUBSET StoredKeys /\ since'[j] \in SUBSET StoredKeys
          BY <2>9 DEF StoreTypeOK
        <5>2. QED
          BY <2>1, <4>1, <5>1, UseGrows, HistoryAssumption, FS_Subset, FS_CardinalityType
      <4>5. QED
        BY <4>3, <4>4, CapacityType
    <3>3. QED
      BY <3>1, <3>2
  <2>15. LostForCause'
    BY <2>14 DEF LostForCause, Holds
  <2>16. QED
    BY <2>12, <2>13, <2>15
<1>4. QED
  BY <1>1, <1>2, <1>3

\* The inductive invariant: an unexpired entry is missing only if at least Capacity
\* other keys were used after it, and the entries are in the order of their last use.
THEOREM HistoryHolds == StoreSpec => []HistoryInv
<1>1. StoreInit => HistoryInv
  <2> SUFFICES ASSUME StoreInit PROVE HistoryInv
    OBVIOUS
  <2>1. store = <<>> /\ 1..Len(store) = {} /\ Len(store) <= Capacity
    BY CapacityType DEF StoreInit
  <2>2. \A k \in StoredKeys : ~(lastSet[k].expires > clock)
    BY DEF StoreInit, NeverSet
  <2>3. QED
    BY <2>1, <2>2 DEF HistoryInv, OrderedByUse, KeptAsSet, LostForCause
<1>2. StoreTypeOK /\ HistoryInv /\ [StoreNext]_storeVars => HistoryInv'
  <2> SUFFICES ASSUME StoreTypeOK, HistoryInv, [StoreNext]_storeVars PROVE HistoryInv'
    OBVIOUS
  <2>1. CASE TimePasses
    <3>1. UNCHANGED <<store, lastSet, since>> /\ clock' = clock + 1
      BY <2>1 DEF TimePasses
    <3>2. \A k \in StoredKeys : lastSet[k].expires > clock' => lastSet[k].expires > clock
      <4>1. \A k \in StoredKeys : lastSet[k].expires \in Int
        BY DEF StoreTypeOK, NeverSet
      <4>2. QED
        BY <3>1, <4>1 DEF StoreTypeOK
    <3>3. QED
      BY <3>1, <3>2 DEF HistoryInv, OrderedByUse, KeptAsSet, LostForCause, Holds
  <2>2. CASE UNCHANGED storeVars
    BY <2>2 DEF storeVars, HistoryInv, OrderedByUse, KeptAsSet, LostForCause, Holds
  <2>3. QED
    BY <2>1, <2>2, GetKeepsHistory, PutKeepsHistory DEF StoreNext
<1>3. QED
  BY <1>1, <1>2, StoreTypeCorrect, PTL DEF StoreSpec

\* The victim of an eviction is the least recently used key, whatever was read, set
\* again or deleted on expiry in between.
THEOREM UseOrdersEntries == StoreSpec => []OrderedByUse
<1>1. HistoryInv => OrderedByUse
  BY DEF HistoryInv
<1>2. QED
  BY <1>1, HistoryHolds, PTL

\* A key that was set and used recently enough is found until it expires, and with the
\* value that was set last.
THEOREM RecentUseProtects == StoreSpec => []RecentlyUsedSurvive
<1>1. StoreTypeOK /\ HistoryInv => RecentlyUsedSurvive
  <2> SUFFICES ASSUME StoreTypeOK, HistoryInv, NEW k \in StoredKeys,
                      Cardinality(since[k]) < Capacity, lastSet[k].expires > clock
               PROVE  Fresh(store, k, clock) /\ ValueOf(store, k) = lastSet[k].value
    BY DEF RecentlyUsedSurvive
  <2>1. Cardinality(since[k]) \in Int
    BY HistoryAssumption, FS_Subset, FS_CardinalityType DEF StoreTypeOK
  <2>2. Holds(store, k)
    BY <2>1, CapacityType DEF HistoryInv, LostForCause
  <2>3. Position(store, k) \in 1..Len(store) /\ store[Position(store, k)].key = k
    BY <2>2, PositionOK DEF StoreTypeOK
  <2>4. QED
    BY <2>2, <2>3 DEF HistoryInv, KeptAsSet, Fresh, ValueOf
<1>2. QED
  BY <1>1, HistoryHolds, StoreTypeCorrect, PTL
=============================================================================
