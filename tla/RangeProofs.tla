---------------------------- MODULE RangeProofs ----------------------------
(***************************************************************************)
(* Theorems about the range table, for any number and size of blocks and   *)
(* any calls.  What needs the calls to be careful says so.                 *)
(***************************************************************************)
EXTENDS Range, SequenceTheorems, NaturalsInduction, WellFoundedInduction, TLAPS

-----------------------------------------------------------------------------
(* Addresses: the block and the low bits.                                  *)

LEMMA DivMod ==
  ASSUME NEW a \in Nat, NEW b \in Nat \ {0}
  PROVE  /\ a \div b \in Nat /\ a % b \in Nat /\ a % b < b
         /\ a = (a \div b) * b + (a % b)
OBVIOUS

LEMMA Unique ==
  ASSUME NEW b \in Nat \ {0}, NEW q \in Nat, NEW r \in Nat, r < b,
         NEW h \in Nat, NEW l \in Nat, l < b, h * b + l = q * b + r
  PROVE  h = q /\ l = r
<1>1. CASE h < q
  <2>1. h + 1 <= q
    BY <1>1
  <2>2. (h + 1) * b <= q * b
    BY <2>1
  <2>3. QED
    BY <2>2
<1>2. CASE q < h
  <2>1. q + 1 <= h
    BY <1>2
  <2>2. (q + 1) * b <= h * b
    BY <2>1
  <2>3. QED
    BY <2>2
<1>3. QED
  BY <1>1, <1>2

LEMMA Space == Blocks * Size \in Nat \ {0} /\ Size \in Nat \ {0} /\ Blocks \in Nat \ {0}
BY RangeAssumption

LEMMA Parts ==
  ASSUME NEW a \in Nat
  PROVE  /\ High(a) \in Nat /\ LowOf(a) \in Low
         /\ a = High(a) * Size + LowOf(a)
<1>1. High(a) \in Nat /\ LowOf(a) \in Nat /\ LowOf(a) < Size /\ a = High(a) * Size + LowOf(a)
  BY Space, DivMod DEF High, LowOf
<1>2. QED
  BY <1>1, Space DEF Low

LEMMA Whole ==
  ASSUME NEW h \in Nat, NEW l \in Low
  PROVE  High(h * Size + l) = h /\ LowOf(h * Size + l) = l
<1> DEFINE a == h * Size + l
<1>1. a \in Nat /\ l \in Nat /\ l < Size
  BY Space DEF Low
<1>2. High(a) \in Nat /\ LowOf(a) \in Nat /\ LowOf(a) < Size /\ a = High(a) * Size + LowOf(a)
  BY <1>1, Parts, Space DEF Low
<1>3. h * Size + l = High(a) * Size + LowOf(a)
  BY <1>2
<1> HIDE DEF a
<1>4. QED
  BY <1>1, <1>2, <1>3, Space, Unique DEF a

\* Addresses are in the order of their blocks, and in each block of their low bits.
LEMMA AddressOrder ==
  ASSUME NEW a \in Nat, NEW b \in Nat
  PROVE  a <= b <=> High(a) < High(b) \/ (High(a) = High(b) /\ LowOf(a) <= LowOf(b))
<1> DEFINE ha == High(a)
           hb == High(b)
           la == LowOf(a)
           lb == LowOf(b)
<1>1. /\ ha \in Nat /\ hb \in Nat /\ la \in Low /\ lb \in Low
      /\ a = ha * Size + la /\ b = hb * Size + lb
  BY Parts
<1> HIDE DEF ha, hb, la, lb
<1>2. la \in Nat /\ lb \in Nat /\ la < Size /\ lb < Size
  BY <1>1, Space DEF Low
<1>3. CASE ha < hb
  <2>1. (ha + 1) * Size <= hb * Size
    <3>1. ha + 1 <= hb
      BY <1>1, <1>3
    <3>2. QED
      BY <1>1, <3>1, Space
  <2>2. (ha + 1) * Size = ha * Size + Size
    BY <1>1, Space
  <2>3. a <= b
    BY <1>1, <1>2, <2>1, <2>2, Space
  <2>4. QED
    BY <1>3, <2>3 DEF ha, hb
<1>4. CASE ha = hb
  <2>1. a <= b <=> la <= lb
    <3>1. ha * Size \in Nat
      BY <1>1, Space
    <3>2. QED
      BY <1>1, <1>2, <1>4, <3>1
  <2>2. QED
    BY <1>1, <1>4, <2>1 DEF ha, hb, la, lb
<1>5. CASE hb < ha
  <2>1. (hb + 1) * Size <= ha * Size
    <3>1. hb + 1 <= ha
      BY <1>1, <1>5
    <3>2. QED
      BY <1>1, <3>1, Space
  <2>2. (hb + 1) * Size = hb * Size + Size
    BY <1>1, Space
  <2>3. ~(a <= b)
    BY <1>1, <1>2, <2>1, <2>2, Space
  <2>4. QED
    BY <1>1, <1>5, <2>3 DEF ha, hb
<1>6. QED
  BY <1>1, <1>3, <1>4, <1>5

LEMMA Addresses ==
  /\ Addr \subseteq Nat
  /\ \A a \in Addr : High(a) \in 0..(Blocks - 1)
  /\ \A a \in Nat : High(a) < Blocks => a \in Addr
<1>1. Addr \subseteq Nat
  BY DEF Addr
<1> DEFINE m == Blocks * Size
<1>2. m \in Nat /\ High(m) = Blocks
  <2>1. 0 \in Low /\ Blocks \in Nat /\ m \in Nat
    BY Space DEF Low
  <2>2. High(Blocks * Size + 0) = Blocks
    BY <2>1, Whole
  <2>3. Blocks * Size + 0 = m
    BY Space
  <2>4. QED
    BY <2>1, <2>2, <2>3
<1>3. \A a \in Nat : a \in Addr <=> ~(m <= a)
  BY Space DEF Addr
<1> HIDE DEF m
<1>4. LowOf(m) = 0
  <2>1. 0 \in Low /\ Blocks \in Nat
    BY Space DEF Low
  <2>2. LowOf(Blocks * Size + 0) = 0
    BY <2>1, Whole
  <2>3. Blocks * Size + 0 = m
    BY Space DEF m
  <2>4. QED
    BY <2>2, <2>3
<1>5. \A a \in Nat : m <= a <=> ~(High(a) < Blocks)
  <2> SUFFICES ASSUME NEW a \in Nat PROVE m <= a <=> ~(High(a) < Blocks)
    OBVIOUS
  <2>1. m <= a <=> High(m) < High(a) \/ (High(m) = High(a) /\ LowOf(m) <= LowOf(a))
    BY <1>2, AddressOrder
  <2>2. High(a) \in Nat /\ LowOf(a) \in Nat
    BY Parts DEF Low
  <2>3. QED
    BY <1>2, <1>4, <2>1, <2>2, Space
<1>6. \A a \in Nat : High(a) \in Nat
  BY Parts
<1>7. QED
  BY <1>1, <1>3, <1>5, <1>6, Space

LEMMA Following ==
  ASSUME NEW a \in Nat
  PROVE  /\ a + Size \in Nat
         /\ High(a + Size) = High(a) + 1 /\ LowOf(a + Size) = LowOf(a)
<1> DEFINE h == High(a)
           l == LowOf(a)
<1>1. h \in Nat /\ l \in Low /\ a = h * Size + l
  BY Parts
<1>2. l \in Nat
  BY <1>1, Space DEF Low
<1> HIDE DEF h, l
<1>3. (h + 1) * Size = h * Size + Size /\ h * Size \in Nat
  BY <1>1, Space
<1>4. a + Size = (h + 1) * Size + l
  BY <1>1, <1>2, <1>3, Space
<1>5. High((h + 1) * Size + l) = h + 1 /\ LowOf((h + 1) * Size + l) = l
  BY <1>1, Whole
<1>6. QED
  BY <1>4, <1>5, Space DEF h, l

-----------------------------------------------------------------------------
(* Vectors.                                                                *)

EntryType == [start : Low, end : Low, ip_addr : Ip \cup {Invalid}]

Vectors == Seq(EntryType)

Sorted(vec) ==
  /\ \A i \in 1..Len(vec) : vec[i].start <= vec[i].end
  /\ \A i, j \in 1..Len(vec) : i < j => vec[i].end < vec[j].start

Covers(r, x) == r.start <= x /\ x <= r.end

Holds(vec, r) == \E i \in 1..Len(vec) : vec[i] = r

\* What range_get finds in the vector of the block.
Value(vec, x, def) ==
  LET hits == {i \in DOMAIN vec : vec[i].start <= x /\ x <= vec[i].end}
  IN IF hits = {} THEN def
     ELSE vec[CHOOSE i \in hits : \A j \in hits : i <= j].ip_addr

LEMMA GetIsValue == \A a : Get(a) = Value(low[High(a)], LowOf(a), def_ip)
BY DEF Get, Value

LEMMA LowNumbers == Low \subseteq Nat /\ \A x \in Low : x < Size
BY Space DEF Low

LEMMA EntryNumbers ==
  ASSUME NEW vec \in Vectors, NEW i \in 1..Len(vec)
  PROVE  /\ vec[i] \in EntryType
         /\ vec[i].start \in Low /\ vec[i].end \in Low
         /\ vec[i].start \in Nat /\ vec[i].end \in Nat
<1>1. vec[i] \in EntryType
  BY DEF Vectors
<1>2. vec[i].start \in Low /\ vec[i].end \in Low
  BY <1>1 DEF EntryType
<1>3. QED
  BY <1>1, <1>2, LowNumbers

\* In a sorted vector an address is in one range at most.
LEMMA ValueFound ==
  ASSUME NEW vec \in Vectors, Sorted(vec), NEW x \in Low, NEW def,
         NEW i \in 1..Len(vec), Covers(vec[i], x)
  PROVE  Value(vec, x, def) = vec[i].ip_addr
<1> DEFINE hits == {j \in DOMAIN vec : vec[j].start <= x /\ x <= vec[j].end}
<1>1. DOMAIN vec = 1..Len(vec) /\ Len(vec) \in Nat
  BY DEF Vectors
<1>2. x \in Nat
  BY LowNumbers
<1>3. ASSUME NEW j \in hits PROVE j = i
  <2>1. j \in 1..Len(vec) /\ vec[j].start <= x /\ x <= vec[j].end
    BY <1>1
  <2>2. vec[i].start <= x /\ x <= vec[i].end
    BY DEF Covers
  <2>3. /\ vec[i].start \in Nat /\ vec[i].end \in Nat
        /\ vec[j].start \in Nat /\ vec[j].end \in Nat
    BY <2>1, EntryNumbers
  <2>4. ~(i < j)
    <3>1. i < j => vec[i].end < vec[j].start
      BY <2>1 DEF Sorted
    <3>2. QED
      BY <1>2, <2>1, <2>2, <2>3, <3>1
  <2>5. ~(j < i)
    <3>1. j < i => vec[j].end < vec[i].start
      BY <2>1 DEF Sorted
    <3>2. QED
      BY <1>2, <2>1, <2>2, <2>3, <3>1
  <2>6. QED
    BY <1>1, <2>1, <2>4, <2>5
<1>4. i \in hits
  BY <1>1 DEF Covers
<1>5. hits = {i}
  BY <1>3, <1>4
<1>6. (CHOOSE k \in hits : \A j \in hits : k <= j) = i
  <2> HIDE DEF hits
  <2>1. QED
    BY <1>1, <1>5
<1>7. Value(vec, x, def) = IF hits = {} THEN def
        ELSE vec[CHOOSE k \in hits : \A j \in hits : k <= j].ip_addr
  BY DEF Value
<1> HIDE DEF hits
<1>8. QED
  BY <1>4, <1>6, <1>7

LEMMA ValueMissing ==
  ASSUME NEW vec \in Vectors, NEW x, NEW def,
         \A i \in 1..Len(vec) : ~Covers(vec[i], x)
  PROVE  Value(vec, x, def) = def
<1>1. DOMAIN vec = 1..Len(vec)
  BY DEF Vectors
<1>2. QED
  BY <1>1 DEF Value, Covers

\* Sorted vectors that cover the same with the same give the same.
LEMMA ValueSame ==
  ASSUME NEW v \in Vectors, NEW w \in Vectors, Sorted(v), Sorted(w),
         NEW x \in Low, NEW def,
         \A i \in 1..Len(v) : Covers(v[i], x) =>
           \E j \in 1..Len(w) : Covers(w[j], x) /\ w[j].ip_addr = v[i].ip_addr,
         \A j \in 1..Len(w) : Covers(w[j], x) => \E i \in 1..Len(v) : Covers(v[i], x)
  PROVE  Value(w, x, def) = Value(v, x, def)
<1>1. CASE \E i \in 1..Len(v) : Covers(v[i], x)
  <2>1. PICK i \in 1..Len(v) : Covers(v[i], x)
    BY <1>1
  <2>2. PICK j \in 1..Len(w) : Covers(w[j], x) /\ w[j].ip_addr = v[i].ip_addr
    BY <2>1
  <2>3. Value(v, x, def) = v[i].ip_addr
    BY <2>1, ValueFound
  <2>4. Value(w, x, def) = w[j].ip_addr
    BY <2>2, ValueFound
  <2>5. QED
    BY <2>2, <2>3, <2>4
<1>2. CASE ~\E i \in 1..Len(v) : Covers(v[i], x)
  <2>1. \A i \in 1..Len(v) : ~Covers(v[i], x)
    BY <1>2
  <2>2. \A j \in 1..Len(w) : ~Covers(w[j], x)
    BY <2>1
  <2>3. Value(v, x, def) = def /\ Value(w, x, def) = def
    BY <2>1, <2>2, ValueMissing
  <2>4. QED
    BY <2>3
<1>3. QED
  BY <1>1, <1>2

\* Where things are after a range has been replaced by others.
LEMMA SpliceElements ==
  ASSUME NEW vec \in Vectors, NEW i \in 1..Len(vec), NEW new \in Vectors
  PROVE  /\ Splice(vec, i, new) \in Vectors
         /\ Len(vec) \in Nat /\ Len(new) \in Nat
         /\ Len(Splice(vec, i, new)) = Len(vec) - 1 + Len(new)
         /\ \A k \in 1..(i - 1) : Splice(vec, i, new)[k] = vec[k]
         /\ \A k \in 1..Len(new) : Splice(vec, i, new)[i - 1 + k] = new[k]
         /\ \A k \in (i + 1)..Len(vec) : Splice(vec, i, new)[k - 1 + Len(new)] = vec[k]
<1> DEFINE a == SubSeq(vec, 1, i - 1)
           b == SubSeq(vec, i + 1, Len(vec))
           l == Len(vec)
           m == Len(new)
<1>1. vec \in Seq(EntryType) /\ l \in Nat /\ m \in Nat /\ new \in Seq(EntryType) /\ i \in 1..l
  BY DEF Vectors
<1>2. a \in Seq(EntryType) /\ Len(a) = i - 1 /\ \A k \in 1..(i - 1) : a[k] = vec[k]
  BY <1>1
<1>3. b \in Seq(EntryType) /\ Len(b) = l - i /\ \A k \in 1..(l - i) : b[k] = vec[k + i]
  BY <1>1
<1> HIDE DEF l, m
<1>4. /\ a \o new \in Seq(EntryType) /\ Len(a \o new) = i - 1 + m
      /\ \A k \in 1..(i - 1) : (a \o new)[k] = vec[k]
      /\ \A k \in 1..m : (a \o new)[i - 1 + k] = new[k]
  <2> HIDE DEF a
  <2>1. /\ a \o new \in Seq(EntryType) /\ Len(a \o new) = Len(a) + Len(new)
        /\ \A k \in 1..(Len(a) + Len(new)) :
             (a \o new)[k] = IF k <= Len(a) THEN a[k] ELSE new[k - Len(a)]
    BY <1>1, <1>2, ConcatProperties
  <2>2. \A k \in 1..(i - 1) : (a \o new)[k] = vec[k]
    <3>1. \A k \in 1..(i - 1) : k \in 1..(i - 1 + m) /\ k <= i - 1
      BY <1>1
    <3>2. QED
      BY <1>2, <2>1, <3>1 DEF m
  <2>3. \A k \in 1..m : (a \o new)[i - 1 + k] = new[k]
    <3>1. \A k \in 1..m : i - 1 + k \in 1..(i - 1 + m) /\ ~(i - 1 + k <= i - 1) /\ (i - 1 + k) - (i - 1) = k
      BY <1>1
    <3>2. QED
      BY <1>2, <2>1, <3>1 DEF m
  <2>4. QED
    BY <1>2, <2>1, <2>2, <2>3 DEF m
<1> DEFINE c == a \o new
           s == c \o b
<1>5. Splice(vec, i, new) = s
  BY DEF Splice, l
<1> HIDE DEF a, b, c
<1>6. c \in Seq(EntryType) /\ Len(c) = i - 1 + m
  BY <1>4 DEF c
<1>7. /\ s \in Seq(EntryType) /\ Len(s) = l - 1 + m
      /\ \A k \in 1..(i - 1 + m) : s[k] = c[k]
      /\ \A k \in (i + 1)..l : s[k - 1 + m] = vec[k]
  <2>1. /\ c \o b \in Seq(EntryType) /\ Len(c \o b) = Len(c) + Len(b)
        /\ \A k \in 1..(Len(c) + Len(b)) :
             (c \o b)[k] = IF k <= Len(c) THEN c[k] ELSE b[k - Len(c)]
    BY <1>3, <1>6, ConcatProperties
  <2>2. Len(c) + Len(b) = l - 1 + m
    BY <1>1, <1>3, <1>6
  <2>3. \A k \in 1..(i - 1 + m) : s[k] = c[k]
    <3>1. \A k \in 1..(i - 1 + m) : k \in 1..(l - 1 + m) /\ k <= i - 1 + m
      BY <1>1
    <3>2. QED
      BY <1>6, <2>1, <2>2, <3>1
  <2>4. \A k \in (i + 1)..l : s[k - 1 + m] = vec[k]
    <3> SUFFICES ASSUME NEW k \in (i + 1)..l PROVE s[k - 1 + m] = vec[k]
      OBVIOUS
    <3> DEFINE p == k - 1 + m
    <3>1. /\ p \in 1..(l - 1 + m) /\ ~(p <= i - 1 + m) /\ p - (i - 1 + m) = k - i
          /\ k - i \in 1..(l - i) /\ (k - i) + i = k
      BY <1>1
    <3> HIDE DEF p
    <3>2. s[p] = b[k - i]
      BY <1>6, <2>1, <2>2, <3>1
    <3>3. b[k - i] = vec[k]
      BY <1>3, <3>1
    <3>4. QED
      BY <3>2, <3>3 DEF p
  <2>5. QED
    BY <2>1, <2>2, <2>3, <2>4
<1> HIDE DEF s
<1>8. \A k \in 1..(i - 1) : s[k] = vec[k]
  <2>1. \A k \in 1..(i - 1) : k \in 1..(i - 1 + m)
    BY <1>1
  <2>2. QED
    BY <1>4, <1>7, <2>1 DEF c
<1>9. \A k \in 1..m : s[i - 1 + k] = new[k]
  <2>1. \A k \in 1..m : i - 1 + k \in 1..(i - 1 + m)
    BY <1>1
  <2>2. QED
    BY <1>4, <1>7, <2>1 DEF c
<1>10. QED
  BY <1>1, <1>5, <1>7, <1>8, <1>9 DEF l, m, Vectors

\* Each position after it is one of those before.
LEMMA SplicePositions ==
  ASSUME NEW vec \in Vectors, NEW i \in 1..Len(vec), NEW new \in Vectors,
         NEW p \in 1..Len(Splice(vec, i, new))
  PROVE  \/ p \in 1..(i - 1) /\ Splice(vec, i, new)[p] = vec[p]
         \/ \E k \in 1..Len(new) : p = i - 1 + k /\ Splice(vec, i, new)[p] = new[k]
         \/ \E k \in (i + 1)..Len(vec) :
              p = k - 1 + Len(new) /\ Splice(vec, i, new)[p] = vec[k]
<1> DEFINE l == Len(vec)
           m == Len(new)
           s == Splice(vec, i, new)
<1>1. /\ l \in Nat /\ m \in Nat /\ i \in 1..l /\ p \in 1..(l - 1 + m)
      /\ \A k \in 1..(i - 1) : s[k] = vec[k]
      /\ \A k \in 1..m : s[i - 1 + k] = new[k]
      /\ \A k \in (i + 1)..l : s[k - 1 + m] = vec[k]
  BY SpliceElements
<1> HIDE DEF l, m, s
<1>2. CASE p <= i - 1
  <2>1. p \in 1..(i - 1)
    BY <1>1, <1>2
  <2>2. QED
    BY <1>1, <2>1 DEF s
<1>3. CASE ~(p <= i - 1) /\ p <= i - 1 + m
  <2> DEFINE k == p - (i - 1)
  <2>1. k \in 1..m /\ p = i - 1 + k
    BY <1>1, <1>3
  <2>2. QED
    BY <1>1, <2>1 DEF s, m
<1>4. CASE ~(p <= i - 1 + m)
  <2> DEFINE k == p + 1 - m
  <2>1. k \in (i + 1)..l /\ p = k - 1 + m
    BY <1>1, <1>4
  <2>2. QED
    BY <1>1, <2>1 DEF s, m, l
<1>5. QED
  BY <1>2, <1>3, <1>4

\* What replaces a range lies between its neighbours: the vector stays sorted.
LEMMA SpliceSorted ==
  ASSUME NEW vec \in Vectors, Sorted(vec), NEW i \in 1..Len(vec),
         NEW new \in Vectors, Sorted(new),
         \A k \in 1..Len(new) : \A j \in 1..(i - 1) : vec[j].end < new[k].start,
         \A k \in 1..Len(new) : \A j \in (i + 1)..Len(vec) : new[k].end < vec[j].start
  PROVE  Sorted(Splice(vec, i, new))
<1> DEFINE l == Len(vec)
           m == Len(new)
           s == Splice(vec, i, new)
<1>0. l \in Nat /\ m \in Nat /\ i \in 1..l
  BY SpliceElements
<1>1. \A p \in 1..Len(s) :
        \/ p \in 1..(i - 1) /\ s[p] = vec[p]
        \/ \E k \in 1..m : p = i - 1 + k /\ s[p] = new[k]
        \/ \E k \in (i + 1)..l : p = k - 1 + m /\ s[p] = vec[k]
  BY SplicePositions
<1>2. /\ \A k \in 1..l : vec[k].start <= vec[k].end
      /\ \A j, k \in 1..l : j < k => vec[j].end < vec[k].start
      /\ \A k \in 1..m : new[k].start <= new[k].end
      /\ \A j, k \in 1..m : j < k => new[j].end < new[k].start
  BY DEF Sorted
<1>3. /\ \A k \in 1..m : \A j \in 1..(i - 1) : vec[j].end < new[k].start
      /\ \A k \in 1..m : \A j \in (i + 1)..l : new[k].end < vec[j].start
  OBVIOUS
<1> HIDE DEF l, m, s
<1>4. (\A k \in 1..(i - 1) : k \in 1..l) /\ \A k \in (i + 1)..l : k \in 1..l
  BY <1>0
<1>5. \A p \in 1..Len(s) : s[p].start <= s[p].end
  BY <1>1, <1>2, <1>4
<1>6. ASSUME NEW p \in 1..Len(s), NEW q \in 1..Len(s), p < q
      PROVE  s[p].end < s[q].start
  <2>1. CASE p \in 1..(i - 1) /\ s[p] = vec[p]
    <3>1. CASE q \in 1..(i - 1) /\ s[q] = vec[q]
      BY <1>2, <1>4, <1>6, <2>1, <3>1
    <3>2. CASE \E k \in 1..m : q = i - 1 + k /\ s[q] = new[k]
      BY <1>3, <2>1, <3>2
    <3>3. CASE \E k \in (i + 1)..l : q = k - 1 + m /\ s[q] = vec[k]
      <4>1. PICK k \in (i + 1)..l : s[q] = vec[k]
        BY <3>3
      <4>2. p < k /\ p \in 1..l /\ k \in 1..l
        BY <1>0, <1>4, <2>1
      <4>3. QED
        BY <1>2, <2>1, <4>1, <4>2
    <3>4. QED
      BY <1>1, <3>1, <3>2, <3>3
  <2>2. CASE \E k \in 1..m : p = i - 1 + k /\ s[p] = new[k]
    <3>0. PICK k \in 1..m : p = i - 1 + k /\ s[p] = new[k]
      BY <2>2
    <3>1. ~(q \in 1..(i - 1))
      BY <1>0, <1>6, <3>0
    <3>2. CASE \E j \in 1..m : q = i - 1 + j /\ s[q] = new[j]
      <4>1. PICK j \in 1..m : q = i - 1 + j /\ s[q] = new[j]
        BY <3>2
      <4>2. k < j
        BY <1>0, <1>6, <3>0, <4>1
      <4>3. QED
        BY <1>2, <3>0, <4>1, <4>2
    <3>3. CASE \E j \in (i + 1)..l : q = j - 1 + m /\ s[q] = vec[j]
      BY <1>3, <3>0, <3>3
    <3>4. QED
      BY <1>1, <3>1, <3>2, <3>3
  <2>3. CASE \E k \in (i + 1)..l : p = k - 1 + m /\ s[p] = vec[k]
    <3>0. PICK k \in (i + 1)..l : p = k - 1 + m /\ s[p] = vec[k]
      BY <2>3
    <3>1. ~(q \in 1..(i - 1))
      BY <1>0, <1>6, <3>0
    <3>2. \A j \in 1..m : q # i - 1 + j
      BY <1>0, <1>6, <3>0
    <3>3. PICK j \in (i + 1)..l : q = j - 1 + m /\ s[q] = vec[j]
      BY <1>1, <3>1, <3>2
    <3>4. k < j
      BY <1>0, <1>6, <3>0, <3>3
    <3>5. QED
      BY <1>2, <1>4, <3>0, <3>3, <3>4
  <2>4. QED
    BY <1>1, <2>1, <2>2, <2>3
<1>7. QED
  BY <1>5, <1>6 DEF Sorted, s

\* The ranges are the others and the new ones.
LEMMA SpliceHolds ==
  ASSUME NEW vec \in Vectors, NEW i \in 1..Len(vec), NEW new \in Vectors, NEW r
  PROVE  Holds(Splice(vec, i, new), r)
           <=> (\E k \in 1..Len(vec) : k # i /\ vec[k] = r) \/ Holds(new, r)
<1> DEFINE l == Len(vec)
           m == Len(new)
           s == Splice(vec, i, new)
<1>0. /\ l \in Nat /\ m \in Nat /\ i \in 1..l /\ Len(s) = l - 1 + m
      /\ \A k \in 1..(i - 1) : s[k] = vec[k]
      /\ \A k \in 1..m : s[i - 1 + k] = new[k]
      /\ \A k \in (i + 1)..l : s[k - 1 + m] = vec[k]
  BY SpliceElements
<1>1. \A p \in 1..Len(s) :
        \/ p \in 1..(i - 1) /\ s[p] = vec[p]
        \/ \E k \in 1..m : p = i - 1 + k /\ s[p] = new[k]
        \/ \E k \in (i + 1)..l : p = k - 1 + m /\ s[p] = vec[k]
  BY SplicePositions
<1> HIDE DEF l, m, s
<1>2. ASSUME NEW p \in 1..Len(s)
      PROVE  (\E k \in 1..l : k # i /\ vec[k] = s[p]) \/ \E k \in 1..m : new[k] = s[p]
  <2>1. \A k \in 1..(i - 1) : k \in 1..l /\ k # i
    BY <1>0
  <2>2. \A k \in (i + 1)..l : k \in 1..l /\ k # i
    BY <1>0
  <2>3. QED
    BY <1>1, <2>1, <2>2
<1>3. ASSUME NEW k \in 1..l, k # i PROVE \E p \in 1..Len(s) : s[p] = vec[k]
  <2>1. CASE k < i
    <3>1. k \in 1..(i - 1) /\ k \in 1..Len(s)
      BY <1>0, <2>1
    <3>2. QED
      BY <1>0, <3>1
  <2>2. CASE ~(k < i)
    <3>1. k \in (i + 1)..l /\ k - 1 + m \in 1..Len(s)
      BY <1>0, <1>3, <2>2
    <3>2. QED
      BY <1>0, <3>1
  <2>3. QED
    BY <2>1, <2>2
<1>4. ASSUME NEW k \in 1..m PROVE \E p \in 1..Len(s) : s[p] = new[k]
  <2>1. i - 1 + k \in 1..Len(s)
    BY <1>0
  <2>2. QED
    BY <1>0, <2>1
<1>5. Holds(s, r) <=> (\E k \in 1..l : k # i /\ vec[k] = r) \/ \E k \in 1..m : new[k] = r
  <2>1. ASSUME NEW p \in 1..Len(s), s[p] = r
        PROVE  (\E k \in 1..l : k # i /\ vec[k] = r) \/ \E k \in 1..m : new[k] = r
    BY <1>2, <2>1
  <2>2. ASSUME NEW k \in 1..l, k # i, vec[k] = r PROVE \E p \in 1..Len(s) : s[p] = r
    BY <1>3, <2>2
  <2>3. ASSUME NEW k \in 1..m, new[k] = r PROVE \E p \in 1..Len(s) : s[p] = r
    BY <1>4, <2>3
  <2>4. Holds(s, r) <=> \E p \in 1..Len(s) : s[p] = r
    BY DEF Holds
  <2>5. QED
    BY <2>1, <2>2, <2>3, <2>4, Zenon
<1>6. QED
  BY <1>5 DEF Holds, s, l, m

-----------------------------------------------------------------------------
(* One block of an insert.                                                 *)

\* What takes the place of the range r.
Pieces(r, s, e, ip) ==
  IF s > r.end THEN <<r, Entry(s, e, ip)>>
  ELSE (IF s > r.start THEN <<Entry(r.start, s - 1, r.ip_addr)>> ELSE <<>>)
       \o <<Entry(s, e, ip)>>
       \o (IF e < r.end THEN <<Entry(e + 1, r.end, r.ip_addr)>> ELSE <<>>)

\* They are in order, reach no further than r and the new range, and cover the same
\* as r outside the new range.
Divide(new, r, s, e, ip) ==
  /\ Sorted(new)
  /\ Holds(new, Entry(s, e, ip))
  /\ \A k \in 1..Len(new) :
       /\ r.start <= new[k].start
       /\ new[k].end <= r.end \/ new[k].end <= e
       /\ \A x \in Low : Covers(new[k], x) =>
            \/ s <= x /\ x <= e
            \/ Covers(r, x) /\ new[k].ip_addr = r.ip_addr
  /\ \A x \in Low : Covers(r, x) /\ ~(s <= x /\ x <= e) =>
       \E k \in 1..Len(new) : Covers(new[k], x) /\ new[k].ip_addr = r.ip_addr

LEMMA Tuples ==
  ASSUME NEW a \in EntryType, NEW b \in EntryType
  PROVE  /\ <<a>> \in Seq(EntryType) /\ <<a, b>> \in Seq(EntryType)
         /\ <<a>> \o <<b>> = <<a, b>>
         /\ <<>> \o <<b>> = <<b>> /\ <<b>> \o <<>> = <<b>>
         /\ <<a, b>> \o <<>> = <<a, b>>
<1> DEFINE s == <<a>>
           u == <<b>>
           t == <<a, b>>
<1>1. /\ s \in Seq(EntryType) /\ Len(s) = 1 /\ s[1] = a
      /\ u \in Seq(EntryType) /\ Len(u) = 1 /\ u[1] = b
      /\ t \in Seq(EntryType) /\ Len(t) = 2 /\ t[1] = a /\ t[2] = b
  OBVIOUS
<1> HIDE DEF s, u, t
<1>2. /\ s \o u \in Seq(EntryType) /\ Len(s \o u) = 2
      /\ (s \o u)[1] = a /\ (s \o u)[2] = b
  BY <1>1, ConcatProperties
<1>3. s \o u = t
  <2>1. \A i \in 1..2 : (s \o u)[i] = t[i]
    BY <1>1, <1>2
  <2>2. QED
    BY <1>1, <1>2, <2>1, SeqEqual
<1>4. <<>> \o u = u /\ u \o <<>> = u /\ t \o <<>> = t
  BY <1>1, ConcatEmptySeq
<1>5. QED
  BY <1>1, <1>3, <1>4 DEF s, u, t

LEMMA Triples ==
  ASSUME NEW a \in EntryType, NEW m \in EntryType, NEW b \in EntryType
  PROVE  <<a, m, b>> \in Seq(EntryType) /\ <<a, m>> \o <<b>> = <<a, m, b>>
<1> DEFINE s == <<a, m>>
           u == <<b>>
           t == <<a, m, b>>
<1>1. /\ s \in Seq(EntryType) /\ Len(s) = 2 /\ s[1] = a /\ s[2] = m
      /\ u \in Seq(EntryType) /\ Len(u) = 1 /\ u[1] = b
      /\ t \in Seq(EntryType) /\ Len(t) = 3 /\ t[1] = a /\ t[2] = m /\ t[3] = b
  OBVIOUS
<1> HIDE DEF s, u, t
<1>2. /\ s \o u \in Seq(EntryType) /\ Len(s \o u) = 3
      /\ (s \o u)[1] = a /\ (s \o u)[2] = m /\ (s \o u)[3] = b
  <2>1. /\ s \o u \in Seq(EntryType)
        /\ Len(s \o u) = Len(s) + Len(u)
        /\ \A i \in 1..(Len(s) + Len(u)) :
             (s \o u)[i] = IF i <= Len(s) THEN s[i] ELSE u[i - Len(s)]
    BY <1>1, ConcatProperties
  <2>2. \A i \in 1..3 : (s \o u)[i] = IF i <= 2 THEN s[i] ELSE u[i - 2]
    BY <1>1, <2>1
  <2>3. QED
    BY <1>1, <2>1, <2>2
<1>3. s \o u = t
  <2>1. \A i \in 1..3 : (s \o u)[i] = t[i]
    BY <1>1, <1>2
  <2>2. QED
    BY <1>1, <1>2, <2>1, SeqEqual
<1>4. QED
  BY <1>1, <1>3 DEF s, u, t

LEMMA PiecesDivide ==
  ASSUME NEW r \in EntryType, NEW s \in Low, NEW e \in Low, NEW ip \in Ip \cup {Invalid},
         s > r.end \/ (s >= r.start /\ e <= r.end)
  PROVE  /\ Pieces(r, s, e, ip) \in Vectors
         /\ s <= e /\ r.start <= r.end => Divide(Pieces(r, s, e, ip), r, s, e, ip)
<1> DEFINE x1 == r.start
           x2 == r.end
           a  == Entry(x1, s - 1, r.ip_addr)
           m  == Entry(s, e, ip)
           b  == Entry(e + 1, x2, r.ip_addr)
           p  == Pieces(r, s, e, ip)
<1>1. /\ x1 \in Low /\ x2 \in Low /\ x1 \in Nat /\ x2 \in Nat /\ s \in Nat /\ e \in Nat
      /\ r.ip_addr \in Ip \cup {Invalid}
  BY LowNumbers DEF EntryType
<1>2. m \in EntryType /\ m.start = s /\ m.end = e /\ m.ip_addr = ip
  BY DEF Entry, EntryType
<1>3. s > x1 => s - 1 \in Low
  BY <1>1, Space DEF Low
<1>4. e < x2 => e + 1 \in Low
  BY <1>1, Space DEF Low
<1>5. s > x1 => a \in EntryType
  BY <1>1, <1>3 DEF Entry, EntryType
<1>6. a.start = x1 /\ a.end = s - 1 /\ a.ip_addr = r.ip_addr
  BY DEF Entry
<1>7. e < x2 => b \in EntryType
  BY <1>1, <1>4 DEF Entry, EntryType
<1>8. b.start = e + 1 /\ b.end = x2 /\ b.ip_addr = r.ip_addr
  BY DEF Entry
<1>9. /\ s > x2 => p = <<r, m>>
      /\ ~(s > x2) /\ s > x1 /\ e < x2 => p = <<a, m, b>>
      /\ ~(s > x2) /\ s > x1 /\ ~(e < x2) => p = <<a, m>>
      /\ ~(s > x2) /\ ~(s > x1) /\ e < x2 => p = <<m, b>>
      /\ ~(s > x2) /\ ~(s > x1) /\ ~(e < x2) => p = <<m>>
  <2>1. p = IF s > x2 THEN <<r, m>>
            ELSE ((IF s > x1 THEN <<a>> ELSE <<>>) \o <<m>>)
                 \o (IF e < x2 THEN <<b>> ELSE <<>>)
    BY DEF Pieces
  <2> HIDE DEF a, m, b, p
  <2>2. CASE s > x2
    BY <2>1, <2>2
  <2>3. CASE ~(s > x2) /\ s > x1 /\ e < x2
    <3>1. a \in EntryType /\ m \in EntryType /\ b \in EntryType
      BY <1>2, <1>5, <1>7, <2>3
    <3>2. p = (<<a>> \o <<m>>) \o <<b>>
      BY <2>1, <2>3
    <3>3. <<a>> \o <<m>> = <<a, m>>
      BY <3>1, Tuples
    <3>4. <<a, m>> \o <<b>> = <<a, m, b>>
      BY <3>1, Triples
    <3>5. p = <<a, m, b>>
      BY <3>2, <3>3, <3>4
    <3>6. QED
      BY <2>3, <3>5
  <2>4. CASE ~(s > x2) /\ s > x1 /\ ~(e < x2)
    BY <1>2, <1>5, <2>1, <2>4, Tuples
  <2>5. CASE ~(s > x2) /\ ~(s > x1) /\ e < x2
    BY <1>2, <1>7, <2>1, <2>5, Tuples
  <2>6. CASE ~(s > x2) /\ ~(s > x1) /\ ~(e < x2)
    BY <1>2, <2>1, <2>6, Tuples
  <2>7. QED
    BY <2>2, <2>3, <2>4, <2>5, <2>6
<1>10. \A x \in Low : x \in Nat
  BY LowNumbers
<1> HIDE DEF a, m, b, p
<1>11. p \in Vectors
  <2>1. s > x2 => p \in Seq(EntryType)
    BY <1>2, <1>9, Tuples
  <2>2. ~(s > x2) /\ s > x1 => p \in Seq(EntryType)
    <3>1. CASE ~(s > x2) /\ s > x1 /\ e < x2
      <4>1. p = <<a, m, b>> /\ a \in EntryType /\ b \in EntryType
        BY <1>5, <1>7, <1>9, <3>1
      <4>2. <<a, m, b>> \in Seq(EntryType)
        BY <1>2, <4>1, Triples
      <4>3. QED
        BY <4>1, <4>2
    <3>2. CASE ~(s > x2) /\ s > x1 /\ ~(e < x2)
      BY <1>2, <1>5, <1>9, <3>2, Tuples
    <3>3. QED
      BY <3>1, <3>2
  <2>3. ~(s > x2) /\ ~(s > x1) => p \in Seq(EntryType)
    BY <1>2, <1>7, <1>9, Tuples
  <2>4. QED
    BY <2>1, <2>2, <2>3 DEF Vectors
<1>12. m = Entry(s, e, ip)
  BY DEF m
<1>13. ASSUME s <= e, x1 <= x2 PROVE Divide(p, r, s, e, ip)
  <2>1. CASE s > x2
    <3>1. Len(p) = 2 /\ p[1] = r /\ p[2] = m
      BY <1>9, <2>1
    <3>2. Sorted(p)
      <4>1. \A k \in 1..Len(p) : k = 1 \/ k = 2
        BY <3>1
      <4>2. QED
        BY <1>1, <1>2, <1>13, <2>1, <3>1, <4>1 DEF Sorted
    <3>3. QED
      BY <1>1, <1>2, <1>10, <1>12, <1>13, <2>1, <3>1, <3>2 DEF Divide, Holds, Covers
  <2>2. CASE ~(s > x2) /\ s > x1 /\ e < x2
    <3>1. Len(p) = 3 /\ p[1] = a /\ p[2] = m /\ p[3] = b
      BY <1>9, <2>2
    <3>2. \A k \in 1..Len(p) : k = 1 \/ k = 2 \/ k = 3
      BY <3>1
    <3>3. Sorted(p)
      BY <1>1, <1>2, <1>6, <1>8, <1>13, <2>2, <3>1, <3>2 DEF Sorted
    <3>4. QED
      BY <1>1, <1>2, <1>6, <1>8, <1>10, <1>12, <1>13, <2>2, <3>1, <3>2, <3>3 DEF Divide, Holds, Covers
  <2>3. CASE ~(s > x2) /\ s > x1 /\ ~(e < x2)
    <3>1. Len(p) = 2 /\ p[1] = a /\ p[2] = m
      BY <1>9, <2>3
    <3>2. \A k \in 1..Len(p) : k = 1 \/ k = 2
      BY <3>1
    <3>3. Sorted(p)
      BY <1>1, <1>2, <1>6, <1>13, <2>3, <3>1, <3>2 DEF Sorted
    <3>4. QED
      BY <1>1, <1>2, <1>6, <1>10, <1>12, <1>13, <2>3, <3>1, <3>2, <3>3 DEF Divide, Holds, Covers
  <2>4. CASE ~(s > x2) /\ ~(s > x1) /\ e < x2
    <3>1. Len(p) = 2 /\ p[1] = m /\ p[2] = b
      BY <1>9, <2>4
    <3>2. \A k \in 1..Len(p) : k = 1 \/ k = 2
      BY <3>1
    <3>3. Sorted(p)
      BY <1>1, <1>2, <1>8, <1>13, <2>4, <3>1, <3>2 DEF Sorted
    <3>4. QED
      BY <1>1, <1>2, <1>8, <1>10, <1>12, <1>13, <2>4, <3>1, <3>2, <3>3 DEF Divide, Holds, Covers
  <2>5. CASE ~(s > x2) /\ ~(s > x1) /\ ~(e < x2)
    <3>1. Len(p) = 1 /\ p[1] = m
      BY <1>9, <2>5
    <3>2. \A k \in 1..Len(p) : k = 1
      BY <3>1
    <3>3. Sorted(p)
      BY <1>1, <1>2, <1>13, <2>5, <3>1, <3>2 DEF Sorted
    <3>4. QED
      BY <1>1, <1>2, <1>10, <1>12, <1>13, <2>5, <3>1, <3>2, <3>3 DEF Divide, Holds, Covers
  <2>6. QED
    BY <2>1, <2>2, <2>3, <2>4, <2>5
<1>14. QED
  BY <1>11, <1>13 DEF p

LEMMA LeastOf ==
  ASSUME NEW T, T \subseteq Nat, T # {}
  PROVE  \E x \in T : \A y \in T : x <= y
<1> DEFINE R == {ss \in Nat \X Nat : ss[1] < ss[2]}
<1>1. IsWellFoundedOn(R, Nat)
  BY NatLessThanWellFounded, Zenon DEF OpToRel
<1>2. PICK x \in T : \A y \in T : <<y, x>> \notin R
  <2> HIDE DEF R
  <2> QED  BY <1>1, WFMin
<1>3. \A y \in T : ~(y < x)
  BY <1>2
<1>4. QED
  BY <1>3

\* The range an insert looks at: the last that does not start after it.
LEMMA CandidateExists ==
  ASSUME NEW vec \in Vectors, NEW e \in Low, Candidates(vec, e) # {}
  PROVE  /\ Candidate(vec, e) \in 1..Len(vec)
         /\ vec[Candidate(vec, e)].start <= e
         /\ \A j \in 1..Len(vec) : vec[j].start <= e => j <= Candidate(vec, e)
<1> DEFINE C == Candidates(vec, e)
           l == Len(vec)
           T == {l - j : j \in C}
<1>1. l \in Nat /\ \A j : j \in C <=> j \in 1..l /\ vec[j].start <= e
  BY DEF Vectors, Candidates
<1>2. T \subseteq Nat /\ T # {}
  BY <1>1
<1> HIDE DEF C, l
<1>3. PICK t \in T : \A u \in T : t <= u
  <2> HIDE DEF T
  <2> QED
    BY <1>2, LeastOf
<1>4. PICK i \in C : t = l - i
  OBVIOUS
<1>5. \A j \in C : j <= i
  <2> TAKE j \in C
  <2>1. t <= l - j
    BY <1>3
  <2>2. QED
    BY <1>1, <1>4, <2>1
<1>6. Candidate(vec, e) = CHOOSE k \in C : \A j \in C : j <= k
  BY DEF Candidate, C
<1>7. Candidate(vec, e) \in C /\ \A j \in C : j <= Candidate(vec, e)
  BY <1>5, <1>6
<1>8. QED
  BY <1>1, <1>7 DEF l

\* What is left of a vector when a range of it is gone.
LEMMA Removed ==
  ASSUME NEW vec \in Vectors, NEW i \in 1..Len(vec)
  PROVE  /\ Splice(vec, i, <<>>) \in Vectors
         /\ \A r : Holds(Splice(vec, i, <<>>), r) <=> \E k \in 1..Len(vec) : k # i /\ vec[k] = r
         /\ Sorted(vec) => Sorted(Splice(vec, i, <<>>))
<1> DEFINE new == <<>>
<1>1. new \in Vectors /\ Len(new) = 0
  BY DEF Vectors
<1>2. Sorted(new)
  BY <1>1 DEF Sorted
<1>3. \A r : ~Holds(new, r)
  BY <1>1 DEF Holds
<1> HIDE DEF new
<1>4. Splice(vec, i, new) \in Vectors
  BY <1>1, SpliceElements
<1>5. \A r : Holds(Splice(vec, i, new), r) <=> \E k \in 1..Len(vec) : k # i /\ vec[k] = r
  <2> TAKE r
  <2>1. Holds(Splice(vec, i, new), r)
          <=> (\E k \in 1..Len(vec) : k # i /\ vec[k] = r) \/ Holds(new, r)
    BY <1>1, SpliceHolds
  <2>2. QED
    BY <1>3, <2>1
<1>6. ASSUME Sorted(vec) PROVE Sorted(Splice(vec, i, new))
  <2>1. \A k \in 1..Len(new) : FALSE
    BY <1>1
  <2>2. QED
    BY <1>1, <1>2, <1>6, <2>1, SpliceSorted
<1>7. QED
  BY <1>4, <1>5, <1>6 DEF new

\* Its addresses are given back, the others are looked up as before.
LEMMA RemovedValue ==
  ASSUME NEW vec \in Vectors, Sorted(vec), NEW i \in 1..Len(vec), NEW x \in Low, NEW def
  PROVE  /\ Covers(vec[i], x) =>
              /\ \A k \in 1..Len(Splice(vec, i, <<>>)) : ~Covers(Splice(vec, i, <<>>)[k], x)
              /\ Value(Splice(vec, i, <<>>), x, def) = def
         /\ ~Covers(vec[i], x) => Value(Splice(vec, i, <<>>), x, def) = Value(vec, x, def)
<1> DEFINE w == Splice(vec, i, <<>>)
<1>1. w \in Vectors /\ Sorted(w)
  BY Removed
<1>2. \A r : Holds(w, r) <=> \E k \in 1..Len(vec) : k # i /\ vec[k] = r
  BY Removed
<1> HIDE DEF w
<1>3. \A p \in 1..Len(w) : \E k \in 1..Len(vec) : k # i /\ vec[k] = w[p]
  BY <1>2 DEF Holds
<1>4. \A k \in 1..Len(vec) : k # i => \E p \in 1..Len(w) : w[p] = vec[k]
  BY <1>2 DEF Holds
<1>5. ASSUME Covers(vec[i], x), NEW k \in 1..Len(w) PROVE ~Covers(w[k], x)
  <2>1. PICK j \in 1..Len(vec) : j # i /\ vec[j] = w[k]
    BY <1>3
  <2>2. /\ vec[i].start \in Nat /\ vec[i].end \in Nat /\ x \in Nat
        /\ vec[j].start \in Nat /\ vec[j].end \in Nat
    BY EntryNumbers, LowNumbers
  <2>3. i < j => vec[i].end < vec[j].start
    BY DEF Sorted
  <2>4. j < i => vec[j].end < vec[i].start
    BY DEF Sorted
  <2>5. i < j \/ j < i
    BY <2>1
  <2>6. QED
    BY <1>5, <2>1, <2>2, <2>3, <2>4, <2>5 DEF Covers
<1>6. Covers(vec[i], x) => Value(w, x, def) = def
  BY <1>1, <1>5, ValueMissing
<1>7. ASSUME ~Covers(vec[i], x) PROVE Value(w, x, def) = Value(vec, x, def)
  <2>1. \A k \in 1..Len(vec) : Covers(vec[k], x) =>
          \E j \in 1..Len(w) : Covers(w[j], x) /\ w[j].ip_addr = vec[k].ip_addr
    <3> TAKE k \in 1..Len(vec)
    <3> HAVE Covers(vec[k], x)
    <3>1. k # i
      BY <1>7
    <3>2. PICK j \in 1..Len(w) : w[j] = vec[k]
      BY <1>4, <3>1
    <3>3. QED
      BY <3>2
  <2>2. \A j \in 1..Len(w) : Covers(w[j], x) => \E k \in 1..Len(vec) : Covers(vec[k], x)
    <3> TAKE j \in 1..Len(w)
    <3> HAVE Covers(w[j], x)
    <3>1. PICK k \in 1..Len(vec) : vec[k] = w[j]
      BY <1>3
    <3>2. QED
      BY <3>1
  <2>3. QED
    BY <1>1, <2>1, <2>2, ValueSame
<1>8. QED
  BY <1>5, <1>6, <1>7 DEF w

LEMMA PlacedIsSplice ==
  ASSUME NEW vec, NEW i, NEW s, NEW e, NEW ip
  PROVE  Placed(vec, i, s, e, ip) = Splice(vec, i, Pieces(vec[i], s, e, ip))
BY DEF Placed, Pieces

\* A range that does not clash: the vector holds it and is in order, all of its
\* addresses get the new value, and the others are looked up as before.
LEMMA PlacedInBlock ==
  ASSUME NEW vec \in Vectors, NEW s \in Low, NEW e \in Low, NEW ip \in Ip \cup {Invalid},
         Candidates(vec, e) # {},
         ~Clashes(vec, Candidate(vec, e), s, e)
  PROVE  /\ Placed(vec, Candidate(vec, e), s, e, ip) \in Vectors
         /\ Sorted(vec) /\ s <= e =>
              /\ Sorted(Placed(vec, Candidate(vec, e), s, e, ip))
              /\ Holds(Placed(vec, Candidate(vec, e), s, e, ip), Entry(s, e, ip))
              /\ \A x \in Low : \A def :
                   ~(s <= x /\ x <= e) =>
                     Value(Placed(vec, Candidate(vec, e), s, e, ip), x, def)
                       = Value(vec, x, def)
<1> DEFINE i == Candidate(vec, e)
           r == vec[i]
           new == Pieces(r, s, e, ip)
           w == Placed(vec, i, s, e, ip)
<1>1. /\ i \in 1..Len(vec) /\ vec[i].start <= e
      /\ \A j \in 1..Len(vec) : vec[j].start <= e => j <= i
  BY CandidateExists
<1>2. w = Splice(vec, i, new)
  BY PlacedIsSplice
<1>3. ~Clashes(vec, i, s, e)
  OBVIOUS
<1> HIDE DEF i, new, w
<1>4. /\ r \in EntryType /\ r.start \in Nat /\ r.end \in Nat
      /\ \A j \in 1..Len(vec) : vec[j].start \in Nat /\ vec[j].end \in Nat
  BY <1>1, EntryNumbers
<1>5. s \in Nat /\ e \in Nat /\ \A x \in Low : x \in Nat
  BY LowNumbers
<1>5a. /\ \A j \in 1..(i - 1) : j \in 1..Len(vec) /\ j < i
      /\ \A j \in (i + 1)..Len(vec) : j \in 1..Len(vec) /\ i < j
  <2>1. Len(vec) \in Nat /\ i \in 1..Len(vec)
    BY <1>1 DEF Vectors
  <2>2. QED
    BY <2>1
<1>6. s > r.end \/ (s >= r.start /\ e <= r.end)
  BY <1>3, <1>4, <1>5 DEF Clashes
<1>7. new \in Vectors /\ (s <= e /\ r.start <= r.end => Divide(new, r, s, e, ip))
  <2> HIDE DEF r
  <2>1. QED
    BY <1>4, <1>6, PiecesDivide DEF new
<1>8. w \in Vectors
  BY <1>1, <1>2, <1>7, SpliceElements
<1>9. ASSUME Sorted(vec), s <= e
      PROVE  /\ Sorted(w) /\ Holds(w, Entry(s, e, ip))
             /\ \A x \in Low : \A def :
                  ~(s <= x /\ x <= e) => Value(w, x, def) = Value(vec, x, def)
  <2>1. r.start <= r.end
    BY <1>1, <1>9 DEF Sorted
  <2>2. Divide(new, r, s, e, ip)
    BY <1>7, <1>9, <2>1
  <2>3. /\ Sorted(new) /\ Holds(new, Entry(s, e, ip))
        /\ \A k \in 1..Len(new) :
             /\ r.start <= new[k].start
             /\ new[k].end <= r.end \/ new[k].end <= e
             /\ \A x \in Low : Covers(new[k], x) =>
                  \/ s <= x /\ x <= e
                  \/ Covers(r, x) /\ new[k].ip_addr = r.ip_addr
        /\ \A x \in Low : Covers(r, x) /\ ~(s <= x /\ x <= e) =>
             \E k \in 1..Len(new) : Covers(new[k], x) /\ new[k].ip_addr = r.ip_addr
    BY <2>2 DEF Divide
  <2>4. \A k \in 1..Len(new) : new[k].start \in Nat /\ new[k].end \in Nat
    BY <1>7, EntryNumbers
  <2>5. \A k \in 1..Len(new) : \A j \in 1..(i - 1) : vec[j].end < new[k].start
    <3> SUFFICES ASSUME NEW k \in 1..Len(new), NEW j \in 1..(i - 1)
                 PROVE  vec[j].end < new[k].start
      OBVIOUS
    <3>1. j \in 1..Len(vec) /\ j < i
      BY <1>5a
    <3>2. vec[j].end < r.start
      BY <1>1, <1>9, <3>1 DEF Sorted
    <3>3. QED
      BY <1>1, <1>4, <2>3, <2>4, <3>1, <3>2
  <2>6. \A k \in 1..Len(new) : \A j \in (i + 1)..Len(vec) : new[k].end < vec[j].start
    <3> SUFFICES ASSUME NEW k \in 1..Len(new), NEW j \in (i + 1)..Len(vec)
                 PROVE  new[k].end < vec[j].start
      OBVIOUS
    <3>1. j \in 1..Len(vec) /\ i < j
      BY <1>5a
    <3>2. r.end < vec[j].start
      BY <1>1, <1>9, <3>1 DEF Sorted
    <3>3. ~(vec[j].start <= e)
      BY <1>1, <1>4, <3>1
    <3>4. /\ new[k].end <= r.end \/ new[k].end <= e
          /\ new[k].end \in Nat /\ vec[j].start \in Nat
      BY <1>4, <2>3, <2>4, <3>1
    <3> DEFINE a == new[k].end
               b == vec[j].start
               c == r.end
    <3>5. /\ a \in Nat /\ b \in Nat /\ c \in Nat /\ e \in Nat
          /\ c < b /\ ~(b <= e) /\ (a <= c \/ a <= e)
      BY <1>4, <1>5, <3>2, <3>3, <3>4
    <3> HIDE DEF a, b, c
    <3>6. a < b
      BY <3>5
    <3>7. QED
      BY <3>6 DEF a, b
  <2>7. Sorted(w)
    BY <1>1, <1>2, <1>7, <1>9, <2>3, <2>5, <2>6, SpliceSorted
  <2>8. \A q : Holds(w, q) <=> (\E k \in 1..Len(vec) : k # i /\ vec[k] = q) \/ Holds(new, q)
    BY <1>1, <1>2, <1>7, SpliceHolds
  <2>9. Holds(w, Entry(s, e, ip))
    BY <2>3, <2>8
  <2>10. ASSUME NEW x \in Low, NEW def, ~(s <= x /\ x <= e)
         PROVE  Value(w, x, def) = Value(vec, x, def)
    <3>1. \A k \in 1..Len(vec) : Covers(vec[k], x) =>
            \E j \in 1..Len(w) : Covers(w[j], x) /\ w[j].ip_addr = vec[k].ip_addr
      <4> SUFFICES ASSUME NEW k \in 1..Len(vec), Covers(vec[k], x)
                   PROVE  \E j \in 1..Len(w) : Covers(w[j], x) /\ w[j].ip_addr = vec[k].ip_addr
        OBVIOUS
      <4>1. CASE k # i
        <5>1. Holds(w, vec[k])
          BY <2>8, <4>1
        <5>2. PICK j \in 1..Len(w) : w[j] = vec[k]
          BY <5>1 DEF Holds
        <5>3. QED
          BY <5>2
      <4>2. CASE k = i
        <5>1. PICK m \in 1..Len(new) : Covers(new[m], x) /\ new[m].ip_addr = r.ip_addr
          BY <2>3, <2>10, <4>2
        <5>2. Holds(w, new[m])
          BY <2>8 DEF Holds
        <5>3. PICK j \in 1..Len(w) : w[j] = new[m]
          BY <5>2 DEF Holds
        <5>4. QED
          BY <4>2, <5>1, <5>3
      <4>3. QED
        BY <4>1, <4>2
    <3>2. \A j \in 1..Len(w) : Covers(w[j], x) => \E k \in 1..Len(vec) : Covers(vec[k], x)
      <4> SUFFICES ASSUME NEW j \in 1..Len(w), Covers(w[j], x)
                   PROVE  \E k \in 1..Len(vec) : Covers(vec[k], x)
        OBVIOUS
      <4>1. (\E k \in 1..Len(vec) : k # i /\ vec[k] = w[j]) \/ Holds(new, w[j])
        BY <2>8 DEF Holds
      <4>2. CASE Holds(new, w[j])
        <5>1. PICK m \in 1..Len(new) : new[m] = w[j]
          BY <4>2 DEF Holds
        <5>2. Covers(r, x)
          BY <2>3, <2>10, <4>2, <5>1
        <5>3. QED
          BY <1>1, <5>2
      <4>3. QED
        BY <4>1, <4>2
    <3>3. QED
      BY <1>8, <1>9, <2>7, <3>1, <3>2, ValueSame
  <2>11. QED
    BY <2>7, <2>9, <2>10
<1>10. QED
  BY <1>8, <1>9 DEF w, i

\* The addresses of a range that a vector in order holds.
LEMMA HeldValue ==
  ASSUME NEW vec \in Vectors, Sorted(vec), NEW x \in Low, NEW def,
         NEW s, NEW e, NEW ip, Holds(vec, Entry(s, e, ip)), s <= x, x <= e
  PROVE  Value(vec, x, def) = ip
<1>1. PICK i \in 1..Len(vec) : vec[i] = Entry(s, e, ip)
  BY DEF Holds
<1>2. Covers(vec[i], x) /\ vec[i].ip_addr = ip
  BY <1>1 DEF Covers, Entry
<1>3. QED
  BY <1>2, ValueFound

\* A range pushed behind the others.
LEMMA Pushed ==
  ASSUME NEW vec \in Vectors, NEW r \in EntryType
  PROVE  /\ Append(vec, r) \in Vectors /\ Len(vec) \in Nat
         /\ Len(Append(vec, r)) = Len(vec) + 1
         /\ \A k \in 1..Len(vec) : Append(vec, r)[k] = vec[k]
         /\ Append(vec, r)[Len(vec) + 1] = r
<1>1. vec \in Seq(EntryType)
  BY DEF Vectors
<1>2. QED
  BY <1>1, AppendProperties DEF Vectors

\* The first range of a block.
Behind(vec, s, e, ip) == Append(vec, Entry(s, e, ip))

LEMMA PushedFirst ==
  ASSUME NEW vec \in Vectors, Len(vec) = 0, NEW s \in Low, NEW e \in Low, s <= e,
         NEW ip \in Ip \cup {Invalid}
  PROVE  /\ Behind(vec, s, e, ip) \in Vectors /\ Sorted(Behind(vec, s, e, ip))
         /\ Holds(Behind(vec, s, e, ip), Entry(s, e, ip))
         /\ \A x \in Low : \A def : ~(s <= x /\ x <= e) =>
              Value(Behind(vec, s, e, ip), x, def) = Value(vec, x, def)
<1> DEFINE r == Entry(s, e, ip)
           w == Append(vec, r)
<1>1. r \in EntryType /\ r.start = s /\ r.end = e
  BY DEF Entry, EntryType
<1>2. w = Behind(vec, s, e, ip)
  BY DEF Behind
<1> HIDE DEF r
<1>3. w \in Vectors /\ Len(w) = 1 /\ w[1] = r
  <2>1. /\ w \in Vectors /\ Len(w) = Len(vec) + 1 /\ w[Len(vec) + 1] = r
    BY <1>1, Pushed
  <2> HIDE DEF w
  <2>2. QED
    BY <2>1
<1> HIDE DEF w
<1>4. \A k \in 1..Len(w) : k = 1
  BY <1>3
<1>5. Sorted(w)
  BY <1>1, <1>3, <1>4 DEF Sorted
<1>6. Holds(w, r)
  BY <1>3 DEF Holds
<1>7. ASSUME NEW x \in Low, NEW def, ~(s <= x /\ x <= e)
      PROVE  Value(w, x, def) = Value(vec, x, def)
  <2>1. \A k \in 1..Len(w) : ~Covers(w[k], x)
    BY <1>1, <1>3, <1>4, <1>7 DEF Covers
  <2>2. \A k \in 1..Len(vec) : ~Covers(vec[k], x)
    OBVIOUS
  <2>3. Value(w, x, def) = def
    BY <1>3, <2>1, ValueMissing
  <2>4. Value(vec, x, def) = def
    BY <2>2, ValueMissing
  <2>5. QED
    BY <2>3, <2>4
<1>8. QED
  BY <1>2, <1>3, <1>5, <1>6, <1>7 DEF r

\* The invalid entry a failed split leaves behind.
LEMMA PushedInvalid ==
  ASSUME NEW vec \in Vectors, Sorted(vec), NEW x \in Low, NEW def,
         Value(Append(vec, Entry(0, 0, Invalid)), x, def) # Value(vec, x, def)
  PROVE  x = 0 /\ Value(Append(vec, Entry(0, 0, Invalid)), x, def) = Invalid
<1> DEFINE r == Entry(0, 0, Invalid)
           w == Append(vec, r)
           l == Len(vec)
           hits(v) == {i \in DOMAIN v : v[i].start <= x /\ x <= v[i].end}
           first(v) == CHOOSE i \in hits(v) : \A j \in hits(v) : i <= j
<1>1. r \in EntryType /\ r.start = 0 /\ r.end = 0 /\ r.ip_addr = Invalid /\ x \in Nat
  BY Space, LowNumbers DEF Entry, EntryType, Low
<1> HIDE DEF r
<1>2. /\ w \in Vectors /\ l \in Nat /\ Len(w) = l + 1
      /\ \A k \in 1..l : w[k] = vec[k]
      /\ w[l + 1] = r
  BY <1>1, Pushed
<1>3. Value(w, x, def) = IF hits(w) = {} THEN def ELSE w[first(w)].ip_addr
  BY DEF Value
<1>4. Value(w, x, def) # Value(vec, x, def)
  BY DEF w, r
<1> HIDE DEF w
<1>5. DOMAIN w = 1..(l + 1)
  BY <1>2 DEF Vectors
<1>6. ASSUME NEW i \in 1..l, Covers(vec[i], x) PROVE FALSE
  <2>1. Value(vec, x, def) = vec[i].ip_addr
    BY <1>6, ValueFound
  <2>2. ASSUME NEW j \in 1..l, Covers(vec[j], x) PROVE j = i
    <3>1. /\ vec[i].start \in Nat /\ vec[i].end \in Nat
          /\ vec[j].start \in Nat /\ vec[j].end \in Nat
      BY EntryNumbers
    <3>2. i < j => vec[i].end < vec[j].start
      BY DEF Sorted
    <3>3. j < i => vec[j].end < vec[i].start
      BY DEF Sorted
    <3>4. QED
      BY <1>1, <1>2, <1>6, <2>2, <3>1, <3>2, <3>3 DEF Covers
  <2>3. i \in hits(w) /\ \A j \in hits(w) : j = i \/ j = l + 1
    <3>1. i \in hits(w)
      BY <1>2, <1>5, <1>6 DEF Covers
    <3>2. ASSUME NEW j \in hits(w), j # l + 1 PROVE j = i
      <4>1. j \in 1..l
        BY <1>2, <1>5, <3>2
      <4>2. Covers(vec[j], x)
        BY <1>2, <4>1 DEF Covers
      <4>3. QED
        BY <2>2, <4>1, <4>2
    <3>3. QED
      BY <3>1, <3>2
  <2> DEFINE H == hits(w)
  <2>4. first(w) = CHOOSE k \in H : \A j \in H : k <= j
    OBVIOUS
  <2> HIDE DEF H
  <2>5. i \in H /\ \A j \in H : j = i \/ j = l + 1
    BY <2>3 DEF H
  <2>6. first(w) = i
    <3>1. i \in H /\ \A j \in H : i <= j
      BY <1>2, <2>5
    <3>2. \A k \in H : (\A j \in H : k <= j) => k = i
      BY <1>2, <2>5
    <3>3. QED
      BY <2>4, <3>1, <3>2
  <2>7. Value(w, x, def) = w[i].ip_addr
    BY <1>3, <2>3, <2>6
  <2>8. QED
    BY <1>2, <1>4, <2>1, <2>7
<1>7. Value(vec, x, def) = def
  BY <1>6, ValueMissing
<1>8. hits(w) # {}
  BY <1>3, <1>4, <1>7
<1>9. \A j \in hits(w) : j = l + 1
  <2> TAKE j \in hits(w)
  <2>1. ASSUME j # l + 1 PROVE FALSE
    <3>1. j \in 1..l
      BY <1>2, <1>5, <2>1
    <3>2. Covers(vec[j], x)
      BY <1>2, <3>1 DEF Covers
    <3>3. QED
      BY <1>6, <3>1, <3>2
  <2>2. QED
    BY <2>1
<1>10. hits(w) = {l + 1}
  BY <1>8, <1>9
<1>11. x = 0
  BY <1>1, <1>2, <1>10
<1>12. first(w) = l + 1
  <2>1. first(w) = CHOOSE k \in {l + 1} : \A j \in {l + 1} : k <= j
    BY <1>10
  <2>2. QED
    BY <1>2, <2>1
<1>13. QED
  BY <1>1, <1>2, <1>3, <1>8, <1>11, <1>12 DEF w, r

LEMMA Matched ==
  ASSUME NEW T, T \subseteq Nat, T # {}
  PROVE  (CHOOSE i \in T : \A j \in T : i <= j) \in T
BY LeastOf

-----------------------------------------------------------------------------
(* The inductive invariant.  Its first part holds whatever the calls are,   *)
(* the others when they are careful.                                       *)

\* The low bits of what the running call covers of block h.
PartFirst(h) == IF h = High(call.start) THEN LowOf(call.start) ELSE 0
PartLast(h)  == IF h = High(call.end) THEN LowOf(call.end) ELSE Size - 1
Part(h, ip)  == Entry(PartFirst(h), PartLast(h), ip)

Types ==
  /\ def_ip \in Ip \cup {Invalid}
  /\ low \in [0..(Blocks - 1) -> Vectors]
  /\ pc \in {"idle", "insert", "delete", "failed"}
  /\ n \in Addr /\ ret \in {-1, 0} /\ lines \in 0..MaxLines
  /\ careful \in BOOLEAN
  /\ call \in [op : {"none", "insert", "delete"}, start : Addr, end : Addr,
               ip : Ip \cup {Invalid}, undoes : BOOLEAN]
  /\ call.start <= call.end

\* The loop is in a block of the call, or behind the last one, and never wraps.
Loop ==
  pc \in {"insert", "delete"} =>
    /\ call.op = pc
    /\ High(call.end) < Blocks - 1
    /\ High(call.start) <= High(n) /\ High(n) <= High(call.end) + 1
    /\ pc = "insert" =>
         n = call.start \/ (LowOf(n) = 0 /\ High(call.start) < High(n))
    /\ pc = "delete" =>
         LowOf(n) = LowOf(call.start) /\ LowOf(call.start) <= LowOf(call.end)

\* In the blocks ahead of an insert nothing is pushed before what is there.
Room ==
  pc = "insert" =>
    \A h \in High(n)..High(call.end) :
      low[h] = <<>> \/ Candidates(low[h], PartLast(h)) # {}

AllSorted == pc # "failed" => \A h \in 0..(Blocks - 1) : Sorted(low[h])

\* The blocks behind an insert hold its range; all of them when it has succeeded.
Inserted ==
  /\ pc = "insert" =>
       \A h \in High(call.start)..(High(n) - 1) : Holds(low[h], Part(h, call.ip))
  /\ pc = "idle" /\ call.op = "insert" /\ ret = 0 =>
       \A h \in High(call.start)..High(call.end) : Holds(low[h], Part(h, call.ip))

\* A delete that undoes an insert finds the range in the blocks ahead, and leaves
\* nothing of it in those behind.
Undone ==
  pc = "delete" /\ call.undoes =>
    /\ \A h \in High(n)..High(call.end) :
         \E ip \in Ip \cup {Invalid} : Holds(low[h], Part(h, ip))
    /\ \A h \in High(call.start)..(High(n) - 1) :
         \A i \in 1..Len(low[h]) : \A x \in PartFirst(h)..PartLast(h) :
           ~Covers(low[h][i], x)

RangeInv == Types /\ Loop /\ Room /\ AllSorted /\ Inserted /\ Undone

LEMMA Wrap == \A a \in Addr : a % (Blocks * Size) = a
<1> SUFFICES ASSUME NEW a \in Addr PROVE a % (Blocks * Size) = a
  OBVIOUS
<1> DEFINE m == Blocks * Size
<1>1. m \in Nat \ {0} /\ a \in Nat /\ a < m
  BY Space DEF Addr
<1> HIDE DEF m
<1>2. a \div m \in Nat /\ a % m \in Nat /\ a % m < m /\ a = (a \div m) * m + (a % m)
  BY <1>1, DivMod
<1>3. 0 * m + a = (a \div m) * m + (a % m)
  BY <1>1, <1>2
<1>4. a % m = a
  BY <1>1, <1>2, <1>3, Unique
<1>5. QED
  BY <1>4 DEF m

LEMMA Wraps == \A a \in Nat : a % (Blocks * Size) \in Addr
<1> DEFINE m == Blocks * Size
<1>1. m \in Nat \ {0}
  BY Space
<1>2. Addr = 0..(m - 1)
  BY DEF Addr
<1> HIDE DEF m
<1>3. \A a \in Nat : a % m \in 0..(m - 1)
  BY <1>1
<1>4. QED
  BY <1>2, <1>3 DEF m

LEMMA InitInv == Init => RangeInv
<1> SUFFICES ASSUME Init PROVE RangeInv
  OBVIOUS
<1> USE DEF Init
<1>1. 0 \in Addr
  BY Space DEF Addr
<1>2. <<>> \in Vectors /\ Len(<<>>) = 0
  BY DEF Vectors
<1>3. Types
  BY <1>1, <1>2, RangeAssumption DEF Types
<1>4. Loop /\ Room /\ Inserted /\ Undone
  BY DEF Loop, Room, Inserted, Undone
<1>5. AllSorted
  BY <1>2 DEF AllSorted, Sorted
<1>6. QED
  BY <1>3, <1>4, <1>5 DEF RangeInv

LEMMA TypesFacts ==
  ASSUME Types
  PROVE  /\ n \in Nat /\ High(n) \in 0..(Blocks - 1) /\ Vec \in Vectors
         /\ First \in Low /\ Last \in Low
         /\ call.start \in Nat /\ call.end \in Nat
         /\ call.ip \in Ip \cup {Invalid}
         /\ \A h : PartFirst(h) \in Low /\ PartLast(h) \in Low
<1>1. call.start \in Addr /\ call.end \in Addr /\ n \in Addr
  BY DEF Types
<1>2. call.start \in Nat /\ call.end \in Nat /\ n \in Nat /\ High(n) \in 0..(Blocks - 1)
  BY <1>1, Addresses
<1>3. LowOf(n) \in Low /\ LowOf(call.start) \in Low /\ LowOf(call.end) \in Low
  BY <1>2, Parts
<1>4. 0 \in Low /\ Size - 1 \in Low
  BY Space DEF Low
<1>5. QED
  BY <1>2, <1>3, <1>4 DEF Types, First, Last, Vec, PartFirst, PartLast

\* Block h gets another vector.
LEMMA ReplaceVector ==
  ASSUME low \in [0..(Blocks - 1) -> Vectors], NEW h \in 0..(Blocks - 1), NEW v \in Vectors
  PROVE  [low EXCEPT ![h] = v] \in [0..(Blocks - 1) -> Vectors]
OBVIOUS

LEMMA OneMoreLine ==
  ASSUME Types, MoreLines
  PROVE  lines + 1 \in 0..MaxLines
<1>1. lines \in Nat /\ MaxLines \in Nat /\ MaxMixed \in Nat /\ MaxMixed <= MaxLines
  BY RangeAssumption DEF Types
<1>2. lines < MaxLines
  BY <1>1 DEF MoreLines
<1>3. QED
  BY <1>1, <1>2

LEMMA TypesStep == Types /\ [Next]_vars => Types'
<1> SUFFICES ASSUME Types, [Next]_vars PROVE Types'
  OBVIOUS
<1>0. /\ n \in Nat /\ High(n) \in 0..(Blocks - 1) /\ Vec \in Vectors
      /\ First \in Low /\ Last \in Low /\ call.ip \in Ip \cup {Invalid}
  BY TypesFacts
<1>1. CASE InsertPush
  <2> DEFINE r == Entry(First, Last, call.ip)
             v == Append(Vec, r)
  <2>1. r \in EntryType
    BY <1>0 DEF Entry, EntryType
  <2> HIDE DEF r
  <2>2. v \in Vectors
    BY <1>0, <2>1, Pushed
  <2>3. low' = [low EXCEPT ![High(n)] = v]
    BY <1>1 DEF InsertPush, Vec, r
  <2> HIDE DEF v
  <2>4. low' \in [0..(Blocks - 1) -> Vectors]
    BY <1>0, <2>2, <2>3 DEF Types
  <2>5. n' \in Addr
    <3>1. n + Size \in Nat
      BY <1>0, Space
    <3>2. High(n + Size) * Size \in Nat
      BY <3>1, Parts, Space
    <3>3. QED
      BY <1>1, <3>2, Wraps DEF InsertPush, NextInsert
  <2>6. QED
    BY <1>1, <2>4, <2>5 DEF Types, InsertPush, InsertRuns
<1>2. CASE InsertPlace
  <2> DEFINE i == Candidate(Vec, Last)
             v == Placed(Vec, i, First, Last, call.ip)
  <2>1. v \in Vectors
    BY <1>0, <1>2, PlacedInBlock DEF InsertPlace
  <2>2. low' = [low EXCEPT ![High(n)] = v]
    BY <1>2 DEF InsertPlace, Vec
  <2> HIDE DEF v
  <2>3. low' \in [0..(Blocks - 1) -> Vectors]
    BY <1>0, <2>1, <2>2 DEF Types
  <2>4. n' \in Addr
    <3>1. n + Size \in Nat
      BY <1>0, Space
    <3>2. High(n + Size) * Size \in Nat
      BY <3>1, Parts, Space
    <3>3. QED
      BY <1>2, <3>2, Wraps DEF InsertPlace, NextInsert
  <2>5. QED
    BY <1>2, <2>3, <2>4 DEF Types, InsertPlace, InsertRuns
<1>3. CASE InsertClash
  BY <1>3 DEF Types, InsertClash, InsertRuns, Return
<1>4. CASE InsertReturns
  BY <1>4 DEF Types, InsertReturns, Return
<1>5. CASE DeleteBlock
  <2>1. low' \in [0..(Blocks - 1) -> Vectors]
    <3>1. CASE Matches = {}
      BY <1>5, <3>1 DEF DeleteBlock, Types
    <3>2. CASE Matches # {}
      <4> DEFINE T == Matches
                 i == CHOOSE k \in T : \A j \in T : k <= j
                 v == Splice(Vec, i, <<>>)
      <4>1. low' = [low EXCEPT ![High(n)] = v]
        BY <1>5, <3>2 DEF DeleteBlock, Vec
      <4>2. T \subseteq 1..Len(Vec) /\ T \subseteq Nat /\ T # {}
        BY <1>0, <3>2 DEF Matches, Vectors
      <4> HIDE DEF T
      <4>3. i \in 1..Len(Vec)
        BY <4>2, Matched
      <4> HIDE DEF i
      <4>4. v \in Vectors
        BY <1>0, <4>3, Removed
      <4> HIDE DEF v
      <4>5. QED
        BY <1>0, <4>1, <4>4 DEF Types
    <3>3. QED
      BY <3>1, <3>2
  <2>2. n' \in Addr
    <3>1. n + Size \in Nat
      BY <1>0, Space
    <3>2. QED
      BY <1>5, <3>1, Wraps DEF DeleteBlock
  <2>3. QED
    BY <1>5, <2>1, <2>2 DEF Types, DeleteBlock
<1>6. CASE DeleteReturns
  BY <1>6 DEF Types, DeleteReturns, Return
<1>7. CASE InsertOutOfMemory
  <2>1. low' \in [0..(Blocks - 1) -> Vectors]
    <3>1. CASE UNCHANGED low
      BY <3>1 DEF Types
    <3>2. CASE low' = [low EXCEPT ![High(n)] = Append(@, Entry(0, 0, Invalid))]
      <4> DEFINE r == Entry(0, 0, Invalid)
                 v == Append(Vec, r)
      <4>1. r \in EntryType
        BY Space DEF Entry, EntryType, Low
      <4> HIDE DEF r
      <4>2. v \in Vectors
        BY <1>0, <4>1, Pushed
      <4>3. low' = [low EXCEPT ![High(n)] = v]
        BY <3>2 DEF Vec, r
      <4> HIDE DEF v
      <4>4. QED
        BY <1>0, <4>2, <4>3 DEF Types
    <3>3. QED
      BY <1>7, <3>1, <3>2 DEF InsertOutOfMemory
  <2>2. QED
    BY <1>7, <2>1 DEF Types, InsertOutOfMemory, InsertRuns
<1>8. ASSUME NEW s \in Addr, NEW e \in s..(Blocks * Size - 1),
             CallDelete(s, e) \/ \E ip \in Ip : CallInsert(s, e, ip)
      PROVE  Types'
  <2>1. s \in Addr /\ e \in Addr /\ s <= e
    BY Addresses DEF Addr
  <2>2. PICK op \in {"insert", "delete"}, ip \in Ip \cup {Invalid} : Call(op, s, e, ip)
    BY <1>8 DEF CallDelete, CallInsert
  <2>3. call' \in [op : {"none", "insert", "delete"}, start : Addr, end : Addr,
                   ip : Ip \cup {Invalid}, undoes : BOOLEAN]
        /\ call'.start <= call'.end
    BY <2>1, <2>2 DEF Call
  <2>4. ret' \in {-1, 0}
    BY <1>8 DEF CallDelete, CallInsert, Types
  <2>5. lines' \in 0..MaxLines
    BY <2>2, OneMoreLine DEF Call
  <2>6. careful' \in BOOLEAN
    BY <1>8 DEF CallDelete, CallInsert
  <2>7. QED
    BY <2>1, <2>2, <2>3, <2>4, <2>5, <2>6 DEF Types, Call
<1>9. CASE InsertRefused
  BY <1>9, OneMoreLine DEF Types, InsertRefused
<1>10. ASSUME NEW ip \in Ip, SetDefault(ip) PROVE Types'
  BY <1>10, OneMoreLine DEF Types, SetDefault
<1>11. CASE UNCHANGED vars
  BY <1>11 DEF Types, vars
<1>12. CASE Done
  BY <1>11, <1>12 DEF Done
<1>13. QED
  BY <1>1, <1>2, <1>3, <1>4, <1>5, <1>6, <1>7, <1>8, <1>9, <1>10, <1>11, <1>12
     DEF Next, Running

-----------------------------------------------------------------------------
(* Where the loop is, when the calls are careful.                          *)

LEMMA InPart ==
  ASSUME Types, NEW a \in Addr
  PROVE  (call.start <= a /\ a <= call.end)
           <=> /\ High(call.start) <= High(a) /\ High(a) <= High(call.end)
               /\ PartFirst(High(a)) <= LowOf(a) /\ LowOf(a) <= PartLast(High(a))
<1> DEFINE s == call.start
           e == call.end
<1>1. a \in Nat /\ s \in Nat /\ e \in Nat
  BY TypesFacts, Addresses
<1>2. /\ High(a) \in Nat /\ High(s) \in Nat /\ High(e) \in Nat
      /\ LowOf(a) \in 0..(Size - 1) /\ LowOf(s) \in 0..(Size - 1) /\ LowOf(e) \in 0..(Size - 1)
  BY <1>1, Parts DEF Low
<1>3. s <= a <=> High(s) < High(a) \/ (High(s) = High(a) /\ LowOf(s) <= LowOf(a))
  BY <1>1, AddressOrder
<1>4. a <= e <=> High(a) < High(e) \/ (High(a) = High(e) /\ LowOf(a) <= LowOf(e))
  BY <1>1, AddressOrder
<1>5. PartFirst(High(a)) = IF High(a) = High(s) THEN LowOf(s) ELSE 0
  BY DEF PartFirst
<1>6. PartLast(High(a)) = IF High(a) = High(e) THEN LowOf(e) ELSE Size - 1
  BY DEF PartLast
<1> HIDE DEF s, e
<1>7. s <= a <=> High(s) <= High(a) /\ PartFirst(High(a)) <= LowOf(a)
  BY <1>2, <1>3, <1>5
<1>8. a <= e <=> High(a) <= High(e) /\ LowOf(a) <= PartLast(High(a))
  BY <1>2, <1>4, <1>6, Space
<1>9. QED
  BY <1>7, <1>8 DEF s, e

\* The loop's condition compares blocks, and s and e are the block's part.
LEMMA LoopFacts ==
  ASSUME Types, Loop, pc \in {"insert", "delete"}
  PROVE  /\ n <= call.end <=> High(n) <= High(call.end)
         /\ n <= call.end =>
              /\ First = PartFirst(High(n)) /\ Last = PartLast(High(n))
              /\ pc = "insert" => First <= Last
<1> DEFINE s == call.start
           e == call.end
           h == High(n)
<1>1. n \in Nat /\ s \in Nat /\ e \in Nat /\ s <= e
  BY TypesFacts DEF Types
<1>2. /\ h \in Nat /\ High(s) \in Nat /\ High(e) \in Nat
      /\ LowOf(n) \in 0..(Size - 1) /\ LowOf(s) \in 0..(Size - 1) /\ LowOf(e) \in 0..(Size - 1)
      /\ n = h * Size + LowOf(n) /\ s = High(s) * Size + LowOf(s)
      /\ e = High(e) * Size + LowOf(e)
  BY <1>1, Parts DEF Low
<1>3. n <= e <=> h < High(e) \/ (h = High(e) /\ LowOf(n) <= LowOf(e))
  BY <1>1, AddressOrder
<1>4. s <= e <=> High(s) < High(e) \/ (High(s) = High(e) /\ LowOf(s) <= LowOf(e))
  BY <1>1, AddressOrder
<1>5. /\ High(s) <= h
      /\ pc = "insert" => n = s \/ (LowOf(n) = 0 /\ High(s) < h)
      /\ pc = "delete" => LowOf(n) = LowOf(s) /\ LowOf(s) <= LowOf(e)
  BY DEF Loop
<1>6. First = IF n = s THEN LowOf(n) ELSE 0
  BY DEF First
<1>7. Last = IF h * Size + Size - 1 > e THEN LowOf(e) ELSE Size - 1
  BY DEF Last
<1>8. PartFirst(h) = IF h = High(s) THEN LowOf(s) ELSE 0
  BY DEF PartFirst
<1>9. PartLast(h) = IF h = High(e) THEN LowOf(e) ELSE Size - 1
  BY DEF PartLast
<1>10. n = s => h = High(s) /\ LowOf(n) = LowOf(s)
  OBVIOUS
<1>11. h = High(s) /\ LowOf(n) = LowOf(s) => n = s
  BY <1>2
<1> DEFINE top == h * Size + Size - 1
<1>12. h = High(e) => (top > e <=> LowOf(e) < Size - 1)
  <2>1. ASSUME h = High(e) PROVE top > e <=> LowOf(e) < Size - 1
    <3> DEFINE b == High(e) * Size
    <3>1. b \in Nat
      BY <1>2, Space
    <3>2. top = b + Size - 1 /\ e = b + LowOf(e)
      BY <1>2, <2>1
    <3> HIDE DEF b, top, e
    <3>3. QED
      BY <1>2, <3>1, <3>2, Space
  <2>2. QED
    BY <2>1
<1>13. h < High(e) => ~(top > e)
  <2>1. ASSUME h < High(e) PROVE ~(top > e)
    <3>1. top \in Nat /\ top = h * Size + (Size - 1) /\ Size - 1 \in Low
      BY <1>2, Space DEF Low
    <3> DEFINE t == h * Size + (Size - 1)
    <3>2. High(t) = h
      BY <1>2, <3>1, Whole
    <3>3. t <= e
      <4>1. t \in Nat
        BY <3>1
      <4>2. t <= e <=> High(t) < High(e) \/ (High(t) = High(e) /\ LowOf(t) <= LowOf(e))
        BY <1>1, <4>1, AddressOrder
      <4>3. QED
        BY <2>1, <3>2, <4>2
    <3>4. top <= e
      BY <3>1, <3>3
    <3> HIDE DEF top, t, e
    <3>5. e \in Nat /\ top \in Nat
      BY <1>1, <3>1
    <3>6. QED
      BY <3>4, <3>5
  <2>2. QED
    BY <2>1
<1>14. Last = IF top > e THEN LowOf(e) ELSE Size - 1
  BY <1>7
<1>15. pc = "insert" \/ pc = "delete"
  OBVIOUS
<1> HIDE DEF s, e, h, top
<1>16. n <= e <=> h <= High(e)
  BY <1>1, <1>2, <1>3, <1>4, <1>5, <1>10, <1>15
<1>17. First = PartFirst(h)
  BY <1>2, <1>5, <1>6, <1>8, <1>10, <1>11, <1>15
<1>18. h <= High(e) => Last = PartLast(h)
  <2>1. CASE h < High(e)
    BY <1>2, <1>9, <1>13, <1>14, <2>1
  <2>2. CASE h = High(e)
    <3>1. ~(LowOf(e) < Size - 1) => LowOf(e) = Size - 1
      BY <1>2, Space
    <3>2. QED
      BY <1>9, <1>12, <1>14, <2>2, <3>1
  <2>3. QED
    BY <1>2, <2>1, <2>2
<1>19. pc = "insert" /\ h <= High(e) => First <= Last
  <2>1. ASSUME pc = "insert", h <= High(e) PROVE First <= Last
    <3>1. Last = PartLast(h) /\ First = PartFirst(h)
      BY <1>17, <1>18, <2>1
    <3>2. QED
      BY <1>1, <1>2, <1>4, <1>5, <1>8, <1>9, <2>1, <3>1, Space
  <2>2. QED
    BY <2>1
<1>20. QED
  BY <1>16, <1>17, <1>18, <1>19 DEF s, e, h

\* Every block starts behind the one before it.
LEMMA NextBlock ==
  ASSUME Types, Loop, pc \in {"insert", "delete"}, n <= call.end
  PROVE  /\ (High(n + Size) * Size) % (Blocks * Size) = (High(n) + 1) * Size
         /\ High((High(n) + 1) * Size) = High(n) + 1 /\ LowOf((High(n) + 1) * Size) = 0
         /\ (n + Size) % (Blocks * Size) = n + Size
         /\ High(n + Size) = High(n) + 1 /\ LowOf(n + Size) = LowOf(n)
<1> DEFINE h == High(n)
<1>1. n \in Nat /\ h \in Nat /\ High(call.end) \in Nat
  BY TypesFacts, Parts
<1>2. h <= High(call.end) /\ High(call.end) < Blocks - 1
  BY LoopFacts DEF Loop
<1>3. n + Size \in Nat /\ High(n + Size) = h + 1 /\ LowOf(n + Size) = LowOf(n)
  BY <1>1, Following
<1> HIDE DEF h
<1>4. h + 1 \in Nat /\ h + 1 < Blocks /\ 0 \in Low
  BY <1>1, <1>2, Space DEF Low
<1>5. High((h + 1) * Size + 0) = h + 1 /\ LowOf((h + 1) * Size + 0) = 0
  BY <1>4, Whole
<1>6. (h + 1) * Size + 0 = (h + 1) * Size /\ (h + 1) * Size \in Nat
  BY <1>4, Space
<1>7. High((h + 1) * Size) = h + 1 /\ LowOf((h + 1) * Size) = 0
  BY <1>5, <1>6
<1>8. (h + 1) * Size \in Addr /\ n + Size \in Addr
  BY <1>3, <1>4, <1>6, <1>7, Addresses
<1>9. ((h + 1) * Size) % (Blocks * Size) = (h + 1) * Size
  BY <1>8, Wrap
<1>10. (n + Size) % (Blocks * Size) = n + Size
  BY <1>8, Wrap
<1>11. QED
  BY <1>3, <1>7, <1>9, <1>10 DEF h

\* One round of an insert: the block holds its part of the range, in order, and
\* nothing else of it has changed.
LEMMA InsertStep ==
  ASSUME RangeInv, InsertPush \/ InsertPlace
  PROVE  /\ pc = "insert" /\ n <= call.end
         /\ High(n)' = High(n) + 1 /\ LowOf(n)' = 0
         /\ \E v \in Vectors :
              /\ low' = [low EXCEPT ![High(n)] = v]
              /\ Sorted(v)
              /\ Holds(v, Part(High(n), call.ip))
              /\ \A x \in Low : \A def :
                   ~(PartFirst(High(n)) <= x /\ x <= PartLast(High(n))) =>
                     Value(v, x, def) = Value(low[High(n)], x, def)
<1>1. /\ pc = "insert" /\ n <= call.end /\ NextInsert /\ Types /\ Loop /\ Room /\ AllSorted
  BY DEF InsertPush, InsertPlace, InsertRuns, RangeInv
<1>2. /\ n \in Nat /\ High(n) \in 0..(Blocks - 1) /\ Vec \in Vectors
      /\ First \in Low /\ Last \in Low /\ call.ip \in Ip \cup {Invalid}
  BY <1>1, TypesFacts
<1>3. /\ High(n) <= High(call.end)
      /\ First = PartFirst(High(n)) /\ Last = PartLast(High(n)) /\ First <= Last
  BY <1>1, LoopFacts
<1>4. n' = (High(n) + 1) * Size
  BY <1>1, NextBlock DEF NextInsert
<1>5. High(n') = High(n) + 1 /\ LowOf(n') = 0
  BY <1>1, <1>4, NextBlock
<1>6. High(n)' = High(n) + 1 /\ LowOf(n)' = 0
  BY <1>5 DEF High, LowOf
<1>7. Sorted(Vec)
  BY <1>1, <1>2 DEF AllSorted, Vec
<1>8. Entry(First, Last, call.ip) = Part(High(n), call.ip)
  BY <1>3 DEF Part
<1>9. Vec = low[High(n)]
  BY DEF Vec
<1>10. CASE InsertPush
  <2> DEFINE v == Behind(Vec, First, Last, call.ip)
  <2>1. low' = [low EXCEPT ![High(n)] = v]
    BY <1>10 DEF InsertPush, Vec, Behind
  <2>2. Vec = <<>>
    <3>1. Candidates(Vec, Last) = {}
      BY <1>10 DEF InsertPush
    <3>2. High(n) \in High(n)..High(call.end)
      <4>1. High(call.end) \in Nat /\ High(n) \in Nat
        BY <1>1, <1>2, TypesFacts, Parts
      <4>2. QED
        BY <1>3, <4>1
    <3>3. low[High(n)] = <<>> \/ Candidates(low[High(n)], PartLast(High(n))) # {}
      BY <1>1, <3>2 DEF Room
    <3>4. QED
      BY <1>3, <1>9, <3>1, <3>3
  <2>3. Len(Vec) = 0
    BY <2>2
  <2>4. /\ v \in Vectors /\ Sorted(v) /\ Holds(v, Entry(First, Last, call.ip))
        /\ \A x \in Low : \A def : ~(First <= x /\ x <= Last) =>
             Value(v, x, def) = Value(Vec, x, def)
    BY <1>2, <1>3, <2>3, PushedFirst
  <2> HIDE DEF v
  <2>5. QED
    BY <1>1, <1>3, <1>6, <1>8, <1>9, <2>1, <2>4
<1>11. CASE InsertPlace
  <2> DEFINE v == Placed(Vec, Candidate(Vec, Last), First, Last, call.ip)
  <2>1. low' = [low EXCEPT ![High(n)] = v]
    BY <1>11 DEF InsertPlace, Vec
  <2>2. /\ v \in Vectors
        /\ Sorted(v) /\ Holds(v, Entry(First, Last, call.ip))
        /\ \A x \in Low : \A def : ~(First <= x /\ x <= Last) =>
             Value(v, x, def) = Value(Vec, x, def)
    <3>1. Candidates(Vec, Last) # {} /\ ~Clashes(Vec, Candidate(Vec, Last), First, Last)
      BY <1>11 DEF InsertPlace
    <3>2. QED
      BY <1>2, <1>3, <1>7, <3>1, PlacedInBlock
  <2> HIDE DEF v
  <2>3. QED
    BY <1>1, <1>3, <1>6, <1>8, <1>9, <2>1, <2>2
<1>12. QED
  BY <1>10, <1>11

\* One round of a delete: what it takes out falls back to the default, and a range
\* that was exactly the block's part is gone.
LEMMA DeleteStep ==
  ASSUME RangeInv, DeleteBlock
  PROVE  /\ pc = "delete" /\ n <= call.end
         /\ High(n)' = High(n) + 1 /\ LowOf(n)' = LowOf(n)
         /\ \E v \in Vectors :
              /\ low' = [low EXCEPT ![High(n)] = v]
              /\ Sorted(v)
              /\ \A x \in Low : \A def :
                   Value(v, x, def) # Value(low[High(n)], x, def) =>
                     /\ PartFirst(High(n)) <= x /\ x <= PartLast(High(n))
                     /\ Value(v, x, def) = def
              /\ \A ip : Holds(low[High(n)], Part(High(n), ip)) =>
                   \A i \in 1..Len(v) : \A x \in PartFirst(High(n))..PartLast(High(n)) :
                     ~Covers(v[i], x)
<1>1. pc = "delete" /\ n <= call.end /\ Types /\ Loop /\ AllSorted
  BY DEF DeleteBlock, RangeInv
<1>2. /\ n \in Nat /\ High(n) \in 0..(Blocks - 1) /\ Vec \in Vectors
      /\ First \in Low /\ Last \in Low
      /\ First = PartFirst(High(n)) /\ Last = PartLast(High(n))
  BY <1>1, TypesFacts, LoopFacts
<1>3. High(n)' = High(n) + 1 /\ LowOf(n)' = LowOf(n)
  <2>1. n' = n + Size
    BY <1>1, NextBlock DEF DeleteBlock
  <2>2. High(n') = High(n) + 1 /\ LowOf(n') = LowOf(n)
    BY <1>2, <2>1, Following
  <2>3. QED
    BY <2>2 DEF High, LowOf
<1>4. Sorted(Vec)
  BY <1>1, <1>2 DEF AllSorted, Vec
<1>5. Vec = low[High(n)]
  BY DEF Vec
<1>6. \A j : j \in Matches <=> j \in 1..Len(Vec) /\ Vec[j].start = First /\ Vec[j].end = Last
  BY <1>2 DEF Matches, Vectors
<1>7. CASE Matches = {}
  <2>1. low' = [low EXCEPT ![High(n)] = Vec]
    BY <1>1, <1>2, <1>7 DEF DeleteBlock, Types, Vec
  <2>2. ASSUME NEW ip, Holds(Vec, Part(High(n), ip)) PROVE FALSE
    BY <1>2, <1>6, <1>7, <2>2 DEF Holds, Part, Entry
  <2>3. QED
    BY <1>1, <1>2, <1>3, <1>4, <1>5, <2>1, <2>2
<1>8. CASE Matches # {}
  <2> DEFINE T == Matches
             i == CHOOSE k \in T : \A j \in T : k <= j
             v == Splice(Vec, i, <<>>)
  <2>1. low' = [low EXCEPT ![High(n)] = v]
    BY <1>8 DEF DeleteBlock, Vec
  <2>2. T \subseteq Nat /\ T # {}
    BY <1>2, <1>6, <1>8 DEF Vectors
  <2> HIDE DEF T
  <2>3. i \in T
    BY <2>2, Matched
  <2> HIDE DEF i
  <2>4. i \in 1..Len(Vec) /\ Vec[i].start = First /\ Vec[i].end = Last
    BY <1>6, <2>3 DEF T
  <2>5. v \in Vectors /\ Sorted(v)
    BY <1>2, <1>4, <2>4, Removed
  <2>6. \A x : Covers(Vec[i], x) <=> First <= x /\ x <= Last
    BY <2>4 DEF Covers
  <2>7. \A x \in Low : \A def :
          /\ Covers(Vec[i], x) =>
               (\A k \in 1..Len(v) : ~Covers(v[k], x)) /\ Value(v, x, def) = def
          /\ ~Covers(Vec[i], x) => Value(v, x, def) = Value(Vec, x, def)
    BY <1>2, <1>4, <2>4, RemovedValue
  <2>8. \A x \in First..Last : x \in Low
    BY <1>2, Space DEF Low
  <2> HIDE DEF v
  <2>9. \A k \in 1..Len(v) : \A x \in First..Last : ~Covers(v[k], x)
    <3> SUFFICES ASSUME NEW k \in 1..Len(v), NEW x \in First..Last
                 PROVE  ~Covers(v[k], x)
      OBVIOUS
    <3>1. x \in Low /\ First <= x /\ x <= Last
      BY <1>2, <2>8, LowNumbers
    <3>2. QED
      BY <2>6, <2>7, <3>1
  <2>10. \A x \in Low : \A def : Value(v, x, def) # Value(Vec, x, def) =>
           First <= x /\ x <= Last /\ Value(v, x, def) = def
    BY <2>6, <2>7
  <2>11. QED
    BY <1>1, <1>2, <1>3, <1>5, <2>1, <2>5, <2>9, <2>10
<1>9. QED
  BY <1>7, <1>8

-----------------------------------------------------------------------------
(* Every step keeps the invariant.                                         *)

LEMMA BlocksOfCall ==
  ASSUME Types
  PROVE  /\ High(call.start) \in Nat /\ High(call.end) \in Nat /\ High(n) \in Nat
         /\ High(call.start) <= High(call.end)
         /\ \A h \in High(call.start)..High(call.end) : h \in 0..(Blocks - 1)
<1>1. /\ call.start \in Addr /\ call.end \in Addr /\ call.start <= call.end
      /\ call.start \in Nat /\ call.end \in Nat /\ n \in Nat
  BY TypesFacts DEF Types
<1>2. High(call.start) \in 0..(Blocks - 1) /\ High(call.end) \in 0..(Blocks - 1)
  BY <1>1, Addresses
<1>3. High(call.start) <= High(call.end)
  BY <1>1, <1>2, AddressOrder, Space
<1>4. High(n) \in Nat
  BY <1>1, Parts
<1>5. QED
  BY <1>2, <1>3, <1>4, Space

\* A round changes its block only.
LEMMA OneBlock ==
  ASSUME Types, NEW v, low' = [low EXCEPT ![High(n)] = v]
  PROVE  /\ low'[High(n)] = v
         /\ \A h \in 0..(Blocks - 1) : h # High(n) => low'[h] = low[h]
BY TypesFacts DEF Types

LEMMA SameCall ==
  ASSUME call' = call
  PROVE  \A h : /\ PartFirst(h)' = PartFirst(h) /\ PartLast(h)' = PartLast(h)
                /\ \A ip : Part(h, ip)' = Part(h, ip)
BY DEF PartFirst, PartLast, Part, High, LowOf, Entry

LEMMA InsertKeeps ==
  ASSUME RangeInv, Types', InsertPush \/ InsertPlace
  PROVE  RangeInv'
<1>1. /\ pc = "insert" /\ pc' = "insert" /\ call' = call /\ n <= call.end
      /\ Types /\ Loop /\ Room /\ AllSorted /\ Inserted
  BY DEF InsertPush, InsertPlace, InsertRuns, RangeInv
<1>2. High(n)' = High(n) + 1 /\ LowOf(n)' = 0
  BY InsertStep
<1>3. PICK v \in Vectors : /\ low' = [low EXCEPT ![High(n)] = v]
                           /\ Sorted(v) /\ Holds(v, Part(High(n), call.ip))
  BY InsertStep
<1>4. low'[High(n)] = v /\ \A h \in 0..(Blocks - 1) : h # High(n) => low'[h] = low[h]
  BY <1>1, <1>3, OneBlock
<1>5. /\ High(call.start) \in Nat /\ High(call.end) \in Nat /\ High(n) \in Nat
      /\ High(call.start) <= High(n) /\ High(n) <= High(call.end)
      /\ \A h \in High(call.start)..High(call.end) : h \in 0..(Blocks - 1)
  BY <1>1, BlocksOfCall, LoopFacts DEF Loop
<1>6. \A h : /\ PartFirst(h)' = PartFirst(h) /\ PartLast(h)' = PartLast(h)
             /\ Part(h, call.ip)' = Part(h, call.ip)
  BY <1>1, SameCall
<1>7. High(call.start)' = High(call.start) /\ High(call.end)' = High(call.end)
  BY <1>1 DEF High
<1>8. Loop'
  BY <1>1, <1>2, <1>5, <1>7 DEF Loop
<1>9. Room'
  <2> SUFFICES ASSUME NEW h \in (High(n) + 1)..High(call.end)
               PROVE  low'[h] = <<>> \/ Candidates(low'[h], PartLast(h)) # {}
    BY <1>1, <1>2, <1>6, <1>7 DEF Room, Candidates
  <2>1. h \in High(n)..High(call.end) /\ h \in High(call.start)..High(call.end) /\ h # High(n)
    BY <1>5
  <2>2. low'[h] = low[h]
    BY <1>4, <1>5, <2>1
  <2>3. QED
    BY <1>1, <2>1, <2>2 DEF Room
<1>10. AllSorted'
  <2>1. \A h \in 0..(Blocks - 1) : Sorted(low'[h])
    BY <1>1, <1>3, <1>4 DEF AllSorted
  <2>2. QED
    BY <2>1 DEF AllSorted, Sorted
<1>11. Inserted'
  <2> SUFFICES ASSUME NEW h \in High(call.start)..High(n)
               PROVE  Holds(low'[h], Part(h, call.ip))
    <3>1. (High(n) + 1) - 1 = High(n)
      BY <1>5
    <3>2. \A h \in High(call.start)..(High(n)' - 1) : Holds(low'[h], Part(h, call.ip)')
      BY <1>2, <1>6, <3>1
    <3>3. QED
      BY <1>1, <1>7, <3>2 DEF Inserted, Holds
  <2>1. CASE h = High(n)
    BY <1>3, <1>4, <2>1
  <2>2. CASE h # High(n)
    <3>1. h \in High(call.start)..(High(n) - 1) /\ h \in High(call.start)..High(call.end)
      BY <1>5, <2>2
    <3>2. low'[h] = low[h]
      BY <1>4, <1>5, <2>2, <3>1
    <3>3. QED
      BY <1>1, <3>1, <3>2 DEF Inserted
  <2>3. QED
    BY <2>1, <2>2
<1>12. Undone'
  BY <1>1 DEF Undone
<1>13. QED
  BY <1>8, <1>9, <1>10, <1>11, <1>12 DEF RangeInv

LEMMA DeleteKeeps ==
  ASSUME RangeInv, Types', DeleteBlock
  PROVE  RangeInv'
<1>1. /\ pc = "delete" /\ pc' = "delete" /\ call' = call /\ n <= call.end
      /\ Types /\ Loop /\ AllSorted /\ Undone
  BY DEF DeleteBlock, RangeInv
<1>2. High(n)' = High(n) + 1 /\ LowOf(n)' = LowOf(n)
  BY DeleteStep
<1>3. PICK v \in Vectors :
        /\ low' = [low EXCEPT ![High(n)] = v]
        /\ Sorted(v)
        /\ \A ip : Holds(low[High(n)], Part(High(n), ip)) =>
             \A i \in 1..Len(v) : \A x \in PartFirst(High(n))..PartLast(High(n)) :
               ~Covers(v[i], x)
  BY DeleteStep
<1>4. low'[High(n)] = v /\ \A h \in 0..(Blocks - 1) : h # High(n) => low'[h] = low[h]
  BY <1>1, <1>3, OneBlock
<1>5. /\ High(call.start) \in Nat /\ High(call.end) \in Nat /\ High(n) \in Nat
      /\ High(call.start) <= High(n) /\ High(n) <= High(call.end)
      /\ \A h \in High(call.start)..High(call.end) : h \in 0..(Blocks - 1)
  BY <1>1, BlocksOfCall, LoopFacts DEF Loop
<1>6. \A h : /\ PartFirst(h)' = PartFirst(h) /\ PartLast(h)' = PartLast(h)
             /\ \A ip : Part(h, ip)' = Part(h, ip)
  BY <1>1, SameCall
<1>7. /\ High(call.start)' = High(call.start) /\ High(call.end)' = High(call.end)
      /\ LowOf(call.start)' = LowOf(call.start) /\ LowOf(call.end)' = LowOf(call.end)
  BY <1>1 DEF High, LowOf
<1>8. Loop'
  BY <1>1, <1>2, <1>5, <1>7 DEF Loop
<1>9. Room' /\ Inserted'
  BY <1>1 DEF Room, Inserted
<1>10. AllSorted'
  <2>1. \A h \in 0..(Blocks - 1) : Sorted(low'[h])
    BY <1>1, <1>3, <1>4 DEF AllSorted
  <2>2. QED
    BY <2>1 DEF AllSorted, Sorted
<1>11. ASSUME call.undoes, NEW h \in (High(n) + 1)..High(call.end)
       PROVE  \E ip \in Ip \cup {Invalid} : Holds(low'[h], Part(h, ip))
  <2>1. h \in High(n)..High(call.end) /\ h \in High(call.start)..High(call.end) /\ h # High(n)
    BY <1>5
  <2>2. low'[h] = low[h]
    BY <1>4, <1>5, <2>1
  <2>3. QED
    BY <1>1, <1>11, <2>1, <2>2 DEF Undone
<1>12. ASSUME call.undoes, NEW h \in High(call.start)..High(n)
       PROVE  \A i \in 1..Len(low'[h]) : \A x \in PartFirst(h)..PartLast(h) :
                ~Covers(low'[h][i], x)
  <2>1. CASE h = High(n)
    <3>1. h \in High(n)..High(call.end)
      BY <1>5, <2>1
    <3>2. PICK ip \in Ip \cup {Invalid} : Holds(low[h], Part(h, ip))
      BY <1>1, <1>12, <3>1 DEF Undone
    <3>3. QED
      BY <1>3, <1>4, <2>1, <3>2
  <2>2. CASE h # High(n)
    <3>1. h \in High(call.start)..(High(n) - 1) /\ h \in High(call.start)..High(call.end)
      BY <1>5, <2>2
    <3>2. low'[h] = low[h]
      BY <1>4, <1>5, <2>2, <3>1
    <3>3. QED
      BY <1>1, <1>12, <3>1, <3>2 DEF Undone
  <2>3. QED
    BY <2>1, <2>2
<1>13. Undone'
  <2> SUFFICES ASSUME call.undoes
               PROVE  /\ \A h \in High(n)'..High(call.end)' :
                           \E ip \in Ip \cup {Invalid} : Holds(low'[h], Part(h, ip)')
                      /\ \A h \in High(call.start)'..(High(n)' - 1) :
                           \A i \in 1..Len(low'[h]) :
                             \A x \in PartFirst(h)'..PartLast(h)' : ~Covers(low'[h][i], x)
    BY <1>1 DEF Undone, Holds, Covers
  <2>1. (High(n) + 1) - 1 = High(n)
    BY <1>5
  <2>2. \A h \in High(n)'..High(call.end)' :
          \E ip \in Ip \cup {Invalid} : Holds(low'[h], Part(h, ip)')
    BY <1>2, <1>6, <1>7, <1>11
  <2>3. \A h \in High(call.start)'..(High(n)' - 1) :
          \A i \in 1..Len(low'[h]) :
            \A x \in PartFirst(h)'..PartLast(h)' : ~Covers(low'[h][i], x)
    BY <1>2, <1>6, <1>7, <1>12, <2>1
  <2>4. QED
    BY <2>2, <2>3
<1>14. QED
  BY <1>8, <1>9, <1>10, <1>13 DEF RangeInv

LEMMA CallKeeps ==
  ASSUME careful', RangeInv, Types',
         NEW s \in Addr, NEW e \in s..(Blocks * Size - 1),
         CallDelete(s, e) \/ \E ip \in Ip : CallInsert(s, e, ip)
  PROVE  RangeInv'
<1>0. PICK op \in {"insert", "delete"}, to \in Ip \cup {Invalid} : Call(op, s, e, to)
  BY DEF CallDelete, CallInsert
<1> DEFINE again == /\ op = "delete" /\ call.op = "insert" /\ ret = 0
                    /\ call.start = s /\ call.end = e
<1>0a. call' = [op |-> op, start |-> s, end |-> e, ip |-> to, undoes |-> again]
  BY <1>0 DEF Call
<1>0b. call'.undoes = again
  <2> HIDE DEF again
  <2>1. QED
    BY <1>0a
<1>0c. call'.start = s /\ call'.end = e /\ call'.op = op
  BY <1>0a
<1>1. /\ pc = "idle" /\ low' = low /\ n' = s /\ call'.start = s /\ call'.end = e
      /\ pc' = call'.op /\ pc' = op /\ pc' \in {"insert", "delete"}
      /\ Types /\ AllSorted /\ Inserted
  BY <1>0, <1>0c DEF Call, RangeInv
<1>2. s \in Nat /\ e \in Nat /\ s <= e /\ High(s) \in Nat /\ High(e) \in Nat /\ High(s) <= High(e)
  <2>1. s \in Addr /\ e \in Addr /\ s <= e
    BY Addresses DEF Addr
  <2>2. s \in Nat /\ e \in Nat /\ High(s) \in Nat /\ High(e) \in Nat
    BY <2>1, Addresses, Parts
  <2>3. QED
    BY <2>1, <2>2, AddressOrder
<1>3. /\ High(n)' = High(s) /\ LowOf(n)' = LowOf(s)
      /\ High(call.start)' = High(s) /\ LowOf(call.start)' = LowOf(s)
      /\ High(call.end)' = High(e) /\ LowOf(call.end)' = LowOf(e)
  BY <1>1 DEF High, LowOf
<1>4. High(e) < Blocks - 1
  BY DEF CallDelete, CallInsert, SafeDelete, SafeInsert
<1>5. pc' = "delete" => LowOf(s) <= LowOf(e)
  BY DEF CallDelete, CallInsert, SafeDelete, Call
<1>6. Loop'
  BY <1>1, <1>2, <1>3, <1>4, <1>5 DEF Loop
<1>7. \A h : PartLast(h)' = IF h = High(e) THEN LowOf(e) ELSE Size - 1
  BY <1>3 DEF PartLast
<1>8. Room'
  <2>1. ASSUME pc' = "insert", NEW h \in High(s)..High(e)
        PROVE  low'[h] = <<>> \/ Candidates(low'[h], PartLast(h)') # {}
    <3>1. SafeInsert(s, e)
      BY <2>1 DEF CallDelete, CallInsert, Call
    <3>2. QED
      BY <1>1, <1>7, <2>1, <3>1 DEF SafeInsert
  <2>2. QED
    BY <1>3, <2>1 DEF Room, Candidates
<1>9. AllSorted'
  BY <1>1 DEF AllSorted, Sorted
<1>10. \A h : h \notin High(s)..(High(s) - 1)
  BY <1>2
<1>11. Inserted'
  BY <1>1, <1>3, <1>10 DEF Inserted
<1>12. ASSUME pc' = "delete", call'.undoes, NEW h \in High(s)..High(e)
       PROVE  \E ip \in Ip \cup {Invalid} : Holds(low'[h], Part(h, ip)')
  <2>1. call.op = "insert" /\ ret = 0 /\ call.start = s /\ call.end = e
    BY <1>0b, <1>12, Zenon
  <2>2. Holds(low[h], Part(h, call.ip))
    BY <1>1, <1>12, <2>1 DEF Inserted
  <2>3. \A ip : Part(h, ip)' = Part(h, ip)
    BY <1>3, <2>1 DEF Part, PartFirst, PartLast, Entry
  <2>4. call.ip \in Ip \cup {Invalid}
    BY <1>1, TypesFacts
  <2>5. QED
    BY <1>1, <2>2, <2>3, <2>4
<1>13. Undone'
  BY <1>3, <1>10, <1>12 DEF Undone, Holds
<1>14. QED
  BY <1>6, <1>8, <1>9, <1>11, <1>13 DEF RangeInv

LEMMA StepKeeps ==
  ASSUME careful', RangeInv, [Next]_vars
  PROVE  RangeInv'
<1>1. Types' /\ Types
  BY TypesStep DEF RangeInv
<1>2. CASE InsertPush \/ InsertPlace
  BY <1>1, <1>2, InsertKeeps
<1>3. CASE DeleteBlock
  BY <1>1, <1>3, DeleteKeeps
<1>4. CASE InsertClash
  <2>1. pc' = "idle" /\ ret' = -1 /\ low' = low /\ pc = "insert"
    BY <1>4 DEF InsertClash, InsertRuns, Return
  <2>2. AllSorted'
    BY <2>1 DEF RangeInv, AllSorted, Sorted
  <2>3. Loop' /\ Room' /\ Inserted' /\ Undone'
    BY <2>1 DEF Loop, Room, Inserted, Undone
  <2>4. QED
    BY <1>1, <2>2, <2>3 DEF RangeInv
<1>5. CASE InsertReturns
  <2>1. pc = "insert" /\ pc' = "idle" /\ n > call.end /\ low' = low /\ call' = call
    BY <1>5 DEF InsertReturns, Return
  <2>2. AllSorted'
    BY <2>1 DEF RangeInv, AllSorted, Sorted
  <2>3. Loop' /\ Room' /\ Undone'
    BY <2>1 DEF Loop, Room, Undone
  <2>4. ~(High(n) <= High(call.end))
    <3>1. ~(n <= call.end)
      BY <1>1, <2>1, TypesFacts
    <3>2. QED
      BY <2>1, <3>1, LoopFacts DEF RangeInv
  <2>5. \A h \in High(call.start)..High(call.end) : Holds(low[h], Part(h, call.ip))
    <3>1. \A h \in High(call.start)..High(call.end) : h \in High(call.start)..(High(n) - 1)
      BY <1>1, <2>4, BlocksOfCall
    <3>2. QED
      BY <2>1, <3>1 DEF RangeInv, Inserted
  <2>6. \A h : Part(h, call.ip)' = Part(h, call.ip)
    BY <2>1, SameCall
  <2>7. High(call.start)' = High(call.start) /\ High(call.end)' = High(call.end)
    BY <2>1 DEF High
  <2>8. Inserted'
    BY <2>1, <2>5, <2>6, <2>7 DEF Inserted, Holds
  <2>9. QED
    BY <1>1, <2>2, <2>3, <2>8 DEF RangeInv
<1>6. CASE DeleteReturns
  <2>1. pc = "delete" /\ pc' = "idle" /\ call.op = "delete" /\ low' = low /\ call' = call
    BY <1>6 DEF DeleteReturns, Return, RangeInv, Loop
  <2>2. AllSorted'
    BY <2>1 DEF RangeInv, AllSorted, Sorted
  <2>3. Loop' /\ Room' /\ Inserted' /\ Undone'
    BY <2>1 DEF Loop, Room, Inserted, Undone
  <2>4. QED
    BY <1>1, <2>2, <2>3 DEF RangeInv
<1>7. CASE InsertOutOfMemory
  BY <1>1, <1>7 DEF InsertOutOfMemory, RangeInv, Loop, Room, AllSorted, Inserted, Undone
<1>8. ASSUME NEW s \in Addr, NEW e \in s..(Blocks * Size - 1),
             CallDelete(s, e) \/ \E ip \in Ip : CallInsert(s, e, ip)
      PROVE  RangeInv'
  BY <1>1, <1>8, CallKeeps
<1>9. CASE InsertRefused
  <2>1. pc = "idle" /\ pc' = "idle" /\ ret' = -1 /\ low' = low
    BY <1>9 DEF InsertRefused
  <2>2. AllSorted'
    BY <2>1 DEF RangeInv, AllSorted, Sorted
  <2>3. Loop' /\ Room' /\ Inserted' /\ Undone'
    BY <2>1 DEF Loop, Room, Inserted, Undone
  <2>4. QED
    BY <1>1, <2>2, <2>3 DEF RangeInv
<1>10. ASSUME UNCHANGED <<low, pc, n, call, ret>> PROVE RangeInv'
  <2>1. AllSorted'
    BY <1>10 DEF RangeInv, AllSorted, Sorted
  <2>2. Loop' /\ Room'
    BY <1>10 DEF RangeInv, Loop, Room, High, LowOf, Candidates, PartLast
  <2>3. /\ High(n)' = High(n)
        /\ High(call.start)' = High(call.start) /\ High(call.end)' = High(call.end)
    BY <1>10 DEF High
  <2>4. \A h : /\ PartFirst(h)' = PartFirst(h) /\ PartLast(h)' = PartLast(h)
               /\ \A ip : Part(h, ip)' = Part(h, ip)
    BY <1>10, SameCall
  <2>5. \A h : Part(h, call.ip)' = Part(h, call.ip)
    BY <1>10, SameCall
  <2>6. Inserted'
    BY <1>10, <2>3, <2>5 DEF RangeInv, Inserted, Holds
  <2>7. Undone'
    BY <1>10, <2>3, <2>4 DEF RangeInv, Undone, Holds, Covers
  <2>8. QED
    BY <1>1, <2>1, <2>2, <2>6, <2>7 DEF RangeInv
<1>11. CASE \E ip \in Ip : SetDefault(ip)
  BY <1>10, <1>11 DEF SetDefault
<1>12. CASE Done \/ UNCHANGED vars
  BY <1>10, <1>12 DEF Done, vars
<1>13. QED
  BY <1>2, <1>3, <1>4, <1>5, <1>6, <1>7, <1>8, <1>9, <1>11, <1>12 DEF Next, Running

-----------------------------------------------------------------------------
(* Invariants.                                                             *)

\* Whatever the calls are: the vectors hold ranges of their blocks (range.c:
\* range_insert, range_delete).
THEOREM TypesInvariant == Spec => []Types
<1>1. Init => Types
  BY InitInv DEF RangeInv
<1>2. Types /\ [Next]_vars => Types'
  BY TypesStep
<1>3. QED
  BY <1>1, <1>2, PTL DEF Spec

\* No step makes calls careful again.
LEMMA CarefulLasts == [Next]_vars /\ careful' => careful
BY DEF Next, Running, InsertPush, InsertPlace, InsertClash, InsertRuns, InsertReturns,
       DeleteBlock, DeleteReturns, InsertOutOfMemory, CallDelete, CallInsert,
       InsertRefused, SetDefault, Done, vars

\* As long as the calls are careful, what the loops have done so far is in the table
\* (range.c: range_insert, range_delete).
THEOREM RangeInvariant == Spec => [](careful => RangeInv)
<1>1. Init => (careful => RangeInv)
  BY InitInv
<1>2. (careful => RangeInv) /\ [Next]_vars => (careful => RangeInv)'
  BY StepKeeps, CarefulLasts
<1>3. QED
  BY <1>1, <1>2, PTL DEF Spec

LEMMA TypesGiveTypeOK == Types => TypeOK
<1> SUFFICES ASSUME Types PROVE TypeOK
  OBVIOUS
<1>1. \A h \in 0..(Blocks - 1) : low[h] \in Vectors /\ DOMAIN low[h] = 1..Len(low[h])
  BY DEF Types, Vectors
<1>2. \A h \in 0..(Blocks - 1) : \A i \in DOMAIN low[h] : low[h][i] \in EntryType
  BY <1>1, EntryNumbers
<1>3. QED
  BY <1>2 DEF TypeOK, Types, EntryType

\* Whatever the calls are, even when a loop wraps around or a split fails, every
\* range keeps to its block and the loop to addresses (range.c: range_insert,
\* range_delete).
THEOREM RangesKeepToBlocks == Spec => []TypeOK
BY TypesInvariant, TypesGiveTypeOK, PTL

LEMMA InvIsSound == Types /\ (careful => RangeInv) => TableSound
<1> SUFFICES ASSUME Types, careful => RangeInv PROVE TableSound
  OBVIOUS
<1>1. Types /\ (careful => AllSorted)
  BY DEF RangeInv
<1>2. \A h \in 0..(Blocks - 1) : DOMAIN low[h] = 1..Len(low[h])
  BY <1>1 DEF Types, Vectors
<1>3. careful => Ordered
  BY <1>1, <1>2 DEF Ordered, AllSorted, Sorted
<1>4. QED
  BY <1>1, <1>3, TypesGiveTypeOK DEF TableSound

\* Every range keeps to its block, and as long as the calls are careful the ranges
\* of a block are in order and apart from each other, through every split and cut
\* (range.c: range_insert).
THEOREM TableStaysSound == Spec => []TableSound
BY TypesInvariant, RangeInvariant, InvIsSound, PTL

-----------------------------------------------------------------------------
(* What a call changes.                                                    *)

LEMMA GetAfter ==
  \A a : Get(a)' = Value(low'[High(a)], LowOf(a), def_ip')
BY DEF Get, Value, High, LowOf

\* An address that is looked up differently after a step of a call.
LEMMA GetChanges ==
  ASSUME RangeInv, [Next]_vars, pc # "idle", NEW a \in Addr, Get(a)' # Get(a)
  PROVE  \/ /\ a \in call.start..call.end
            /\ pc = "delete" => Get(a)' = def_ip
         \/ /\ pc = "insert" /\ pc' = "failed"
            /\ LowOf(a) = 0 /\ Get(a)' = Invalid
<1> DEFINE h == High(a)
           x == LowOf(a)
<1>1. /\ Types /\ AllSorted /\ Loop /\ a \in Nat /\ h \in 0..(Blocks - 1) /\ x \in Low
      /\ call.start \in Nat /\ call.end \in Nat
  BY Addresses, Parts, TypesFacts DEF RangeInv
<1>2. Get(a) = Value(low[h], x, def_ip) /\ Get(a)' = Value(low'[h], x, def_ip')
  BY GetIsValue, GetAfter
<1> HIDE DEF h, x
<1>3. ASSUME pc \in {"insert", "delete"}, n <= call.end, h = High(n),
             PartFirst(h) <= x, x <= PartLast(h)
      PROVE  a \in call.start..call.end
  <2>1. High(call.start) <= h /\ h <= High(call.end)
    BY <1>1, <1>3, LoopFacts DEF Loop
  <2>2. call.start <= a /\ a <= call.end
    BY <1>1, <1>3, <2>1, InPart DEF h, x
  <2>3. QED
    BY <1>1, <2>2
<1>4. CASE InsertPush \/ InsertPlace
  <2>1. PICK v \in Vectors :
          /\ low' = [low EXCEPT ![High(n)] = v]
          /\ \A y \in Low : \A def :
               ~(PartFirst(High(n)) <= y /\ y <= PartLast(High(n))) =>
                 Value(v, y, def) = Value(low[High(n)], y, def)
    BY <1>4, InsertStep
  <2>2. pc = "insert" /\ n <= call.end /\ def_ip' = def_ip
    BY <1>4 DEF InsertPush, InsertPlace, InsertRuns
  <2>3. h = High(n)
    BY <1>1, <1>2, <2>1, <2>2, OneBlock
  <2>4. low'[h] = v
    BY <1>1, <2>1, <2>3, OneBlock
  <2>5. PartFirst(h) <= x /\ x <= PartLast(h)
    BY <1>1, <1>2, <2>1, <2>2, <2>3, <2>4
  <2>6. QED
    BY <1>3, <2>2, <2>3, <2>5
<1>5. CASE DeleteBlock
  <2>1. PICK v \in Vectors :
          /\ low' = [low EXCEPT ![High(n)] = v]
          /\ \A y \in Low : \A def :
               Value(v, y, def) # Value(low[High(n)], y, def) =>
                 /\ PartFirst(High(n)) <= y /\ y <= PartLast(High(n))
                 /\ Value(v, y, def) = def
    BY <1>5, DeleteStep
  <2>2. pc = "delete" /\ n <= call.end /\ def_ip' = def_ip
    BY <1>5 DEF DeleteBlock
  <2>3. h = High(n)
    BY <1>1, <1>2, <2>1, <2>2, OneBlock
  <2>4. low'[h] = v
    BY <1>1, <2>1, <2>3, OneBlock
  <2>5. PartFirst(h) <= x /\ x <= PartLast(h) /\ Value(v, x, def_ip) = def_ip
    BY <1>1, <1>2, <2>1, <2>2, <2>3, <2>4
  <2>6. QED
    BY <1>2, <1>3, <2>2, <2>3, <2>4, <2>5
<1>6. CASE InsertOutOfMemory
  <2>1. pc = "insert" /\ pc' = "failed" /\ def_ip' = def_ip
    BY <1>6 DEF InsertOutOfMemory, InsertRuns
  <2> DEFINE v == Append(Vec, Entry(0, 0, Invalid))
  <2>2. low' = low \/ low' = [low EXCEPT ![High(n)] = v]
    BY <1>6 DEF InsertOutOfMemory, Vec
  <2>3. Vec \in Vectors /\ Sorted(Vec) /\ Vec = low[High(n)]
    BY <1>1, <2>1, TypesFacts DEF AllSorted, Vec
  <2>4. low' = [low EXCEPT ![High(n)] = v]
    BY <1>2, <2>1, <2>2
  <2>5. \A y \in Low : \A def : Value(v, y, def) # Value(Vec, y, def) =>
          y = 0 /\ Value(v, y, def) = Invalid
    BY <2>3, PushedInvalid
  <2> HIDE DEF v
  <2>6. h = High(n) /\ low'[h] = v
    BY <1>1, <1>2, <2>1, <2>4, OneBlock
  <2>7. x = 0 /\ Value(v, x, def_ip) = Invalid
    BY <1>1, <1>2, <2>1, <2>3, <2>5, <2>6
  <2>8. QED
    BY <1>2, <2>1, <2>6, <2>7 DEF x
<1>7. ASSUME UNCHANGED <<low, def_ip>> PROVE FALSE
  BY <1>2, <1>7
<1>8. InsertPush \/ InsertPlace \/ DeleteBlock \/ InsertOutOfMemory \/ UNCHANGED <<low, def_ip>>
  BY DEF Next, Running, InsertClash, InsertRuns, InsertReturns, DeleteReturns, Done, vars,
         CallDelete, CallInsert, Call, InsertRefused, SetDefault
<1>9. QED
  BY <1>4, <1>5, <1>6, <1>7, <1>8

\* As long as the calls are careful, no call reaches beyond its range, whichever way
\* it ends, and no delete gives an address to another range (range.c: range_insert,
\* range_delete).
THEOREM CallsStayContained == Spec => CallsContained
<1>1. (careful => RangeInv) /\ [Next]_vars =>
        [careful /\ pc # "idle" =>
           \A a \in Addr : Get(a)' # Get(a) =>
             \/ a \in call.start..call.end
             \/ pc' = "failed" /\ LowOf(a) = 0 /\ Get(a)' = Invalid]_vars
  BY GetChanges
<1>2. (careful => RangeInv) /\ [Next]_vars =>
        [careful /\ pc = "delete" => \A a \in Addr : Get(a)' # Get(a) => Get(a)' = def_ip]_vars
  BY GetChanges
<1>3. QED
  BY <1>1, <1>2, RangeInvariant, PTL DEF Spec, CallsContained, OutsideUntouched, DeleteOnlyClears

\* The addresses of a call are those of its parts of the blocks.
LEMMA RangeAddresses ==
  ASSUME Types, NEW a \in call.start..call.end
  PROVE  /\ a \in Addr /\ LowOf(a) \in Low
         /\ High(a) \in High(call.start)..High(call.end) /\ High(a) \in 0..(Blocks - 1)
         /\ PartFirst(High(a)) <= LowOf(a) /\ LowOf(a) <= PartLast(High(a))
<1>1. a \in Addr /\ call.start <= a /\ a <= call.end
  <2>1. call.start \in Nat /\ call.end \in Addr
    BY TypesFacts DEF Types
  <2>2. QED
    BY <2>1, Space DEF Addr
<1>2. /\ High(call.start) <= High(a) /\ High(a) <= High(call.end)
      /\ PartFirst(High(a)) <= LowOf(a) /\ LowOf(a) <= PartLast(High(a))
  BY <1>1, InPart
<1>3. High(a) \in 0..(Blocks - 1) /\ LowOf(a) \in Low
  BY <1>1, Addresses, Parts
<1>4. QED
  BY <1>1, <1>2, <1>3, BlocksOfCall, Space

LEMMA InsertSets ==
  ASSUME RangeInv, [Next]_vars, pc = "insert", pc' = "idle", ret' = 0,
         NEW a \in call.start..call.end
  PROVE  Get(a) = call.ip
<1>1. Types /\ AllSorted /\ Loop /\ Inserted
  BY DEF RangeInv
<1>2. n > call.end
  BY DEF Next, Running, InsertPush, InsertPlace, InsertClash, InsertRuns, Return, InsertReturns,
         DeleteBlock, DeleteReturns, InsertOutOfMemory, CallDelete, CallInsert, Call,
         InsertRefused, SetDefault, Done, vars
<1>3. ~(High(n) <= High(call.end))
  <2>1. ~(n <= call.end)
    BY <1>1, <1>2, TypesFacts
  <2>2. QED
    BY <1>1, <2>1, LoopFacts
<1>4. /\ LowOf(a) \in Low
      /\ High(a) \in High(call.start)..High(call.end) /\ High(a) \in 0..(Blocks - 1)
      /\ PartFirst(High(a)) <= LowOf(a) /\ LowOf(a) <= PartLast(High(a))
  BY <1>1, RangeAddresses
<1>5. High(a) \in High(call.start)..(High(n) - 1)
  BY <1>1, <1>3, <1>4, BlocksOfCall
<1>6. Holds(low[High(a)], Entry(PartFirst(High(a)), PartLast(High(a)), call.ip))
  BY <1>1, <1>5 DEF Inserted, Part
<1>7. low[High(a)] \in Vectors /\ Sorted(low[High(a)])
  BY <1>1, <1>4 DEF Types, AllSorted
<1>8. Value(low[High(a)], LowOf(a), def_ip) = call.ip
  BY <1>4, <1>6, <1>7, HeldValue
<1>9. QED
  BY <1>8, GetIsValue

LEMMA DeleteUndoes ==
  ASSUME RangeInv, [Next]_vars, pc = "delete", pc' = "idle", call.undoes,
         NEW a \in call.start..call.end
  PROVE  Get(a) = def_ip
<1>1. Types /\ Loop /\ Undone
  BY DEF RangeInv
<1>2. n > call.end
  BY DEF Next, Running, InsertPush, InsertPlace, InsertClash, InsertRuns, Return, InsertReturns,
         DeleteBlock, DeleteReturns, InsertOutOfMemory, CallDelete, CallInsert, Call,
         InsertRefused, SetDefault, Done, vars
<1>3. ~(High(n) <= High(call.end))
  <2>1. ~(n <= call.end)
    BY <1>1, <1>2, TypesFacts
  <2>2. QED
    BY <1>1, <2>1, LoopFacts
<1>4. /\ LowOf(a) \in Low
      /\ High(a) \in High(call.start)..High(call.end) /\ High(a) \in 0..(Blocks - 1)
      /\ PartFirst(High(a)) <= LowOf(a) /\ LowOf(a) <= PartLast(High(a))
  BY <1>1, RangeAddresses
<1>5. High(a) \in High(call.start)..(High(n) - 1)
  BY <1>1, <1>3, <1>4, BlocksOfCall
<1>6. \A i \in 1..Len(low[High(a)]) : \A x \in PartFirst(High(a))..PartLast(High(a)) :
        ~Covers(low[High(a)][i], x)
  BY <1>1, <1>5 DEF Undone
<1>7. low[High(a)] \in Vectors
  BY <1>1, <1>4 DEF Types
<1>8. LowOf(a) \in PartFirst(High(a))..PartLast(High(a))
  <2>1. PartFirst(High(a)) \in Low /\ PartLast(High(a)) \in Low
    BY <1>1, TypesFacts
  <2>2. PartFirst(High(a)) \in Nat /\ PartLast(High(a)) \in Nat /\ LowOf(a) \in Nat
    BY <1>4, <2>1, LowNumbers
  <2>3. QED
    BY <1>4, <2>2
<1>9. Value(low[High(a)], LowOf(a), def_ip) = def_ip
  BY <1>6, <1>7, <1>8, ValueMissing
<1>10. QED
  BY <1>9, GetIsValue

\* As long as the calls are careful, an insert that succeeds has set all of its
\* range, and the delete of what was inserted takes all of it back (range.c:
\* range_insert, range_delete).
THEOREM CallsDoTakeEffect == Spec => CallsTakeEffect
<1>1. (careful => RangeInv) /\ [Next]_vars =>
        [careful /\ pc = "insert" /\ pc' = "idle" /\ ret' = 0 =>
           \A a \in call.start..call.end : Get(a) = call.ip]_vars
  BY InsertSets
<1>2. (careful => RangeInv) /\ [Next]_vars =>
        [careful /\ pc = "delete" /\ pc' = "idle" /\ call.undoes =>
           \A a \in call.start..call.end : Get(a) = def_ip]_vars
  BY DeleteUndoes
<1>3. QED
  BY <1>1, <1>2, RangeInvariant, PTL
     DEF Spec, CallsTakeEffect, InsertSetsAll, DeleteUndoesInsert

-----------------------------------------------------------------------------
(* Calls whose loop comes round.                                           *)

\* Past the last block the low bits of an address stay what they were.
LEMMA WrapKeepsLow ==
  ASSUME NEW k \in 0..Blocks, NEW l \in Low
  PROVE  LowOf((k * Size + l) % (Blocks * Size)) = l
<1>0. /\ k \in Nat /\ l \in Nat /\ l < Size /\ 0 \in Nat /\ k <= Blocks
      /\ Blocks \in Nat /\ Blocks # 0 /\ Size \in Nat /\ Size # 0
  BY Space DEF Low
<1>1. CASE k < Blocks
  <2>1. High(k * Size + l) = k /\ LowOf(k * Size + l) = l
    BY <1>0, Whole
  <2>2. k * Size + l \in Nat
    BY <1>0
  <2>3. k * Size + l \in Addr
    BY <1>1, <2>1, <2>2, Addresses
  <2>4. QED
    BY <2>1, <2>3, Wrap
<1>2. CASE k = Blocks
  <2> DEFINE m == Blocks * Size
             a == k * Size + l
  <2>1. m \in Nat \ {0} /\ a = 1 * m + l /\ a \in Nat /\ l < m
    <3>1. m \in Nat \ {0} /\ a = m + l
      BY <1>0, <1>2, Space
    <3>2. Size <= m
      BY <1>0
    <3> HIDE DEF m, a
    <3>3. QED
      BY <1>0, <3>1, <3>2
  <2> HIDE DEF m, a
  <2>2. a \div m \in Nat /\ a % m \in Nat /\ a % m < m /\ a = (a \div m) * m + (a % m)
    BY <2>1, DivMod
  <2>3. 1 * m + l = (a \div m) * m + (a % m)
    BY <2>1, <2>2
  <2>4. a % m = l
    <3>1. 1 \in Nat
      OBVIOUS
    <3>2. QED
      BY <1>0, <2>1, <2>2, <2>3, <3>1, Unique
  <2>5. LowOf(0 * Size + l) = l /\ 0 * Size + l = l
    BY <1>0, Whole
  <2>6. QED
    BY <2>4, <2>5 DEF a, m
<1>3. QED
  BY <1>0, <1>1, <1>2

\* An insert is at its start or at the first address of a block, a delete at the
\* low bits of its start, even when the loop has come round.
LoopAt ==
  pc \in {"insert", "delete"} =>
    /\ call.op = pc
    /\ pc = "insert" => n = call.start \/ LowOf(n) = 0
    /\ pc = "delete" => LowOf(n) = LowOf(call.start)

LEMMA LoopAtStep == Types /\ LoopAt /\ [Next]_vars => LoopAt'
<1> SUFFICES ASSUME Types, LoopAt, [Next]_vars PROVE LoopAt'
  OBVIOUS
<1>1. n \in Nat /\ High(n) \in 0..(Blocks - 1) /\ LowOf(n) \in Low
  BY TypesFacts, Parts
<1>2. High(n) + 1 \in 0..Blocks /\ 0 \in Low
  BY <1>1, Space DEF Low
<1>3. n + Size = (High(n) + 1) * Size + LowOf(n)
  <2> DEFINE h == High(n)
             l == LowOf(n)
  <2>1. h \in Nat /\ l \in Nat /\ n = h * Size + l /\ Size \in Nat
    BY <1>1, Parts, Space DEF Low
  <2>2. (h + 1) * Size = h * Size + Size
    BY <2>1
  <2> HIDE DEF h, l
  <2>3. n + Size = (h + 1) * Size + l
    <3>1. h * Size \in Nat
      BY <2>1
    <3>2. QED
      BY <2>1, <2>2, <3>1
  <2>4. QED
    BY <2>3 DEF h, l
<1>4. High(n + Size) = High(n) + 1
  <2>1. High(n) + 1 \in Nat
    BY <1>1
  <2>2. QED
    BY <1>1, <1>3, <2>1, Whole
<1>5. CASE InsertPush \/ InsertPlace
  <2>1. NextInsert /\ pc' = pc /\ call' = call /\ pc = "insert"
    BY <1>5 DEF InsertPush, InsertPlace, InsertRuns
  <2>2. n' = ((High(n) + 1) * Size + 0) % (Blocks * Size)
    <3>1. (High(n) + 1) * Size + 0 = (High(n) + 1) * Size
      BY <1>1, Space
    <3>2. QED
      BY <1>4, <2>1, <3>1 DEF NextInsert
  <2>3. LowOf(n') = 0
    BY <1>2, <2>2, WrapKeepsLow
  <2>4. LowOf(n)' = 0
    BY <2>3 DEF LowOf
  <2>5. QED
    BY <2>1, <2>4 DEF LoopAt
<1>6. CASE DeleteBlock
  <2>1. n' = (n + Size) % (Blocks * Size) /\ pc' = pc /\ call' = call /\ pc = "delete"
    BY <1>6 DEF DeleteBlock
  <2>2. LowOf(n') = LowOf(n)
    BY <1>1, <1>2, <1>3, <2>1, WrapKeepsLow
  <2>3. LowOf(n)' = LowOf(n) /\ LowOf(call.start)' = LowOf(call.start)
    BY <2>1, <2>2 DEF LowOf
  <2>4. QED
    BY <2>1, <2>3 DEF LoopAt
<1>7. ASSUME NEW s \in Addr, NEW e \in s..(Blocks * Size - 1),
             CallDelete(s, e) \/ \E ip \in Ip : CallInsert(s, e, ip)
      PROVE  LoopAt'
  <2>1. PICK op \in {"insert", "delete"}, ip \in Ip \cup {Invalid} : Call(op, s, e, ip)
    BY <1>7 DEF CallDelete, CallInsert
  <2>2. pc' = op /\ n' = s /\ call'.op = op /\ call'.start = s
    BY <2>1 DEF Call
  <2>3. LowOf(n)' = LowOf(call.start)'
    BY <2>2 DEF LowOf
  <2>4. QED
    BY <2>2, <2>3 DEF LoopAt
<1>8. CASE pc' \in {"idle", "failed"}
  BY <1>8 DEF LoopAt
<1>9. ASSUME UNCHANGED <<pc, n, call>> PROVE LoopAt'
  BY <1>9 DEF LoopAt, LowOf
<1>10. QED
  BY <1>5, <1>6, <1>7, <1>8, <1>9
     DEF Next, Running, InsertClash, InsertReturns, Return, DeleteReturns, InsertOutOfMemory,
         InsertRefused, SetDefault, Done, vars

LEMMA EndlessNotPast ==
  ASSUME Types, LoopAt, Endless, pc \in {"insert", "delete"}
  PROVE  ~(n > call.end)
<1>1. /\ n \in Nat /\ call.end \in Nat /\ call.start \in Nat /\ call.start <= call.end
      /\ High(n) \in 0..(Blocks - 1) /\ High(call.end) = Blocks - 1
      /\ Blocks \in Nat
  BY TypesFacts, Space DEF Types, Endless
<1>2. LowOf(n) \in Low /\ LowOf(call.end) \in Low
  BY <1>1, Parts
<1>3. CASE n = call.start
  BY <1>1, <1>3
<1>4. CASE LowOf(n) <= LowOf(call.end)
  <2>1. High(n) < High(call.end) \/ High(n) = High(call.end)
    BY <1>1
  <2>2. n <= call.end
    BY <1>1, <1>4, <2>1, AddressOrder
  <2>3. QED
    BY <1>1, <2>2
<1>5. LowOf(n) = 0 => LowOf(n) <= LowOf(call.end)
  BY <1>2 DEF Low
<1>6. QED
  BY <1>3, <1>4, <1>5 DEF LoopAt, Endless

\* Of the calls whose range ends in the last block no insert ever succeeds, and no
\* delete that reaches into that block ever returns (range.c: range_insert,
\* range_delete).
THEOREM EndlessCallsNeverSucceed == Spec => EndlessNeverSucceeds
<1>1. Init => LoopAt
  BY DEF Init, LoopAt
<1>2. Types /\ LoopAt /\ [Next]_vars =>
        [Endless /\ pc \in {"insert", "delete"} /\ pc' = "idle" =>
           pc = "insert" /\ ret' = -1]_vars
  <2> SUFFICES ASSUME Types, LoopAt, [Next]_vars, Endless,
                      pc \in {"insert", "delete"}, pc' = "idle"
               PROVE  pc = "insert" /\ ret' = -1
    OBVIOUS
  <2>1. ~(n > call.end)
    BY EndlessNotPast
  <2>2. InsertClash
    BY <2>1
       DEF Next, Running, InsertPush, InsertPlace, InsertRuns, InsertReturns, DeleteBlock,
           DeleteReturns, InsertOutOfMemory, CallDelete, CallInsert, Call, InsertRefused,
           SetDefault, Done, vars
  <2>3. QED
    BY <2>2 DEF InsertClash, InsertRuns, Return
<1>3. QED
  BY <1>1, <1>2, LoopAtStep, TypesInvariant, PTL DEF Spec, EndlessNeverSucceeds

=============================================================================
