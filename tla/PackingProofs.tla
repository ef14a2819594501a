---------------------------- MODULE PackingProofs ----------------------------
(***************************************************************************)
(* A published pointer reads back as the file, for every file, every pack  *)
(* size and every truthful dedup index, and an upload that fails leaves    *)
(* nothing behind.  What FlattenSeq computes is proved by induction in set *)
(* form: a set of numbers with 0 and every successor is Nat.  The upload   *)
(* of each pack (SingleFlight) follows at the end.                         *)
(***************************************************************************)
EXTENDS Packing, SingleFlight, SequenceTheorems, WellFoundedInduction, TLAPS

(* Induction on the natural numbers. *)

\* A non-empty set of numbers has a least one.
LEMMA NatMin ==
  ASSUME NEW T \in SUBSET Nat, T # {}
  PROVE  \E x \in T : \A y \in T : ~(y < x)
<1> DEFINE R == OpToRel(<, Nat)
<1>1. IsWellFoundedOn(R, Nat)
  BY NatLessThanWellFounded
<1>2. \A y, x \in Nat : y < x => <<y, x>> \in R
  BY DEF OpToRel
<1> HIDE DEF R
<1>3. \E x \in T : \A y \in T : ~(<<y, x>> \in R)
  BY <1>1, WFMin, Zenon
<1>4. QED
  BY <1>2, <1>3

\* A set with 0 and the successor of each of its elements holds every number.
LEMMA NatInd ==
  ASSUME NEW S \in SUBSET Nat, 0 \in S, \A n \in S : n + 1 \in S
  PROVE  \A n \in Nat : n \in S
<1> DEFINE T == Nat \ S
<1>1. SUFFICES ASSUME T # {} PROVE FALSE
  OBVIOUS
<1>2. T \in SUBSET Nat
  OBVIOUS
<1>3. PICK x \in T : \A y \in T : ~(y < x)
  <2> HIDE DEF T
  <2>1. QED
    BY <1>1, <1>2, NatMin
<1>4. x \in Nat /\ x # 0
  OBVIOUS
<1>5. x - 1 \in Nat /\ x - 1 < x /\ (x - 1) + 1 = x
  BY <1>4
<1>6. x - 1 \in S
  BY <1>3, <1>5
<1>7. QED
  BY <1>5, <1>6

-----------------------------------------------------------------------------
(* FlattenSeq. *)

\* The function the definition of FlattenSeq chooses.
IsFlatten(g, s) == g = [i \in 1..Len(s) |-> IF i = 1 THEN s[i] ELSE g[i-1] \o s[i]]

\* It exists.
LEMMA FlattenExists ==
  ASSUME NEW T, NEW s \in Seq(Seq(T))
  PROVE  \E g : IsFlatten(g, s)
<1> DEFINE Eq(g, n) == \A i \in 1..n : g[i] = IF i = 1 THEN s[i] ELSE g[i-1] \o s[i]
           Has(n) == \E g \in [1..n -> Seq(T)] : Eq(g, n)
           S == {n \in Nat : n <= Len(s) => Has(n)}
<1> HIDE DEF Has
<1>1. Len(s) \in Nat /\ s \in [1..Len(s) -> Seq(T)]
  OBVIOUS
<1>2. 0 \in S
  <2> DEFINE e == [i \in 1..0 |-> <<>>]
  <2>1. e \in [1..0 -> Seq(T)]
    OBVIOUS
  <2>2. Eq(e, 0)
    OBVIOUS
  <2>3. Has(0)
    BY <2>1, <2>2 DEF Has
  <2>4. QED
    BY <2>3
<1>3. ASSUME NEW n \in S PROVE n + 1 \in S
  <2>1. SUFFICES ASSUME n + 1 <= Len(s) PROVE Has(n + 1)
    OBVIOUS
  <2>2. n \in Nat /\ n <= Len(s)
    BY <1>1, <2>1
  <2>3. PICK g \in [1..n -> Seq(T)] : Eq(g, n)
    BY <2>2 DEF Has
  <2> DEFINE h == [i \in 1..(n+1) |->
                     IF i = n + 1 THEN (IF i = 1 THEN s[i] ELSE g[n] \o s[i]) ELSE g[i]]
  <2>4. s[n+1] \in Seq(T)
    BY <1>1, <2>1, <2>2
  <2>5. n # 0 => g[n] \in Seq(T)
    BY <2>2, <2>3
  <2>6. h \in [1..(n+1) -> Seq(T)]
    BY <2>2, <2>3, <2>4, <2>5
  <2>7. ASSUME NEW i \in 1..(n+1)
        PROVE  h[i] = IF i = 1 THEN s[i] ELSE h[i-1] \o s[i]
    <3>1. CASE i = n + 1
      <4>1. i # 1 => h[i-1] = g[n]
        BY <2>2, <3>1
      <4>2. QED
        BY <3>1, <4>1, <2>2
    <3>2. CASE i # n + 1
      <4>1. i \in 1..n
        BY <3>2, <2>2
      <4>2. h[i] = g[i] /\ (i # 1 => h[i-1] = g[i-1])
        BY <4>1, <3>2, <2>2
      <4>3. g[i] = IF i = 1 THEN s[i] ELSE g[i-1] \o s[i]
        BY <2>3, <4>1
      <4>4. QED
        BY <4>2, <4>3
    <3>3. QED
      BY <3>1, <3>2
  <2>8. QED
    BY <2>6, <2>7 DEF Has
<1>4. Has(Len(s))
  <2> HIDE DEF S
  <2>1. S \in SUBSET Nat
    BY DEF S
  <2>2. Len(s) \in S
    BY <1>1, <1>2, <1>3, <2>1, NatInd
  <2>3. QED
    BY <1>1, <2>2 DEF S
<1>5. PICK g \in [1..Len(s) -> Seq(T)] : Eq(g, Len(s))
  BY <1>4 DEF Has
<1>6. g = [i \in 1..Len(s) |-> IF i = 1 THEN s[i] ELSE g[i-1] \o s[i]]
  BY <1>5
<1>7. QED
  BY <1>6 DEF IsFlatten

\* FlattenSeq of a non-empty sequence is its last value.
LEMMA FlattenIs ==
  ASSUME NEW T, NEW s \in Seq(Seq(T)), Len(s) # 0
  PROVE  \E g : IsFlatten(g, s) /\ FlattenSeq(s) = g[Len(s)]
<1> DEFINE f == CHOOSE g : IsFlatten(g, s)
<1>1. IsFlatten(f, s)
  BY FlattenExists
<1>2. FlattenSeq(s) = f[Len(s)]
  BY DEF FlattenSeq, IsFlatten
<1>3. QED
  BY <1>1, <1>2

LEMMA FlattenEmpty == FlattenSeq(<<>>) = <<>>
BY DEF FlattenSeq

\* A sequence more is concatenated at the end.
LEMMA FlattenAppend ==
  ASSUME NEW T, NEW s \in Seq(Seq(T)), NEW x \in Seq(T)
  PROVE  /\ FlattenSeq(s) \in Seq(T)
         /\ FlattenSeq(Append(s, x)) = FlattenSeq(s) \o x
<1> DEFINE t == Append(s, x)
           n == Len(s)
<1>1. t \in Seq(Seq(T)) /\ n \in Nat /\ Len(t) = n + 1 /\ t[n + 1] = x
      /\ \A i \in 1..n : t[i] = s[i] /\ s[i] \in Seq(T)
  OBVIOUS
<1> HIDE DEF t, n
<1>2. PICK h : IsFlatten(h, t) /\ FlattenSeq(t) = h[Len(t)]
  <2>1. t \in Seq(Seq(T)) /\ Len(t) # 0
    BY <1>1
  <2>2. QED
    BY <2>1, FlattenIs, Zenon
<1>3. FlattenSeq(t) = h[n + 1]
      /\ \A i \in 1..(n + 1) : h[i] = IF i = 1 THEN t[i] ELSE h[i-1] \o t[i]
  BY <1>1, <1>2 DEF IsFlatten
<1>4. CASE n = 0
  <2>1. s = <<>>
    BY <1>4 DEF n
  <2>2. FlattenSeq(t) = x
    BY <1>1, <1>3, <1>4
  <2>3. <<>> \o x = x /\ <<>> \in Seq(T)
    OBVIOUS
  <2>4. QED
    BY <2>1, <2>2, <2>3, FlattenEmpty, Zenon DEF t
<1>5. CASE n # 0
  <2>1. PICK g : IsFlatten(g, s) /\ FlattenSeq(s) = g[n]
    BY <1>5, FlattenIs DEF n
  <2>2. \A i \in 1..n : g[i] = IF i = 1 THEN s[i] ELSE g[i-1] \o s[i]
    BY <2>1 DEF IsFlatten, n
  <2> DEFINE S == {k \in Nat : k \in 1..n => g[k] = h[k] /\ g[k] \in Seq(T)}
  <2>3. 0 \in S
    OBVIOUS
  <2>4. ASSUME NEW k \in S PROVE k + 1 \in S
    <3>1. SUFFICES ASSUME k + 1 \in 1..n PROVE g[k+1] = h[k+1] /\ g[k+1] \in Seq(T)
      OBVIOUS
    <3>2. k \in Nat /\ k + 1 \in 1..(n+1) /\ (k + 1) - 1 = k
      BY <1>1, <3>1
    <3>3. h[k+1] = IF k + 1 = 1 THEN s[k+1] ELSE h[k] \o s[k+1]
      BY <1>1, <1>3, <3>1, <3>2
    <3>4. g[k+1] = IF k + 1 = 1 THEN s[k+1] ELSE g[k] \o s[k+1]
      BY <2>2, <3>1, <3>2
    <3>5. CASE k = 0
      BY <1>1, <3>1, <3>3, <3>4, <3>5
    <3>6. CASE k # 0
      <4>1. k \in 1..n
        BY <1>1, <3>1, <3>2, <3>6
      <4>2. g[k] = h[k] /\ g[k] \in Seq(T)
        BY <4>1
      <4>3. s[k+1] \in Seq(T)
        BY <1>1, <3>1
      <4>4. k + 1 # 1
        BY <3>2, <3>6
      <4>5. QED
        BY <3>3, <3>4, <4>2, <4>3, <4>4
    <3>7. QED
      BY <3>5, <3>6
  <2>5. g[n] = h[n] /\ g[n] \in Seq(T)
    <3> HIDE DEF S
    <3>1. S \in SUBSET Nat
      BY DEF S
    <3>2. n \in S
      BY <1>1, <2>3, <2>4, <3>1, NatInd
    <3>3. n \in 1..n
      BY <1>1, <1>5
    <3>4. QED
      BY <3>2, <3>3 DEF S
  <2>6. h[n + 1] = h[n] \o x
    <3>1. n + 1 \in 1..(n + 1) /\ n + 1 # 1 /\ (n + 1) - 1 = n
      BY <1>1, <1>5
    <3>2. QED
      BY <1>1, <1>3, <3>1
  <2>7. QED
    BY <1>3, <2>1, <2>5, <2>6 DEF t
<1>6. QED
  BY <1>4, <1>5

-----------------------------------------------------------------------------
(* Bytes of chunks and of ranges. *)

Byte == Chunks \X Nat

LEMMA BytesType ==
  ASSUME NEW c \in Chunks
  PROVE  /\ Size[c] \in Nat \ {0}
         /\ Bytes(c) \in Seq(Byte) /\ Len(Bytes(c)) = Size[c]
<1>1. Size[c] \in Nat \ {0}
  BY PackingAssumption
<1>2. \A i \in 1..Size[c] : <<c, i>> \in Byte
  BY <1>1 DEF Byte
<1>3. QED
  BY <1>1, <1>2 DEF Bytes

\* One chunk more.
LEMMA BytesOfAppend ==
  ASSUME NEW q \in Seq(Chunks), NEW c \in Chunks
  PROVE  /\ BytesOf(q) \in Seq(Byte)
         /\ BytesOf(Append(q, c)) = BytesOf(q) \o Bytes(c)
<1> DEFINE f == [i \in DOMAIN q |-> Bytes(q[i])]
           g == [i \in DOMAIN Append(q, c) |-> Bytes(Append(q, c)[i])]
<1>1. Len(q) \in Nat /\ DOMAIN q = 1..Len(q) /\ \A i \in 1..Len(q) : q[i] \in Chunks
  OBVIOUS
<1>2. \A i \in 1..Len(q) : Bytes(q[i]) \in Seq(Byte)
  BY <1>1, BytesType
<1>3. f \in Seq(Seq(Byte)) /\ Len(f) = Len(q)
  BY <1>1, <1>2
<1>4. Bytes(c) \in Seq(Byte)
  BY BytesType
<1>5. g = Append(f, Bytes(c))
  <2>1. DOMAIN Append(q, c) = 1..(Len(q) + 1)
    BY <1>1
  <2>2. Append(f, Bytes(c)) \in Seq(Seq(Byte)) /\ Len(Append(f, Bytes(c))) = Len(q) + 1
    BY <1>3, <1>4
  <2>3. \A i \in 1..(Len(q) + 1) : g[i] = Append(f, Bytes(c))[i]
    BY <1>1, <1>3, <2>1
  <2>4. QED
    BY <2>1, <2>2, <2>3
<1> HIDE DEF f, g
<1>6. FlattenSeq(f) \in Seq(Byte) /\ FlattenSeq(g) = FlattenSeq(f) \o Bytes(c)
  BY <1>3, <1>4, <1>5, FlattenAppend
<1>7. QED
  BY <1>6 DEF f, g, BytesOf

LEMMA BytesOfType == ASSUME NEW q \in Seq(Chunks) PROVE BytesOf(q) \in Seq(Byte)
<1>1. CASE q = <<>>
  <2>1. [i \in DOMAIN q |-> Bytes(q[i])] = <<>>
    BY <1>1
  <2>2. <<>> \in Seq(Byte)
    OBVIOUS
  <2>3. QED
    BY <2>1, <2>2, FlattenEmpty, Zenon DEF BytesOf
<1>2. CASE q # <<>>
  <2>1. q[1] \in Chunks
    BY <1>2
  <2>2. QED
    BY <2>1, BytesOfAppend
<1>3. QED
  BY <1>1, <1>2

\* The bytes of chunk c lie at offset at of b.
Holds(b, at, c) ==
  /\ at \in Nat /\ at + Size[c] <= Len(b)
  /\ \A j \in 1..Size[c] : b[at + j] = <<c, j>>

LEMMA HoldsSlice ==
  ASSUME NEW b \in Seq(Byte), NEW at, NEW c \in Chunks, Holds(b, at, c)
  PROVE  SubSeq(b, at + 1, at + Size[c]) = Bytes(c)
<1>1. at \in Nat /\ Size[c] \in Nat /\ Len(b) \in Nat /\ at + Size[c] <= Len(b)
  BY BytesType DEF Holds
<1> DEFINE n == Size[c]
           d == SubSeq(b, at + 1, at + n)
<1>2. \A i \in (at + 1)..(at + n) : b[i] \in Byte
  BY <1>1
<1>3. d \in Seq(Byte) /\ Len(d) = n /\ \A i \in 1..n : d[i] = b[at + i]
  BY <1>1, <1>2
<1>4. \A i \in 1..n : d[i] = Bytes(c)[i]
  BY <1>1, <1>3 DEF Holds, Bytes
<1>5. Bytes(c) \in Seq(Byte) /\ Len(Bytes(c)) = n
  BY BytesType
<1> HIDE DEF d, n
<1>6. d = Bytes(c)
  BY <1>3, <1>4, <1>5, SeqEqual
<1>7. QED
  BY <1>6 DEF d, n

LEMMA HoldsConcat ==
  ASSUME NEW b \in Seq(Byte), NEW x \in Seq(Byte), NEW at, NEW c \in Chunks, Holds(b, at, c)
  PROVE  Holds(b \o x, at, c)
<1>1. at \in Nat /\ Size[c] \in Nat /\ Len(b) \in Nat /\ Len(x) \in Nat /\ at + Size[c] <= Len(b)
  BY BytesType DEF Holds
<1>2. Len(b \o x) = Len(b) + Len(x) /\ \A i \in 1..Len(b) : (b \o x)[i] = b[i]
  BY <1>1
<1>3. \A j \in 1..Size[c] : at + j \in 1..Len(b)
  BY <1>1
<1>4. QED
  BY <1>1, <1>2, <1>3 DEF Holds

LEMMA HoldsLast ==
  ASSUME NEW b \in Seq(Byte), NEW c \in Chunks
  PROVE  Holds(b \o Bytes(c), Len(b), c)
<1>1. Bytes(c) \in Seq(Byte) /\ Len(Bytes(c)) = Size[c] /\ Size[c] \in Nat /\ Len(b) \in Nat
  BY BytesType
<1>2. \A j \in 1..Size[c] : Bytes(c)[j] = <<c, j>>
  BY DEF Bytes
<1> HIDE DEF Bytes
<1>3. Len(b \o Bytes(c)) = Len(b) + Size[c]
  BY <1>1
<1>4. \A j \in 1..Size[c] : (b \o Bytes(c))[Len(b) + j] = Bytes(c)[j]
  BY <1>1
<1>5. QED
  BY <1>1, <1>2, <1>3, <1>4 DEF Holds

LEMMA PrefixAppend ==
  ASSUME NEW q \in Seq(Chunks), NEW n \in Nat, n < Len(q)
  PROVE  /\ SubSeq(q, 1, n) \in Seq(Chunks) /\ q[n + 1] \in Chunks
         /\ SubSeq(q, 1, n + 1) = Append(SubSeq(q, 1, n), q[n + 1])
OBVIOUS

\* The native stream's offset of a chunk is where the file holds it.
LEMMA FileHolds ==
  ASSUME NEW q \in Seq(Chunks), NEW k \in 1..Len(q)
  PROVE  Holds(BytesOf(q), Len(BytesOf(SubSeq(q, 1, k - 1))), q[k])
<1> DEFINE at == Len(BytesOf(SubSeq(q, 1, k - 1)))
           S == {m \in Nat : k + m <= Len(q) => Holds(BytesOf(SubSeq(q, 1, k + m)), at, q[k])}
<1>1. Len(q) \in Nat /\ k \in Nat /\ k - 1 \in Nat /\ k - 1 < Len(q) /\ (k - 1) + 1 = k /\ k + 0 = k
      /\ q[k] \in Chunks
  OBVIOUS
<1>2. 0 \in S
  <2>1. SubSeq(q, 1, k) = Append(SubSeq(q, 1, k - 1), q[k]) /\ SubSeq(q, 1, k - 1) \in Seq(Chunks)
    BY <1>1, PrefixAppend
  <2>2. Holds(BytesOf(SubSeq(q, 1, k)), at, q[k])
    BY <1>1, <2>1, BytesOfAppend, HoldsLast
  <2> HIDE DEF at
  <2>3. QED
    BY <1>1, <2>2
<1>3. ASSUME NEW m \in S PROVE m + 1 \in S
  <2> HIDE DEF at
  <2>1. SUFFICES ASSUME k + (m + 1) <= Len(q)
                 PROVE  Holds(BytesOf(SubSeq(q, 1, k + (m + 1))), at, q[k])
    OBVIOUS
  <2>2. m \in Nat /\ k + m \in Nat /\ k + m < Len(q) /\ k + (m + 1) = (k + m) + 1
    BY <1>1, <2>1
  <2> DEFINE r == SubSeq(q, 1, k + m)
             c == q[(k + m) + 1]
  <2>3. Holds(BytesOf(r), at, q[k])
    BY <2>2
  <2>4. SubSeq(q, 1, (k + m) + 1) = Append(r, c) /\ r \in Seq(Chunks) /\ c \in Chunks
    BY <2>2, PrefixAppend
  <2> HIDE DEF r, c
  <2>5. BytesOf(Append(r, c)) = BytesOf(r) \o Bytes(c) /\ BytesOf(r) \in Seq(Byte)
        /\ Bytes(c) \in Seq(Byte)
    BY <2>4, BytesOfAppend, BytesType
  <2>6. Holds(BytesOf(r) \o Bytes(c), at, q[k])
    BY <1>1, <2>3, <2>5, HoldsConcat
  <2>7. QED
    BY <2>2, <2>4, <2>5, <2>6
<1>4. S \in SUBSET Nat
  OBVIOUS
<1>5. Len(q) - k \in S
  <2> HIDE DEF S
  <2>1. QED
    BY <1>1, <1>2, <1>3, <1>4, NatInd
<1>6. k + (Len(q) - k) = Len(q) /\ SubSeq(q, 1, Len(q)) = q
  BY <1>1
<1> HIDE DEF at
<1>7. Holds(BytesOf(q), at, q[k])
  <2> DEFINE m == Len(q) - k
  <2>1. k + m = Len(q) /\ k + m <= Len(q)
    BY <1>1
  <2> HIDE DEF m
  <2>2. Holds(BytesOf(SubSeq(q, 1, k + m)), at, q[k])
    BY <1>5, <2>1 DEF m
  <2>3. QED
    BY <1>6, <2>1, <2>2
<1>8. QED
  BY <1>7 DEF at

\* The bytes of a pack, of the file f: read_ranges.
PackOf(f, ranges) ==
  FlattenSeq([i \in DOMAIN ranges |->
    SubSeq(BytesOf(f), ranges[i].off + 1, ranges[i].off + ranges[i].size)])

\* Ranges that lie within the file.
Span(f) == {r \in [off : Nat, size : Nat] : r.off + r.size <= Len(BytesOf(f))}

LEMMA PackOfEmpty == ASSUME NEW f PROVE PackOf(f, <<>>) = <<>>
<1>1. \A g : [i \in DOMAIN <<>> |-> SubSeq(BytesOf(g), <<>>[i].off + 1, <<>>[i].off + <<>>[i].size)] = <<>>
  OBVIOUS
<1>2. QED
  BY <1>1, FlattenEmpty DEF PackOf

LEMMA SliceType ==
  ASSUME NEW f \in Seq(Chunks), NEW r \in Span(f)
  PROVE  SubSeq(BytesOf(f), r.off + 1, r.off + r.size) \in Seq(Byte)
<1> DEFINE all == BytesOf(f)
<1>1. all \in Seq(Byte)
  BY BytesOfType
<1>2. r.off \in Nat /\ r.size \in Nat /\ r.off + r.size <= Len(all) /\ Len(all) \in Nat
  BY <1>1 DEF Span
<1> HIDE DEF all
<1>3. \A i \in (r.off + 1)..(r.off + r.size) : all[i] \in Byte
  BY <1>1, <1>2
<1>4. SubSeq(all, r.off + 1, r.off + r.size) \in Seq(Byte)
  BY <1>2, <1>3, SubSeqProperties
<1>5. QED
  BY <1>4 DEF all

\* One range more.
LEMMA PackOfAppend ==
  ASSUME NEW f \in Seq(Chunks), NEW ranges \in Seq(Span(f)), NEW r \in Span(f)
  PROVE  /\ PackOf(f, ranges) \in Seq(Byte)
         /\ PackOf(f, Append(ranges, r))
              = PackOf(f, ranges) \o SubSeq(BytesOf(f), r.off + 1, r.off + r.size)
<1> DEFINE all == BytesOf(f)
           cut(x) == SubSeq(all, x.off + 1, x.off + x.size)
           a == [i \in DOMAIN ranges |-> cut(ranges[i])]
           b == [i \in DOMAIN Append(ranges, r) |-> cut(Append(ranges, r)[i])]
<1>1. Len(ranges) \in Nat /\ DOMAIN ranges = 1..Len(ranges)
      /\ \A i \in 1..Len(ranges) : ranges[i] \in Span(f)
  OBVIOUS
<1>2. all \in Seq(Byte)
  BY BytesOfType
<1> HIDE DEF all
<1>3. \A x \in Span(f) : cut(x) \in Seq(Byte)
  BY SliceType DEF all
<1> HIDE DEF cut
<1>4. a \in Seq(Seq(Byte)) /\ Len(a) = Len(ranges)
  BY <1>1, <1>3
<1>5. cut(r) \in Seq(Byte)
  BY <1>3
<1>6. b = Append(a, cut(r))
  <2>1. DOMAIN Append(ranges, r) = 1..(Len(ranges) + 1)
    BY <1>1
  <2>2. Append(a, cut(r)) \in Seq(Seq(Byte)) /\ Len(Append(a, cut(r))) = Len(ranges) + 1
    BY <1>4, <1>5
  <2>3. \A i \in 1..(Len(ranges) + 1) : b[i] = Append(a, cut(r))[i]
    BY <1>1, <1>4, <2>1
  <2>4. QED
    BY <2>1, <2>2, <2>3
<1> HIDE DEF a, b
<1>7. FlattenSeq(a) \in Seq(Byte) /\ FlattenSeq(b) = FlattenSeq(a) \o cut(r)
  BY <1>4, <1>5, <1>6, FlattenAppend
<1>8. QED
  BY <1>7 DEF a, b, cut, all, PackOf

LEMMA PackOfType ==
  ASSUME NEW f \in Seq(Chunks), NEW ranges \in Seq(Span(f))
  PROVE  PackOf(f, ranges) \in Seq(Byte)
<1>1. CASE ranges = <<>>
  <2>1. <<>> \in Seq(Byte)
    OBVIOUS
  <2>2. QED
    BY <1>1, <2>1, PackOfEmpty
<1>2. CASE ranges # <<>>
  <2>1. ranges[1] \in Span(f)
    BY <1>2
  <2>2. QED
    BY <2>1, PackOfAppend
<1>3. QED
  BY <1>1, <1>2

-----------------------------------------------------------------------------
(* The inductive invariant. *)

JobStates == {"queued", "running", "done", "failed", "cancelled"}
PackData == {<<>>} \cup {Index[c].pack : c \in DOMAIN Index}
Entries == [chunk : Chunks, size : Nat, at : Nat, pack : PackData, new : Nat]

\* The closed packs and, last, the open one.
Open == Append(newPacks, cur)

\* An entry of the plan that leads to the bytes of chunk c, given the packs.
Good(f, e, c, packs) ==
  /\ e.size = Size[c]
  /\ e.new = 0 => /\ e.at + e.size <= Len(e.pack)
                  /\ SubSeq(e.pack, e.at + 1, e.at + e.size) = Bytes(c)
  /\ e.new # 0 => e.new \in 1..Len(packs) /\ Holds(PackOf(f, packs[e.new]), e.at, c)

TypeInv ==
  /\ file \in Seq(Chunks) /\ fed \in 0..Len(file)
  /\ newPacks \in Seq(Seq(Span(file))) /\ cur \in Seq(Span(file))
  /\ planned \in Seq(Entries) /\ Len(planned) = fed
  /\ DOMAIN seen \subseteq Chunks /\ seen \in [DOMAIN seen -> Entries]
  /\ jobs \in Seq([ranges : Seq(Span(file)), state : JobStates])

\* What the accumulator has planned reads back.
PlanInv ==
  /\ curOffset = Len(PackOf(file, cur))
  /\ \A i \in 1..fed : Good(file, planned[i], file[i], Open)
  /\ \A c \in DOMAIN seen : Good(file, seen[c], c, Open)

\* The futures are the closed packs, in order; the stream's end closes the last.
JobInv ==
  /\ Len(jobs) = Len(newPacks)
  /\ \A j \in 1..Len(jobs) : jobs[j].ranges = newPacks[j]
  /\ phase \in {"collect", "done"} => fed = Len(file) /\ cur = <<>>

PointerInv ==
  phase = "done" =>
    /\ DOMAIN pointer = 1..Len(file)
    /\ \A i \in 1..Len(file) :
         /\ pointer[i].at + pointer[i].size <= Len(pointer[i].pack)
         /\ SubSeq(pointer[i].pack, pointer[i].at + 1, pointer[i].at + pointer[i].size)
              = Bytes(file[i])

EndInv ==
  /\ phase = "done" => InState("done") = DOMAIN jobs
  /\ phase # "done" => pointer = <<>>
  /\ phase \in {"unwind", "failed"} => InState("queued") = {}
  /\ phase = "failed" => InState("running") = {}

PackingInv == TypeInv /\ PlanInv /\ JobInv /\ PointerInv

LEMMA InitInv == Init => PackingInv
<1> SUFFICES ASSUME Init PROVE PackingInv
  OBVIOUS
<1>1. file \in Seq(Chunks)
  BY PackingAssumption DEF Init
<1>2. Len(file) \in Nat /\ 0 \in 0..Len(file)
  BY <1>1
<1>3. TypeInv
  <2>1. DOMAIN seen = {} /\ seen \in [DOMAIN seen -> Entries]
    BY DEF Init
  <2>2. QED
    BY <1>1, <1>2, <2>1 DEF Init, TypeInv
<1>4. PlanInv
  <2>1. PackOf(file, <<>>) = <<>>
    BY PackOfEmpty
  <2>2. DOMAIN seen = {} /\ fed = 0 /\ cur = <<>> /\ curOffset = 0
    BY DEF Init
  <2>3. QED
    BY <2>1, <2>2 DEF PlanInv
<1>5. JobInv /\ PointerInv
  BY DEF Init, JobInv, PointerInv
<1>6. QED
  BY <1>3, <1>4, <1>5 DEF PackingInv

\* An entry stays good when its packs only grow.
Grown(f, p, q) ==
  /\ Len(p) <= Len(q)
  /\ \A k \in 1..Len(p) : q[k] = p[k] \/ \E r \in Span(f) : q[k] = Append(p[k], r)

LEMMA GoodGrows ==
  ASSUME NEW f \in Seq(Chunks), NEW p \in Seq(Seq(Span(f))), NEW q \in Seq(Seq(Span(f))),
         Grown(f, p, q), NEW e \in Entries, NEW c \in Chunks, Good(f, e, c, p)
  PROVE  Good(f, e, c, q)
<1>1. CASE e.new = 0
  BY <1>1 DEF Good
<1>2. CASE e.new # 0
  <2> DEFINE k == e.new
  <2>1. k \in 1..Len(p) /\ Holds(PackOf(f, p[k]), e.at, c)
    BY <1>2 DEF Good
  <2>2. Len(p) \in Nat /\ Len(q) \in Nat /\ p[k] \in Seq(Span(f))
    BY <2>1
  <2>3. k \in 1..Len(q)
    BY <2>1, <2>2 DEF Grown
  <2>4. Holds(PackOf(f, q[k]), e.at, c)
    <3>1. CASE q[k] = p[k]
      BY <2>1, <3>1
    <3>2. ASSUME NEW r \in Span(f), q[k] = Append(p[k], r)
          PROVE  Holds(PackOf(f, q[k]), e.at, c)
      <4> DEFINE x == SubSeq(BytesOf(f), r.off + 1, r.off + r.size)
      <4>1. PackOf(f, p[k]) \in Seq(Byte) /\ PackOf(f, q[k]) = PackOf(f, p[k]) \o x
        BY <2>2, <3>2, PackOfAppend
      <4>2. x \in Seq(Byte)
        BY SliceType
      <4> HIDE DEF x, k
      <4>3. QED
        BY <2>1, <4>1, <4>2, HoldsConcat
    <3>3. QED
      BY <2>1, <3>1, <3>2 DEF Grown
  <2>5. QED
    BY <1>2, <2>3, <2>4 DEF Good
<1>3. QED
  BY <1>1, <1>2

\* The step's effect on the plan.
LEMMA FeedInv == PackingInv /\ Feed => PackingInv'
<1> SUFFICES ASSUME PackingInv, Feed PROVE PackingInv'
  OBVIOUS
<1> DEFINE c == file[fed + 1]
           r == [off |-> Offset(fed + 1), size |-> Size[c]]
           ranges == Append(cur, r)
<1>1. /\ file \in Seq(Chunks) /\ fed \in Nat /\ Len(file) \in Nat /\ fed < Len(file)
      /\ fed + 1 \in 1..Len(file) /\ c \in Chunks /\ fed' = fed + 1 /\ file' = file
      /\ phase' = phase /\ phase = "feed" /\ pointer' = pointer
  BY DEF PackingInv, TypeInv, Feed
<1>2. /\ newPacks \in Seq(Seq(Span(file))) /\ cur \in Seq(Span(file))
      /\ planned \in Seq(Entries) /\ Len(planned) = fed
      /\ DOMAIN seen \subseteq Chunks /\ seen \in [DOMAIN seen -> Entries]
      /\ jobs \in Seq([ranges : Seq(Span(file)), state : JobStates])
  BY DEF PackingInv, TypeInv
<1>3. Len(newPacks) \in Nat /\ Len(jobs) = Len(newPacks) /\ Open \in Seq(Seq(Span(file)))
      /\ Len(Open) = Len(newPacks) + 1 /\ Open[Len(newPacks) + 1] = cur
      /\ \A k \in 1..Len(newPacks) : Open[k] = newPacks[k]
  BY <1>2 DEF PackingInv, JobInv, Open
<1>4. r \in Span(file) /\ Holds(BytesOf(file), r.off, c) /\ r.size = Size[c] /\ Size[c] \in Nat \ {0}
  <2>1. (fed + 1) - 1 = fed
    BY <1>1
  <2>2. Holds(BytesOf(file), Offset(fed + 1), c)
    BY <1>1, FileHolds DEF Offset
  <2>3. Size[c] \in Nat \ {0}
    BY <1>1, BytesType
  <2>4. QED
    BY <2>2, <2>3 DEF Holds, Span
<1> HIDE DEF r, c
<1>5. ranges \in Seq(Span(file))
  BY <1>2, <1>4
<1>6. PackOf(file, cur) \in Seq(Byte) /\ PackOf(file, ranges) = PackOf(file, cur) \o Bytes(c)
  <2>1. SubSeq(BytesOf(file), r.off + 1, r.off + r.size) = Bytes(c)
    BY <1>1, <1>4, BytesOfType, HoldsSlice
  <2>2. QED
    BY <1>1, <1>2, <1>4, <2>1, PackOfAppend
<1>7. /\ curOffset = Len(PackOf(file, cur)) /\ curOffset \in Nat
      /\ Holds(PackOf(file, ranges), curOffset, c)
      /\ Len(PackOf(file, ranges)) = curOffset + Size[c]
  <2>1. curOffset = Len(PackOf(file, cur))
    BY DEF PackingInv, PlanInv
  <2>2. curOffset \in Nat
    BY <1>6, <2>1
  <2>3. Bytes(c) \in Seq(Byte) /\ Len(Bytes(c)) = Size[c]
    BY <1>1, BytesType
  <2>4. Holds(PackOf(file, cur) \o Bytes(c), Len(PackOf(file, cur)), c)
    BY <1>1, <1>6, HoldsLast, Zenon
  <2> DEFINE b == PackOf(file, cur)
             x == Bytes(c)
  <2>5. b \in Seq(Byte) /\ x \in Seq(Byte)
    BY <1>6, <2>3
  <2> HIDE DEF b, x
  <2>6. Len(b \o x) = Len(b) + Len(x)
    BY <2>5
  <2>7. QED
    BY <1>6, <2>1, <2>2, <2>3, <2>4, <2>6 DEF b, x
<1>8. SUFFICES TypeInv' /\ PlanInv' /\ JobInv'
  BY <1>1 DEF PackingInv, PointerInv
<1>9. ASSUME c \in DOMAIN Index \/ c \in DOMAIN seen,
             NEW e \in Entries, planned' = Append(planned, e), Good(file, e, c, Open),
             UNCHANGED <<newPacks, cur, curOffset, seen, jobs>>
      PROVE  TypeInv' /\ PlanInv' /\ JobInv'
  <2>1. TypeInv'
    BY <1>1, <1>2, <1>9 DEF TypeInv
  <2>2. PlanInv'
    <3>1. Open' = Open
      BY <1>9 DEF Open
    <3>2. \A i \in 1..(fed + 1) : planned'[i] = IF i = fed + 1 THEN e ELSE planned[i]
      BY <1>1, <1>2, <1>9
    <3>3. ASSUME NEW i \in 1..(fed + 1) PROVE Good(file, planned'[i], file[i], Open)
      <4>1. CASE i = fed + 1
        BY <1>9, <3>2, <4>1 DEF c
      <4>2. CASE i # fed + 1
        <5>1. i \in 1..fed /\ planned'[i] = planned[i]
          BY <1>1, <3>2, <4>2
        <5>2. QED
          BY <5>1 DEF PackingInv, PlanInv
      <4>3. QED
        BY <4>1, <4>2
    <3>4. QED
      BY <1>1, <1>9, <3>1, <3>3 DEF PackingInv, PlanInv
  <2>3. JobInv'
    BY <1>1, <1>9 DEF PackingInv, JobInv
  <2>4. QED
    BY <2>1, <2>2, <2>3
<1>10. CASE c \in DOMAIN Index
  <2>1. Reused(c) \in Entries /\ Good(file, Reused(c), c, Open)
    <3>1. /\ Index[c].at \in Nat /\ Index[c].at + Size[c] <= Len(Index[c].pack)
          /\ SubSeq(Index[c].pack, Index[c].at + 1, Index[c].at + Size[c]) = Bytes(c)
      BY <1>10, IndexAssumption
    <3>2. Index[c].pack \in PackData
      BY <1>10 DEF PackData
    <3>3. QED
      BY <1>1, <1>4, <3>1, <3>2 DEF Reused, Entries, Good
  <2>2. planned' = Append(planned, Reused(c)) /\ UNCHANGED <<newPacks, cur, curOffset, seen, jobs>>
    BY <1>10 DEF Feed, c
  <2>3. QED
    BY <1>9, <1>10, <2>1, <2>2
<1>11. CASE c \notin DOMAIN Index /\ c \in DOMAIN seen
  <2>1. seen[c] \in Entries /\ Good(file, seen[c], c, Open)
    BY <1>2, <1>11 DEF PackingInv, PlanInv
  <2>2. planned' = Append(planned, seen[c]) /\ UNCHANGED <<newPacks, cur, curOffset, seen, jobs>>
    BY <1>11 DEF Feed, c
  <2>3. QED
    BY <1>9, <1>11, <2>1, <2>2
<1>12. CASE c \notin DOMAIN Index /\ c \notin DOMAIN seen
  <2> DEFINE e == Fresh(c)
             close == CloseNow(ranges, curOffset + Size[c])
             mid == Append(newPacks, ranges)
  <2>1. /\ planned' = Append(planned, e)
        /\ seen' = [d \in DOMAIN seen \cup {c} |-> IF d = c THEN e ELSE seen[d]]
        /\ IF close
           THEN newPacks' = mid /\ jobs' = Append(jobs, Queued(ranges)) /\ cur' = <<>> /\ curOffset' = 0
           ELSE cur' = ranges /\ curOffset' = curOffset + Size[c] /\ UNCHANGED <<newPacks, jobs>>
    BY <1>12 DEF Feed, c, r
  <2>2. e \in Entries /\ e.size = Size[c] /\ e.at = curOffset /\ e.new = Len(newPacks) + 1
    BY <1>1, <1>3, <1>4, <1>7 DEF Fresh, Entries, PackData
  <2>3. mid \in Seq(Seq(Span(file))) /\ Len(mid) = Len(newPacks) + 1 /\ mid[Len(newPacks) + 1] = ranges
        /\ \A k \in 1..Len(newPacks) : mid[k] = newPacks[k]
    BY <1>2, <1>3, <1>5
  <2> HIDE DEF e, close, mid, ranges
  <2>4. /\ newPacks' \in Seq(Seq(Span(file))) /\ cur' \in Seq(Span(file)) /\ Open' \in Seq(Seq(Span(file)))
        /\ Len(Open') >= Len(mid) /\ \A k \in 1..Len(mid) : Open'[k] = mid[k]
    <3>1. CASE close
      <4>1. newPacks' = mid /\ cur' = <<>> /\ Open' = Append(mid, <<>>)
        BY <2>1, <3>1 DEF Open
      <4>2. QED
        BY <2>3, <4>1, <1>3
    <3>2. CASE ~close
      <4>1. newPacks' = newPacks /\ cur' = ranges /\ Open' = mid
        BY <2>1, <3>2 DEF Open, mid
      <4>2. QED
        BY <1>2, <1>5, <1>3, <2>3, <4>1 DEF ranges
    <3>3. QED
      BY <3>1, <3>2
  <2>5. Grown(file, Open, Open')
    <3>1. Len(Open) <= Len(Open')
      BY <1>3, <2>3, <2>4
    <3>2. ASSUME NEW k \in 1..Len(Open)
          PROVE  Open'[k] = Open[k] \/ \E x \in Span(file) : Open'[k] = Append(Open[k], x)
      <4>1. CASE k = Len(newPacks) + 1
        <5>1. Open'[k] = ranges /\ Open[k] = cur
          BY <1>3, <2>3, <2>4, <4>1
        <5>2. QED
          BY <1>4, <5>1 DEF ranges
      <4>2. CASE k # Len(newPacks) + 1
        <5>1. k \in 1..Len(newPacks) /\ k \in 1..Len(mid)
          BY <1>3, <2>3, <4>2
        <5>2. QED
          BY <1>3, <2>3, <2>4, <5>1
      <4>3. QED
        BY <4>1, <4>2
    <3>3. QED
      BY <3>1, <3>2 DEF Grown
  <2>6. Good(file, e, c, Open')
    <3>1. e.new \in 1..Len(Open') /\ e.new # 0 /\ Open'[e.new] = ranges
      BY <1>3, <2>2, <2>3, <2>4
    <3>2. QED
      BY <1>7, <2>2, <3>1 DEF Good, ranges
  <2>7. TypeInv'
    <3>1. jobs' \in Seq([ranges : Seq(Span(file)), state : JobStates])
      <4>1. Queued(ranges) \in [ranges : Seq(Span(file)), state : JobStates]
        BY <1>5 DEF Queued, JobStates, ranges
      <4> DEFINE J == [ranges : Seq(Span(file)), state : JobStates]
      <4> HIDE DEF J
      <4>2. jobs \in Seq(J) /\ Queued(ranges) \in J
        BY <1>2, <4>1 DEF J
      <4>3. jobs' = jobs \/ jobs' = Append(jobs, Queued(ranges))
        BY <2>1
      <4>4. jobs' \in Seq(J)
        BY <4>2, <4>3
      <4>5. QED
        BY <4>4 DEF J
    <3>2. planned' \in Seq(Entries) /\ Len(planned') = fed'
      BY <1>1, <1>2, <2>1, <2>2
    <3>3. DOMAIN seen' \subseteq Chunks /\ seen' \in [DOMAIN seen' -> Entries]
      BY <1>1, <1>2, <2>1, <2>2
    <3>4. fed' \in 0..Len(file)
      BY <1>1
    <3>5. QED
      BY <1>1, <2>4, <3>1, <3>2, <3>3, <3>4 DEF TypeInv
  <2>8. PlanInv'
    <3>1. curOffset' = Len(PackOf(file, cur'))
      <4>1. CASE close
        <5>1. cur' = <<>> /\ curOffset' = 0
          BY <2>1, <4>1
        <5>2. QED
          BY <5>1, PackOfEmpty
      <4>2. CASE ~close
        <5>1. cur' = ranges /\ curOffset' = curOffset + Size[c]
          BY <2>1, <4>2
        <5>2. QED
          BY <1>7, <5>1 DEF ranges
      <4>3. QED
        BY <4>1, <4>2
    <3>2. ASSUME NEW i \in 1..(fed + 1) PROVE Good(file, planned'[i], file[i], Open')
      <4>1. CASE i = fed + 1
        <5>1. planned'[i] = e
          BY <1>1, <1>2, <2>1, <4>1
        <5>2. QED
          BY <2>6, <4>1, <5>1 DEF c
      <4>2. CASE i # fed + 1
        <5>1. i \in 1..fed /\ planned'[i] = planned[i] /\ planned[i] \in Entries /\ file[i] \in Chunks
          BY <1>1, <1>2, <2>1, <4>2
        <5>2. Good(file, planned[i], file[i], Open)
          BY <5>1 DEF PackingInv, PlanInv
        <5>3. QED
          BY <1>1, <1>3, <2>4, <2>5, <5>1, <5>2, GoodGrows
      <4>3. QED
        BY <4>1, <4>2
    <3>3. ASSUME NEW d \in DOMAIN seen' PROVE Good(file, seen'[d], d, Open')
      <4>1. CASE d = c
        BY <2>1, <2>6, <4>1
      <4>2. CASE d # c
        <5>1. d \in DOMAIN seen /\ seen'[d] = seen[d] /\ seen[d] \in Entries /\ d \in Chunks
          BY <1>2, <2>1, <4>2
        <5>2. Good(file, seen[d], d, Open)
          BY <5>1 DEF PackingInv, PlanInv
        <5>3. QED
          BY <1>1, <1>3, <2>4, <2>5, <5>1, <5>2, GoodGrows
      <4>3. QED
        BY <4>1, <4>2
    <3>4. QED
      BY <1>1, <3>1, <3>2, <3>3 DEF PlanInv
  <2>9. JobInv'
    <3>1. phase' \notin {"collect", "done"}
      BY <1>1
    <3>2. CASE close
      <4>1. newPacks' = mid /\ jobs' = Append(jobs, Queued(ranges))
        BY <2>1, <3>2
      <4>2. Len(jobs') = Len(newPacks')
        BY <1>2, <1>3, <2>3, <4>1
      <4>3. ASSUME NEW j \in 1..Len(jobs') PROVE jobs'[j].ranges = newPacks'[j]
        <5>1. CASE j = Len(newPacks) + 1
          BY <1>2, <1>3, <2>3, <4>1, <5>1 DEF Queued
        <5>2. CASE j # Len(newPacks) + 1
          <6> DEFINE J == [ranges : Seq(Span(file)), state : JobStates]
                     q == Queued(ranges)
          <6>1. jobs \in Seq(J) /\ jobs' = Append(jobs, q) /\ Len(jobs) = Len(newPacks) /\ Len(newPacks) \in Nat
            BY <1>2, <1>3, <4>1
          <6> HIDE DEF J, q
          <6>2. Len(jobs') = Len(jobs) + 1
            BY <6>1
          <6>3. j \in 1..Len(newPacks)
            BY <5>2, <6>1, <6>2
          <6>4. jobs'[j] = jobs[j]
            BY <6>1, <6>3
          <6>5. newPacks'[j] = newPacks[j]
            BY <2>3, <4>1, <6>3
          <6>6. QED
            BY <1>3, <6>3, <6>4, <6>5 DEF PackingInv, JobInv
        <5>3. QED
          BY <5>1, <5>2
      <4>4. QED
        BY <3>1, <4>2, <4>3 DEF JobInv
    <3>3. CASE ~close
      BY <2>1, <3>1, <3>3 DEF PackingInv, JobInv
    <3>4. QED
      BY <3>2, <3>3
  <2>10. QED
    BY <2>7, <2>8, <2>9
<1>13. QED
  BY <1>10, <1>11, <1>12

LEMMA SliceOfOne ==
  ASSUME NEW T, NEW s \in Seq(T), NEW k \in 1..Len(s)
  PROVE  SubSeq(s, k, k) = <<s[k]>>
<1>1. k \in Int /\ k - k + 1 = 1 /\ k + 1 - 1 = k /\ s[k] \in T
  OBVIOUS
<1>2. \A i \in k..k : s[i] \in T
  BY <1>1
<1> DEFINE d == SubSeq(s, k, k)
<1>3. d \in Seq(T) /\ Len(d) = 1 /\ d[1] = s[k]
  BY <1>1, <1>2, SubSeqProperties
<1> HIDE DEF d
<1>4. d = <<s[k]>>
  BY <1>3
<1>5. QED
  BY <1>4 DEF d

LEMMA ConcatOne ==
  ASSUME NEW T, NEW s \in Seq(T), NEW x \in T
  PROVE  /\ s \o <<x>> \in Seq(T) /\ Len(s \o <<x>>) = Len(s) + 1
         /\ (s \o <<x>>)[Len(s) + 1] = x
         /\ \A j \in 1..Len(s) : (s \o <<x>>)[j] = s[j]
<1>1. <<x>> \in Seq(T) /\ Len(<<x>>) = 1 /\ <<x>>[1] = x /\ Len(s) \in Nat
  OBVIOUS
<1>2. QED
  BY <1>1

\* The end of the stream closes the open pack and submits it.
LEMMA FinishInv == PackingInv /\ Finish => PackingInv'
<1> SUFFICES ASSUME PackingInv, Finish PROVE PackingInv'
  OBVIOUS
<1> DEFINE J == [ranges : Seq(Span(file)), state : JobStates]
<1>1. /\ file \in Seq(Chunks) /\ fed = Len(file) /\ Len(file) \in Nat /\ fed' = fed /\ file' = file
      /\ phase' = "collect" /\ cur' = <<>> /\ curOffset' = 0 /\ UNCHANGED <<planned, seen, pointer>>
  BY DEF PackingInv, TypeInv, Finish
<1>2. /\ newPacks \in Seq(Seq(Span(file))) /\ cur \in Seq(Span(file))
      /\ planned \in Seq(Entries) /\ Len(planned) = fed
      /\ DOMAIN seen \subseteq Chunks /\ seen \in [DOMAIN seen -> Entries]
      /\ jobs \in Seq(J)
  BY DEF PackingInv, TypeInv
<1>3. Len(newPacks) \in Nat /\ Len(jobs) = Len(newPacks) /\ Open \in Seq(Seq(Span(file)))
      /\ Len(Open) = Len(newPacks) + 1 /\ Open[Len(newPacks) + 1] = cur
      /\ \A k \in 1..Len(newPacks) : Open[k] = newPacks[k] /\ jobs[k].ranges = newPacks[k]
  BY <1>2 DEF PackingInv, JobInv, Open
<1>4. newPacks' = IF cur = <<>> THEN newPacks ELSE Open
  BY DEF Finish, Open
<1>5. newPacks' \in Seq(Seq(Span(file))) /\ Open' \in Seq(Seq(Span(file))) /\ Open' = Append(newPacks', <<>>)
  BY <1>1, <1>2, <1>3, <1>4 DEF Open
<1>6. Grown(file, Open, Open')
  <2>1. CASE cur = <<>>
    BY <1>1, <1>3, <1>4, <2>1 DEF Grown, Open
  <2>2. CASE cur # <<>>
    <3>1. Open' = Append(Open, <<>>)
      BY <1>4, <1>5, <2>2
    <3>2. QED
      BY <1>3, <3>1 DEF Grown
  <2>3. QED
    BY <2>1, <2>2
<1>7. \A e \in Entries, c \in Chunks : Good(file, e, c, Open) => Good(file, e, c, Open')
  BY <1>1, <1>3, <1>5, <1>6, GoodGrows
<1>8. PlanInv'
  <2>1. curOffset' = Len(PackOf(file, cur'))
    BY <1>1, PackOfEmpty
  <2>2. ASSUME NEW i \in 1..fed PROVE Good(file, planned[i], file[i], Open')
    <3>1. planned[i] \in Entries /\ file[i] \in Chunks
      BY <1>1, <1>2
    <3>2. QED
      BY <1>7, <3>1 DEF PackingInv, PlanInv
  <2>3. ASSUME NEW c \in DOMAIN seen PROVE Good(file, seen[c], c, Open')
    <3>1. seen[c] \in Entries /\ c \in Chunks
      BY <1>2
    <3>2. QED
      BY <1>7, <3>1 DEF PackingInv, PlanInv
  <2>4. QED
    BY <1>1, <2>1, <2>2, <2>3 DEF PlanInv
<1>9. jobs' \in Seq(J) /\ Len(jobs') = Len(newPacks') /\ \A j \in 1..Len(jobs') : jobs'[j].ranges = newPacks'[j]
  <2> DEFINE rest == Rest(newPacks')
             more == [i \in DOMAIN rest |-> Queued(rest[i])]
  <2>1. jobs' = jobs \o more
    BY DEF Finish
  <2>2. CASE cur = <<>>
    <3>1. newPacks' = newPacks
      BY <1>4, <2>2
    <3>2. rest = <<>>
      BY <1>3, <3>1, SubSeqEmpty DEF Rest
    <3>3. more = <<>>
      BY <3>2
    <3> HIDE DEF J, more
    <3>4. jobs' = jobs
      BY <1>2, <2>1, <3>3
    <3>5. QED
      BY <1>2, <1>3, <3>1, <3>4
  <2>3. CASE cur # <<>>
    <3>1. newPacks' = Open
      BY <1>4, <2>3
    <3>2. rest = <<cur>>
      <4>1. rest = SubSeq(Open, Len(newPacks) + 1, Len(newPacks) + 1)
        BY <1>3, <3>1 DEF Rest
      <4>2. Len(newPacks) + 1 \in 1..Len(Open)
        BY <1>3
      <4>3. QED
        BY <1>3, <4>1, <4>2, SliceOfOne
    <3>3. more = <<Queued(cur)>>
      BY <3>2
    <3>4. Queued(cur) \in J /\ Queued(cur).ranges = cur
      BY <1>2 DEF Queued, JobStates
    <3> HIDE DEF J, more
    <3>5. jobs' = jobs \o <<Queued(cur)>>
      BY <2>1, <3>3
    <3>6. jobs' \in Seq(J) /\ Len(jobs') = Len(newPacks) + 1 /\ jobs'[Len(newPacks) + 1] = Queued(cur)
          /\ \A j \in 1..Len(newPacks) : jobs'[j] = jobs[j]
      <4> DEFINE q == Queued(cur)
      <4>1. jobs \in Seq(J) /\ q \in J /\ jobs' = jobs \o <<q>>
        BY <1>2, <3>4, <3>5
      <4> HIDE DEF q
      <4>2. /\ jobs \o <<q>> \in Seq(J) /\ Len(jobs \o <<q>>) = Len(jobs) + 1
            /\ (jobs \o <<q>>)[Len(jobs) + 1] = q
            /\ \A j \in 1..Len(jobs) : (jobs \o <<q>>)[j] = jobs[j]
        BY <4>1, ConcatOne
      <4>3. QED
        BY <1>3, <4>1, <4>2 DEF q
    <3>7. ASSUME NEW j \in 1..(Len(newPacks) + 1) PROVE jobs'[j].ranges = Open[j]
      <4>1. CASE j = Len(newPacks) + 1
        BY <1>3, <3>4, <3>6, <4>1
      <4>2. CASE j # Len(newPacks) + 1
        BY <1>3, <3>6, <4>2
      <4>3. QED
        BY <4>1, <4>2
    <3>8. QED
      BY <1>3, <3>1, <3>6, <3>7
  <2>4. QED
    BY <2>2, <2>3
<1>10. TypeInv'
  BY <1>1, <1>2, <1>5, <1>9 DEF TypeInv
<1>11. JobInv' /\ PointerInv'
  BY <1>1, <1>9 DEF JobInv, PointerInv
<1>12. QED
  BY <1>8, <1>10, <1>11 DEF PackingInv

\* Every chunk of a published pointer leads to the chunk's bytes.
LEMMA PublishInv == PackingInv /\ Publish => PackingInv'
<1> SUFFICES ASSUME PackingInv, Publish PROVE PackingInv'
  OBVIOUS
<1>1. /\ file \in Seq(Chunks) /\ fed = Len(file) /\ Len(file) \in Nat /\ cur = <<>>
      /\ phase = "collect" /\ phase' = "done" /\ UNCHANGED <<file, fed, plan, jobs>>
      /\ pointer' = Resolve(Digests)
  BY DEF PackingInv, TypeInv, JobInv, Publish
<1>2. UNCHANGED <<planned, newPacks, cur, curOffset, seen>>
  BY <1>1 DEF plan
<1>3. Open' = Open
  BY <1>2 DEF Open
<1>4. TypeInv' /\ PlanInv' /\ JobInv'
  BY <1>1, <1>2, <1>3 DEF PackingInv, TypeInv, PlanInv, JobInv
<1>5. planned \in Seq(Entries) /\ Len(planned) = Len(file) /\ DOMAIN planned = 1..Len(file)
      /\ newPacks \in Seq(Seq(Span(file))) /\ Len(newPacks) \in Nat
      /\ DOMAIN jobs = 1..Len(newPacks) /\ \A j \in 1..Len(newPacks) : jobs[j].ranges = newPacks[j]
  BY <1>1 DEF PackingInv, TypeInv, JobInv
<1>6. ASSUME NEW i \in 1..Len(file)
      PROVE  /\ pointer'[i].at + pointer'[i].size <= Len(pointer'[i].pack)
             /\ SubSeq(pointer'[i].pack, pointer'[i].at + 1, pointer'[i].at + pointer'[i].size)
                  = Bytes(file[i])
  <2> DEFINE e == planned[i]
             c == file[i]
  <2>1. e \in Entries /\ c \in Chunks /\ Good(file, e, c, Open)
    BY <1>1, <1>5 DEF PackingInv, PlanInv
  <2>2. /\ pointer'[i].at = e.at /\ pointer'[i].size = e.size
        /\ pointer'[i].pack = IF e.new = 0 THEN e.pack ELSE Digests[e.new]
    <3>1. i \in DOMAIN planned
      BY <1>5
    <3>2. pointer'[i] = [e EXCEPT !.pack = IF e.new = 0 THEN e.pack ELSE Digests[e.new]]
      BY <1>1, <3>1 DEF Resolve
    <3>3. QED
      BY <2>1, <3>2 DEF Entries
  <2> HIDE DEF e, c
  <2>3. CASE e.new = 0
    BY <2>1, <2>2, <2>3 DEF Good, c
  <2>4. CASE e.new # 0
    <3>1. e.new \in 1..Len(Open) /\ Holds(PackOf(file, Open[e.new]), e.at, c) /\ e.size = Size[c]
      BY <2>1, <2>4 DEF Good
    <3>2. e.new \in 1..Len(newPacks)
      <4>1. SUFFICES ASSUME e.new = Len(newPacks) + 1 PROVE FALSE
        BY <1>5, <3>1 DEF Open
      <4>2. Open[e.new] = <<>>
        BY <1>1, <1>5, <4>1 DEF Open
      <4>3. PackOf(file, Open[e.new]) = <<>>
        BY <4>2, PackOfEmpty
      <4>4. Size[c] \in Nat \ {0} /\ e.at \in Nat
        BY <2>1, BytesType DEF Entries
      <4>5. QED
        BY <3>1, <4>3, <4>4 DEF Holds
    <3>3. Open[e.new] = newPacks[e.new] /\ newPacks[e.new] \in Seq(Span(file))
      BY <1>5, <3>2 DEF Open
    <3>4. Digests[e.new] = PackOf(file, newPacks[e.new])
      BY <1>5, <3>2 DEF Digests, PackBytes, PackOf
    <3>5. PackOf(file, newPacks[e.new]) \in Seq(Byte)
      BY <1>1, <3>3, PackOfType
    <3>6. e.at + e.size <= Len(Digests[e.new])
      BY <3>1, <3>3, <3>4 DEF Holds
    <3>7. SubSeq(Digests[e.new], e.at + 1, e.at + e.size) = Bytes(c)
      BY <2>1, <3>1, <3>3, <3>4, <3>5, HoldsSlice
    <3>8. QED
      BY <2>2, <2>4, <3>6, <3>7 DEF c
  <2>5. QED
    BY <2>3, <2>4
<1>7. DOMAIN pointer' = 1..Len(file)
  BY <1>1, <1>5 DEF Resolve
<1>8. QED
  BY <1>1, <1>4, <1>6, <1>7 DEF PackingInv, PointerInv

\* A step that changes states of the futures only.
LEMMA StatesInv ==
  ASSUME PackingInv, phase # "done" \/ phase' = "done", phase' # "done" \/ phase = "done",
         phase' = "collect" => phase = "collect",
         UNCHANGED <<file, fed, plan, pointer>>,
         jobs' \in Seq([ranges : Seq(Span(file)), state : JobStates]), Len(jobs') = Len(jobs),
         \A j \in 1..Len(jobs) : jobs'[j].ranges = jobs[j].ranges
  PROVE  PackingInv'
<1>1. UNCHANGED <<file, fed, planned, newPacks, cur, curOffset, seen, pointer>>
  BY DEF plan
<1>2. Open' = Open
  BY <1>1 DEF Open
<1>3. TypeInv' /\ PlanInv'
  BY <1>1, <1>2 DEF PackingInv, TypeInv, PlanInv
<1>4. JobInv' /\ PointerInv'
  BY <1>1 DEF PackingInv, JobInv, PointerInv
<1>5. QED
  BY <1>3, <1>4 DEF PackingInv

\* The states a step of the pool leaves.
LEMMA SetJobType ==
  ASSUME PackingInv, NEW j \in DOMAIN jobs, NEW st \in JobStates, SetJob(j, st)
  PROVE  /\ jobs' \in Seq([ranges : Seq(Span(file)), state : JobStates]) /\ Len(jobs') = Len(jobs)
         /\ \A k \in 1..Len(jobs) : /\ jobs'[k].ranges = jobs[k].ranges
                                    /\ jobs'[k].state = IF k = j THEN st ELSE jobs[k].state
<1> DEFINE J == [ranges : Seq(Span(file)), state : JobStates]
           e == [jobs[j] EXCEPT !.state = st]
<1>1. jobs \in Seq(J) /\ jobs' = [jobs EXCEPT ![j] = e] /\ j \in 1..Len(jobs)
  BY DEF PackingInv, TypeInv, SetJob
<1>2. jobs[j] \in J
  <2> HIDE DEF J
  <2>1. QED
    BY <1>1
<1>3. e \in J /\ e.ranges = jobs[j].ranges /\ e.state = st
  BY <1>2
<1> HIDE DEF J, e
<1>4. jobs' \in Seq(J) /\ Len(jobs') = Len(jobs)
      /\ \A k \in 1..Len(jobs) : jobs'[k] = IF k = j THEN e ELSE jobs[k]
  BY <1>1, <1>3, ExceptSeq
<1>5. QED
  BY <1>3, <1>4 DEF J

LEMMA CancelType ==
  ASSUME PackingInv, CancelQueued
  PROVE  /\ jobs' \in Seq([ranges : Seq(Span(file)), state : JobStates]) /\ Len(jobs') = Len(jobs)
         /\ \A k \in 1..Len(jobs) :
              /\ jobs'[k].ranges = jobs[k].ranges
              /\ jobs'[k].state = IF jobs[k].state = "queued" THEN "cancelled" ELSE jobs[k].state
<1> DEFINE J == [ranges : Seq(Span(file)), state : JobStates]
           n == Len(jobs)
           e(k) == IF jobs[k].state = "queued" THEN [jobs[k] EXCEPT !.state = "cancelled"] ELSE jobs[k]
<1>1. jobs \in Seq(J) /\ n \in Nat /\ DOMAIN jobs = 1..n /\ \A k \in 1..n : jobs[k] \in J
  <2>1. jobs \in Seq(J)
    BY DEF PackingInv, TypeInv
  <2> HIDE DEF J
  <2>2. QED
    BY <2>1
<1>2. jobs' = [k \in 1..n |-> e(k)]
  BY <1>1 DEF CancelQueued, InState
<1>3. ASSUME NEW k \in 1..n
      PROVE  e(k) \in J /\ e(k).ranges = jobs[k].ranges
             /\ e(k).state = IF jobs[k].state = "queued" THEN "cancelled" ELSE jobs[k].state
  BY <1>1 DEF JobStates
<1> HIDE DEF J, e, n
<1>4. jobs' \in Seq(J) /\ Len(jobs') = n /\ \A k \in 1..n : jobs'[k] = e(k)
  BY <1>1, <1>2, <1>3
<1>5. QED
  BY <1>3, <1>4 DEF J, n

LEMMA NextInv == PackingInv /\ [Next]_vars => PackingInv'
<1> SUFFICES ASSUME PackingInv, [Next]_vars PROVE PackingInv'
  OBVIOUS
<1> DEFINE J == [ranges : Seq(Span(file)), state : JobStates]
<1>1. jobs \in Seq(J)
  BY DEF PackingInv, TypeInv
<1>2. CASE Feed
  BY <1>2, FeedInv
<1>3. CASE Finish
  BY <1>3, FinishInv
<1>4. CASE Publish
  BY <1>4, PublishInv
<1>5. CASE StreamFails
  BY <1>5, CancelType, StatesInv DEF StreamFails
<1>6. CASE UploadFails
  BY <1>6, CancelType, StatesInv DEF UploadFails
<1>7. CASE Joined \/ PointerFails
  BY <1>1, <1>7, StatesInv DEF Joined, PointerFails
<1>8. ASSUME NEW j \in DOMAIN jobs, StartUpload(j) PROVE PackingInv'
  <2>1. "running" \in JobStates
    BY DEF JobStates
  <2>2. QED
    BY <1>8, <2>1, SetJobType, StatesInv DEF StartUpload
<1>9. ASSUME NEW j \in DOMAIN jobs, EndUpload(j) PROVE PackingInv'
  <2>1. "done" \in JobStates /\ "failed" \in JobStates
    BY DEF JobStates
  <2>2. QED
    BY <1>9, <2>1, SetJobType, StatesInv DEF EndUpload
<1>10. CASE Over \/ UNCHANGED vars
  BY <1>1, <1>10, StatesInv DEF Over, vars
<1>11. QED
  BY <1>2, <1>3, <1>4, <1>5, <1>6, <1>7, <1>8, <1>9, <1>10 DEF Next

-----------------------------------------------------------------------------
(* The properties. *)

\* The slices of the pointer are the chunks of the file, one by one.
LEMMA InvReadsBack == PackingInv => ReadsBack
<1> SUFFICES ASSUME PackingInv, phase = "done" PROVE ReadsBack
  BY DEF ReadsBack
<1> DEFINE a == [i \in DOMAIN pointer |->
                  SubSeq(pointer[i].pack, pointer[i].at + 1, pointer[i].at + pointer[i].size)]
           b == [i \in DOMAIN file |-> Bytes(file[i])]
<1>1. DOMAIN file = 1..Len(file)
  BY DEF PackingInv, TypeInv
<1>2. a = b
  BY <1>1 DEF PackingInv, PointerInv
<1>3. \A i \in DOMAIN pointer : pointer[i].at + pointer[i].size <= Len(pointer[i].pack)
  BY DEF PackingInv, PointerInv
<1> HIDE DEF a, b
<1>4. FlattenSeq(a) = FlattenSeq(b)
  BY <1>2
<1>5. QED
  BY <1>3, <1>4 DEF a, b, ReadsBack, BytesOf

(***************************************************************************)
(* A published pointer reads back as the file, for every file, pack size,  *)
(* pool size and truthful index: the dedup within the file, the reuse of   *)
(* earlier packs, the cuts of the packs and the order in which the uploads *)
(* end do not matter (PackAccumulator, resolve_pointer_chunks).            *)
(***************************************************************************)
THEOREM PointerReadsBack == Spec => []ReadsBack
<1>1. Init => PackingInv
  BY InitInv
<1>2. PackingInv /\ [Next]_vars => PackingInv'
  BY NextInv
<1>3. PackingInv => ReadsBack
  BY InvReadsBack
<1>4. QED
  BY <1>1, <1>2, <1>3, PTL DEF Spec

LEMMA NextEnd == PackingInv /\ EndInv /\ [Next]_vars => EndInv'
<1> SUFFICES ASSUME PackingInv, EndInv, [Next]_vars PROVE EndInv'
  OBVIOUS
<1>1. DOMAIN jobs = 1..Len(jobs) /\ Len(jobs) \in Nat
  BY DEF PackingInv, TypeInv
<1>2. DOMAIN jobs' = 1..Len(jobs')
  <2>1. PackingInv'
    BY NextInv
  <2>2. QED
    BY <2>1 DEF PackingInv, TypeInv
<1>3. CASE Feed
  BY <1>3 DEF Feed, EndInv
<1>4. CASE Finish
  BY <1>4 DEF Finish, EndInv
<1>5. CASE Publish \/ PointerFails
  BY <1>5 DEF Publish, PointerFails, EndInv, InState
<1>6. ASSUME CancelQueued, phase' = "unwind", pointer' = pointer, phase # "done"
      PROVE  EndInv'
  <2>1. \A k \in DOMAIN jobs' : jobs'[k].state # "queued"
    BY <1>1, <1>2, <1>6, CancelType
  <2>2. QED
    BY <1>6, <2>1 DEF EndInv, InState
<1>7. CASE StreamFails \/ UploadFails
  BY <1>6, <1>7 DEF StreamFails, UploadFails
<1>8. CASE Joined
  BY <1>8 DEF Joined, EndInv, InState
<1>9. ASSUME NEW j \in DOMAIN jobs, NEW st \in JobStates \ {"queued"}, SetJob(j, st),
             phase' = phase, pointer' = pointer,
             (jobs[j].state = "queued" /\ st = "running") \/ jobs[j].state = "running",
             st = "running" => jobs[j].state = "queued"
      PROVE  EndInv'
  <2>1. Len(jobs') = Len(jobs)
        /\ \A k \in 1..Len(jobs) : jobs'[k].state = IF k = j THEN st ELSE jobs[k].state
    BY <1>9, SetJobType
  <2>2. phase # "done"
    BY <1>9 DEF EndInv, InState
  <2>3. QED
    BY <1>1, <1>2, <1>9, <2>1, <2>2 DEF EndInv, InState
<1>10. ASSUME NEW j \in DOMAIN jobs, StartUpload(j) \/ EndUpload(j) PROVE EndInv'
  <2>1. {"running", "done", "failed"} \subseteq JobStates \ {"queued"}
    BY DEF JobStates
  <2>2. QED
    BY <1>9, <1>10, <2>1 DEF StartUpload, EndUpload, InState
<1>11. CASE Over \/ UNCHANGED vars
  BY <1>11 DEF Over, vars, EndInv, InState
<1>12. QED
  BY <1>3, <1>4, <1>5, <1>7, <1>8, <1>10, <1>11 DEF Next

(***************************************************************************)
(* Once an error leaves _upload_file_chunked_v2 no upload runs or waits,   *)
(* and a pointer is only ever written after every pack is in (the          *)
(* with-block of the pool, f.cancel()).                                    *)
(***************************************************************************)
THEOREM FailureLeavesNothing == Spec => []NothingLeftBehind
<1>1. Init => PackingInv /\ EndInv
  BY InitInv DEF Init, EndInv
<1>2. PackingInv /\ EndInv /\ [Next]_vars => (PackingInv /\ EndInv)'
  BY NextInv, NextEnd
<1>3. EndInv => NothingLeftBehind
  BY DEF EndInv, NothingLeftBehind
<1>4. QED
  BY <1>1, <1>2, <1>3, PTL DEF Spec

-----------------------------------------------------------------------------
(***************************************************************************)
(* The upload of a pack (SingleFlight), which a job of the pool calls, for *)
(* any number of threads, calls, faults and losses.  Its state is its own: *)
(* the two specifications share no variable.                               *)
(***************************************************************************)

FlightTypes ==
  /\ pc \in [Threads -> {"idle", "lock", "head", "put", "unlock", "drop"}]
  /\ mine \in [Threads -> Nat] /\ retries \in [Threads -> Nat]
  /\ result \in [Threads -> {"ok", "error"}]
  /\ calls \in Nat /\ entry \in 0..calls /\ landed \subseteq 1..calls
  /\ completed \in BOOLEAN /\ stored \in BOOLEAN
  /\ bodies \in Nat /\ faults \in Nat /\ losses \in Nat

\* A call under way has a slot, no newer than the last call; the map's entry is
\* the slot of a call under way.
Slots ==
  /\ \A t \in Threads : pc[t] # "idle" => mine[t] \in 1..calls
  /\ entry # 0 => \E t \in Threads : pc[t] # "idle" /\ mine[t] = entry

\* The flag of a slot in use tells of a pack that is still there.
Landed == \A t \in Threads : pc[t] # "idle" /\ mine[t] \in landed => stored

\* The lock of a slot has one holder.
OneHolder ==
  \A t, u \in Threads :
    /\ pc[t] \in {"head", "put", "unlock"} /\ pc[u] \in {"head", "put", "unlock"}
    /\ mine[t] = mine[u]
    => t = u

\* While nothing has failed: before the first body every call shares the
\* entry's slot and none has ended; after it nobody sends another.
Quiet ==
  /\ \A t \in Threads : pc[t] \in {"unlock", "drop"} => result[t] = "ok"
  /\ bodies = 0 => ~stored /\ \A t \in Threads : pc[t] # "idle" => mine[t] = entry
  /\ bodies # 0 => stored /\ completed /\ bodies = 1 /\ \A t \in Threads : pc[t] # "put"

\* The inductive invariant.
FlightInv ==
  /\ FlightTypes /\ Slots /\ Landed /\ OkMeansStored /\ OneHolder
  /\ faults = 0 => Quiet

-----------------------------------------------------------------------------

\* A new slot has no flag yet; an old one is in use.
LEMMA SlotForInv ==
  ASSUME FlightInv, NEW t \in Threads, SlotFor(t)
  PROVE  FlightInv'
<1> USE DEF FlightInv, SlotFor, Go, Return, Fault
<1>1. FlightTypes'
  BY DEF FlightTypes, Slots
<1>2. Slots'
  BY DEF FlightTypes, Slots
<1>3. Landed'
  BY DEF FlightTypes, Slots, Landed
<1>4. OkMeansStored'
  BY DEF FlightTypes, Slots, Landed, OkMeansStored
<1>5. OneHolder'
  BY DEF FlightTypes, Slots, OneHolder, Held
<1>6. ASSUME faults' = 0 PROVE Quiet'
  BY <1>6 DEF FlightTypes, Slots, Landed, OneHolder, OkMeansStored, Quiet
<1>7. QED
  BY <1>1, <1>2, <1>3, <1>4, <1>5, <1>6

\* The lock is free; a flag that is set tells the truth.
LEMMA LockInv ==
  ASSUME FlightInv, NEW t \in Threads, Lock(t)
  PROVE  FlightInv'
<1> USE DEF FlightInv, Lock, Go, Return, Fault
<1>1. FlightTypes'
  BY DEF FlightTypes, Slots
<1>2. Slots'
  BY DEF FlightTypes, Slots
<1>3. Landed'
  BY DEF FlightTypes, Slots, Landed
<1>4. OkMeansStored'
  BY DEF FlightTypes, Slots, Landed, OkMeansStored
<1>5. OneHolder'
  BY DEF FlightTypes, Slots, OneHolder, Held
<1>6. ASSUME faults' = 0 PROVE Quiet'
  BY <1>6 DEF FlightTypes, Slots, Landed, OneHolder, OkMeansStored, Quiet
<1>7. QED
  BY <1>1, <1>2, <1>3, <1>4, <1>5, <1>6

\* The registry's own answer.
LEMMA HeadInv ==
  ASSUME FlightInv, NEW t \in Threads, HeadPack(t)
  PROVE  FlightInv'
<1> USE DEF FlightInv, HeadPack, Go, Return, Fault
<1>1. FlightTypes'
  BY DEF FlightTypes, Slots
<1>2. Slots'
  BY DEF FlightTypes, Slots
<1>3. Landed'
  BY DEF FlightTypes, Slots, Landed
<1>4. OkMeansStored'
  BY DEF FlightTypes, Slots, Landed, OkMeansStored
<1>5. OneHolder'
  BY DEF FlightTypes, Slots, OneHolder, Held
<1>6. ASSUME faults' = 0 PROVE Quiet'
  BY <1>6 DEF FlightTypes, Slots, Landed, OneHolder, OkMeansStored, Quiet
<1>7. QED
  BY <1>1, <1>2, <1>3, <1>4, <1>5, <1>6

\* An unknown answer, or an error.
LEMMA HeadFailsInv ==
  ASSUME FlightInv, NEW t \in Threads, HeadFails(t)
  PROVE  FlightInv'
<1> USE DEF FlightInv, HeadFails, Go, Return, Fault
<1>1. FlightTypes'
  BY DEF FlightTypes, Slots
<1>2. Slots'
  BY DEF FlightTypes, Slots
<1>3. Landed'
  BY DEF FlightTypes, Slots, Landed
<1>4. OkMeansStored'
  BY DEF FlightTypes, Slots, Landed, OkMeansStored
<1>5. OneHolder'
  BY DEF FlightTypes, Slots, OneHolder, Held
<1>6. ASSUME faults' = 0 PROVE Quiet'
  BY <1>6 DEF FlightTypes, Slots, Landed, OneHolder, OkMeansStored, Quiet
<1>7. QED
  BY <1>1, <1>2, <1>3, <1>4, <1>5, <1>6

\* The leader stores the pack.
LEMMA PutOkInv ==
  ASSUME FlightInv, NEW t \in Threads, PutOk(t)
  PROVE  FlightInv'
<1> USE DEF FlightInv, PutOk, Go, Return, Fault
<1>1. FlightTypes'
  <2>1. completed' \in BOOLEAN /\ stored' \in BOOLEAN
    BY DEF FlightTypes
  <2>2. pc' \in [Threads -> {"idle", "lock", "head", "put", "unlock", "drop"}]
    BY DEF FlightTypes
  <2>3. result' \in [Threads -> {"ok", "error"}] /\ retries' \in [Threads -> Nat]
    BY DEF FlightTypes
  <2>4. bodies' \in Nat /\ faults' \in Nat /\ landed' \subseteq 1..calls'
    <3>1. mine[t] \in 1..calls /\ landed \subseteq 1..calls
      BY DEF FlightTypes, Slots
    <3>2. landed' = landed \cup {mine[t]} /\ calls' = calls
      OBVIOUS
    <3>3. bodies' \in Nat /\ faults' \in Nat
      BY DEF FlightTypes
    <3>4. QED
      BY <3>1, <3>2, <3>3
  <2>5. QED
    BY <2>1, <2>2, <2>3, <2>4 DEF FlightTypes
<1>2. Slots'
  BY DEF FlightTypes, Slots
<1>3. Landed'
  BY DEF FlightTypes, Slots, Landed
<1>4. OkMeansStored'
  BY DEF FlightTypes, Slots, Landed, OkMeansStored
<1>5. OneHolder'
  BY DEF FlightTypes, Slots, OneHolder, Held
<1>6. ASSUME faults' = 0 PROVE Quiet'
  BY <1>6 DEF FlightTypes, Slots, Landed, OneHolder, OkMeansStored, Quiet
<1>7. QED
  BY <1>1, <1>2, <1>3, <1>4, <1>5, <1>6

\* A failed attempt, which may have stored the pack.
LEMMA PutBrokenInv ==
  ASSUME FlightInv, NEW t \in Threads, PutBroken(t)
  PROVE  FlightInv'
<1> USE DEF FlightInv, PutBroken, Go, Return, Fault
<1>1. FlightTypes'
  <2>1. completed' \in BOOLEAN /\ stored' \in BOOLEAN
    BY DEF FlightTypes
  <2>2. pc' \in [Threads -> {"idle", "lock", "head", "put", "unlock", "drop"}]
    BY DEF FlightTypes
  <2>3. result' \in [Threads -> {"ok", "error"}] /\ retries' \in [Threads -> Nat]
    BY DEF FlightTypes
  <2>4. bodies' \in Nat /\ faults' \in Nat /\ landed' \subseteq 1..calls'
    BY DEF FlightTypes, Slots
  <2>5. QED
    BY <2>1, <2>2, <2>3, <2>4 DEF FlightTypes
<1>2. Slots'
  BY DEF FlightTypes, Slots
<1>0. stored => stored'
  BY DEF FlightTypes
<1>3. Landed'
  BY <1>0 DEF FlightTypes, Slots, Landed
<1>4. OkMeansStored'
  <2>1. \A u \in Threads : pc'[u] \in {"unlock", "drop"} /\ result'[u] = "ok" =>
          pc[u] \in {"unlock", "drop"} /\ result[u] = "ok"
    BY DEF FlightTypes
  <2>2. QED
    BY <1>0, <2>1 DEF OkMeansStored
<1>5. OneHolder'
  BY DEF FlightTypes, Slots, OneHolder, Held
<1>6. ASSUME faults' = 0 PROVE Quiet'
  BY <1>6 DEF FlightTypes, Slots, Landed, OneHolder, OkMeansStored, Quiet
<1>7. QED
  BY <1>1, <1>2, <1>3, <1>4, <1>5, <1>6

\* The upload gives up.
LEMMA PutRefusedInv ==
  ASSUME FlightInv, NEW t \in Threads, PutRefused(t)
  PROVE  FlightInv'
<1> USE DEF FlightInv, PutRefused, Go, Return, Fault
<1>1. FlightTypes'
  BY DEF FlightTypes, Slots
<1>2. Slots'
  BY DEF FlightTypes, Slots
<1>3. Landed'
  BY DEF FlightTypes, Slots, Landed
<1>4. OkMeansStored'
  BY DEF FlightTypes, Slots, Landed, OkMeansStored
<1>5. OneHolder'
  BY DEF FlightTypes, Slots, OneHolder, Held
<1>6. ASSUME faults' = 0 PROVE Quiet'
  BY <1>6 DEF FlightTypes, Slots, Landed, OneHolder, OkMeansStored, Quiet
<1>7. QED
  BY <1>1, <1>2, <1>3, <1>4, <1>5, <1>6

\* The guard goes.
LEMMA UnlockInv ==
  ASSUME FlightInv, NEW t \in Threads, Unlock(t)
  PROVE  FlightInv'
<1> USE DEF FlightInv, Unlock, Go, Return, Fault
<1>1. FlightTypes'
  BY DEF FlightTypes, Slots
<1>2. Slots'
  BY DEF FlightTypes, Slots
<1>3. Landed'
  BY DEF FlightTypes, Slots, Landed
<1>4. OkMeansStored'
  BY DEF FlightTypes, Slots, Landed, OkMeansStored
<1>5. OneHolder'
  BY DEF FlightTypes, Slots, OneHolder, Held
<1>6. ASSUME faults' = 0 PROVE Quiet'
  BY <1>6 DEF FlightTypes, Slots, Landed, OneHolder, OkMeansStored, Quiet
<1>7. QED
  BY <1>1, <1>2, <1>3, <1>4, <1>5, <1>6

\* The entry goes, whoever made it.
LEMMA DropSlotInv ==
  ASSUME FlightInv, NEW t \in Threads, DropSlot(t)
  PROVE  FlightInv'
<1> USE DEF FlightInv, DropSlot, Go, Return, Fault
<1>1. FlightTypes'
  BY DEF FlightTypes, Slots
<1>2. Slots'
  BY DEF FlightTypes, Slots
<1>3. Landed'
  BY DEF FlightTypes, Slots, Landed
<1>4. OkMeansStored'
  BY DEF FlightTypes, Slots, Landed, OkMeansStored
<1>5. OneHolder'
  BY DEF FlightTypes, Slots, OneHolder, Held
<1>6. ASSUME faults' = 0 PROVE Quiet'
  BY <1>6 DEF FlightTypes, Slots, Landed, OneHolder, OkMeansStored, Quiet
<1>7. QED
  BY <1>1, <1>2, <1>3, <1>4, <1>5, <1>6

\* The registry loses the pack while no call is under way.
LEMMA LoseInv ==
  ASSUME FlightInv, Lose
  PROVE  FlightInv'
<1> USE DEF FlightInv, Lose
<1>1. FlightTypes'
  <2>1. losses' \in Nat /\ bodies' \in Nat
    BY DEF FlightTypes
  <2>2. stored' \in BOOLEAN
    OBVIOUS
  <2>3. QED
    BY <2>1, <2>2 DEF FlightTypes
<1>2. Slots' /\ Landed' /\ OkMeansStored' /\ OneHolder'
  BY DEF FlightTypes, Slots, Landed, OkMeansStored, OneHolder
<1>3. Quiet'
  BY DEF Quiet
<1>4. QED
  BY <1>1, <1>2, <1>3

\* It holds before the first call.
LEMMA FlightInitially == FlightInit => FlightInv
<1> SUFFICES ASSUME FlightInit PROVE FlightInv
  OBVIOUS
<1> USE DEF FlightInit
<1>1. FlightTypes
  <2>1. completed \in BOOLEAN /\ stored \in BOOLEAN
    OBVIOUS
  <2>2. QED
    BY <2>1 DEF FlightTypes
<1>2. Slots /\ Landed /\ OkMeansStored /\ OneHolder
  BY DEF Slots, Landed, OkMeansStored, OneHolder
<1>3. Quiet
  BY DEF Quiet
<1>4. QED
  BY <1>1, <1>2, <1>3 DEF FlightInv

\* Every step keeps it, one case per action.
LEMMA FlightStep == FlightInv /\ [FlightNext]_flightVars => FlightInv'
<1> SUFFICES ASSUME FlightInv, [FlightNext]_flightVars PROVE FlightInv'
  OBVIOUS
<1>1. ASSUME NEW t \in Threads, SlotFor(t) \/ Call(t) PROVE FlightInv'
  BY <1>1, SlotForInv, LockInv, HeadInv, HeadFailsInv, PutOkInv, PutBrokenInv, PutRefusedInv,
     UnlockInv, DropSlotInv DEF Call
<1>2. CASE Lose
  BY <1>2, LoseInv
<1>3. CASE UNCHANGED flightVars
  BY <1>3 DEF flightVars, FlightInv, FlightTypes, Slots, Landed, OkMeansStored, OneHolder, Quiet
<1>4. QED
  BY <1>1, <1>2, <1>3 DEF FlightNext

\* So it always holds.
LEMMA FlightInvariant == FlightSpec => []FlightInv
BY FlightInitially, FlightStep, PTL DEF FlightSpec

-----------------------------------------------------------------------------

(***************************************************************************)
(* For any number of threads, calls, faults and losses: a call of          *)
(* put_pack_single_flight that reports success leaves the pack in the      *)
(* registry.                                                               *)
(***************************************************************************)
THEOREM SuccessMeansStored == FlightSpec => []OkMeansStored
<1>1. FlightInv => OkMeansStored
  BY DEF FlightInv
<1>2. QED
  BY <1>1, FlightInvariant, PTL

(***************************************************************************)
(* As long as no request fails, any number of calls send the body of a     *)
(* pack at most once between two losses.                                   *)
(***************************************************************************)
THEOREM SentOnce == FlightSpec => []OneBody
<1>1. FlightInv => OneBody
  BY DEF FlightInv, FlightTypes, Quiet, OneBody
<1>2. QED
  BY <1>1, FlightInvariant, PTL

(***************************************************************************)
(* The slot map does not grow: with no call under way it has no entry for  *)
(* the pack (SlotLease).                                                   *)
(***************************************************************************)
THEOREM NoEntryLeaks == FlightSpec => [](Idle => entry = 0)
<1>1. FlightInv => (Idle => entry = 0)
  BY DEF FlightInv, Slots, Idle
<1>2. QED
  BY <1>1, FlightInvariant, PTL
=============================================================================
