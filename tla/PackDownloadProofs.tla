------------------------- MODULE PackDownloadProofs -------------------------
(***************************************************************************)
(* A chunked download that returns has assembled the file, for every       *)
(* pointer, every set of packs and every number of permits and retries.    *)
(* The overlapped hasher is the difficulty: it reads the destination while *)
(* packs are being written into it, some of them for the second time, and  *)
(* its digest stands for the file only if no byte it has read changes.     *)
(*                                                                         *)
(* At the end, the probe of `diagnose`: its parallel ranges cover what the *)
(* single stream read, and its report accounts for each of them.           *)
(***************************************************************************)
EXTENDS PackDownload, Probe, SequenceTheorems, FiniteSetTheorems,
        WellFoundedInduction, TLAPS

\* A task whose pack is written and signalled.
Ok(p) == p \in DOMAIN task /\ task[p].st = "ok"

\* The place of the i-th chunk, and the extents of the packs that are in.
Region(i) == (FileOffsets(refs)[i - 1] + 1)..(FileOffsets(refs)[i - 1] + refs[i].size)
Signalled == {i \in DOMAIN refs : Ok(refs[i].pack)}
Extents == {[at |-> FileOffsets(refs)[i - 1], size |-> refs[i].size] : i \in Signalled}

RefsInv ==
  /\ total \in Nat
  /\ Len(refs) \in Nat /\ DOMAIN refs = 1..Len(refs)
  /\ \A i \in DOMAIN refs : refs[i].off \in Nat /\ refs[i].size \in Nat

TaskSet(B, R) ==
  [st : Running \cup {"ok", "error"}, body : B, next : Nat \ {0}, retries : R]

IsTask(t) == \E B, R : t \in TaskSet(B, R)

TaskInv == \A p \in DOMAIN task : IsTask(task[p])

\* Before the start there is no task, and the hasher has nothing.
IdleInv ==
  phase \in {"plan", "start"} =>
    /\ DOMAIN task = {} /\ hasher = "off" /\ signals = <<>> /\ DOMAIN pending = {}
    /\ watermark = 0 /\ folded = <<>>

\* The reorder buffer and the watermark are made of packs that are in, and what
\* is folded is still on disk.
HashInv ==
  /\ signals \in Seq(Seq(Extents))
  /\ \A o \in DOMAIN pending : [at |-> o, size |-> pending[o]] \in Extents
  /\ watermark \in Nat
  /\ \A k \in 1..watermark : \E i \in Signalled : k \in Region(i)
  /\ \E n \in 0..watermark : 1..n \subseteq DOMAIN disk /\ folded = [k \in 1..n |-> disk[k]]
  /\ hasher = "digest" => Len(folded) = total

EndInv ==
  /\ phase \in {"plan", "start", "fetch", "digest", "done"}
  /\ phase \in {"fetch", "digest", "done"} => disk = [k \in 1..total |-> disk[k]]
  /\ phase \in {"digest", "done"} => \A p \in DOMAIN task : task[p].st = "ok"
  /\ phase = "done" => disk = File

\* A failed download stays failed, and promises nothing about the bytes.
DownloadInv ==
  phase # "failed" => RefsInv /\ TaskInv /\ IdleInv /\ HashInv /\ EndInv

-----------------------------------------------------------------------------
(* Induction on the natural numbers, and functions defined by recursion. *)

\* A non-empty set of numbers has a least one.
LEMMA NatMin ==
  ASSUME NEW T \in SUBSET Nat, T # {}
  PROVE  \E x \in T : \A y \in T : ~(y < x)
<1> DEFINE R == OpToRel(<, Nat)
<1>1. IsWellFoundedOn(R, Nat)
  BY NatLessThanWellFounded
<1>2. \A y, x \in Nat : y < x => <<y, x>> \in R
  BY DEF OpToRel
<1> HIDE DEF R
<1>3. \E x \in T : \A y \in T : ~(<<y, x>> \in R)
  BY <1>1, WFMin, Zenon
<1>4. QED
  BY <1>2, <1>3

\* A set with 0 and the successor of each of its elements holds every number.
LEMMA NatInd ==
  ASSUME NEW S \in SUBSET Nat, 0 \in S, \A n \in S : n + 1 \in S
  PROVE  \A n \in Nat : n \in S
<1> DEFINE T == Nat \ S
<1>1. SUFFICES ASSUME T # {} PROVE FALSE
  OBVIOUS
<1>2. T \in SUBSET Nat
  OBVIOUS
<1>3. PICK x \in T : \A y \in T : ~(y < x)
  <2> HIDE DEF T
  <2>1. QED
    BY <1>1, <1>2, NatMin
<1>4. x \in Nat /\ x # 0
  OBVIOUS
<1>5. x - 1 \in Nat /\ x - 1 < x /\ (x - 1) + 1 = x
  BY <1>4
<1>6. x - 1 \in S
  BY <1>3, <1>5
<1>7. QED
  BY <1>5, <1>6


\* A bounded non-empty set of numbers has a greatest one.
LEMMA NatMax ==
  ASSUME NEW n \in Nat, NEW T \in SUBSET (1..n), T # {}
  PROVE  \E x \in T : \A y \in T : y <= x
<1> DEFINE U == {k \in Nat : n - k \in T}
<1>1. U \in SUBSET Nat
  OBVIOUS
<1>2. \A y \in T : n - y \in U /\ y \in Nat
  <2> SUFFICES ASSUME NEW y \in T PROVE n - y \in U /\ y \in Nat
    OBVIOUS
  <2>1. y \in Nat /\ n - y \in Nat /\ n - (n - y) = y
    OBVIOUS
  <2>2. QED
    BY <2>1
<1>3. U # {}
  BY <1>2
<1>4. PICK k \in U : \A j \in U : ~(j < k)
  <2> HIDE DEF U
  <2>1. QED
    BY <1>1, <1>3, NatMin
<1>5. n - k \in T /\ k \in Nat
  BY <1>4
<1>6. \A y \in T : y <= n - k
  <2> SUFFICES ASSUME NEW y \in T PROVE y <= n - k
    OBVIOUS
  <2>1. n - y \in U /\ y \in Nat
    BY <1>2
  <2> HIDE DEF U
  <2>2. ~(n - y < k)
    BY <1>4, <2>1
  <2>3. QED
    BY <1>5, <2>1, <2>2
<1>7. QED
  BY <1>5, <1>6

\* A function on 0..n is defined by its first value and its steps.
Iterates(f, n, A, a, step) ==
  f \in [0..n -> A] /\ f[0] = a /\ \A i \in 1..n : f[i] = step[i][f[i - 1]]

LEMMA Recursion ==
  ASSUME NEW n \in Nat, NEW A, NEW a \in A, NEW step \in [1..n -> [A -> A]]
  PROVE  \E f : Iterates(f, n, A, a, step)
<1> DEFINE Eq(f, m) == f[0] = a /\ \A i \in 1..m : f[i] = step[i][f[i - 1]]
           Has(m) == \E f \in [0..m -> A] : Eq(f, m)
           S == {m \in Nat : m <= n => Has(m)}
<1> HIDE DEF Has
<1>1. 0 \in S
  <2> DEFINE f == [i \in 0..0 |-> a]
  <2>1. f \in [0..0 -> A] /\ Eq(f, 0)
    OBVIOUS
  <2>2. Has(0)
    BY <2>1 DEF Has
  <2>3. QED
    BY <2>2
<1>2. ASSUME NEW m \in S PROVE m + 1 \in S
  <2>1. SUFFICES ASSUME m + 1 <= n PROVE Has(m + 1)
    OBVIOUS
  <2>2. m \in Nat /\ m <= n /\ m + 1 \in 1..n
    BY <2>1
  <2>3. PICK f \in [0..m -> A] : Eq(f, m)
    BY <2>2 DEF Has
  <2>4. f[m] \in A /\ step[m + 1] \in [A -> A]
    BY <2>2, <2>3
  <2> DEFINE v == step[m + 1][f[m]]
             g == [i \in 0..(m + 1) |-> IF i = m + 1 THEN v ELSE f[i]]
  <2>5. v \in A
    BY <2>4
  <2>6. g \in [0..(m + 1) -> A]
    BY <2>2, <2>3, <2>5
  <2>7. g[0] = a
    BY <2>2, <2>3
  <2>8. ASSUME NEW i \in 1..(m + 1) PROVE g[i] = step[i][g[i - 1]]
    <3>1. CASE i = m + 1
      <4>1. g[i - 1] = f[m] /\ g[i] = v
        BY <2>2, <3>1
      <4>2. QED
        BY <3>1, <4>1
    <3>2. CASE i # m + 1
      <4>1. i \in 1..m /\ g[i] = f[i] /\ g[i - 1] = f[i - 1]
        BY <2>2, <3>2
      <4>2. QED
        BY <2>3, <4>1
    <3>3. QED
      BY <3>1, <3>2
  <2> HIDE DEF g
  <2>9. QED
    BY <2>6, <2>7, <2>8 DEF Has
<1>3. Has(n)
  <2> HIDE DEF S
  <2>1. S \in SUBSET Nat
    BY DEF S
  <2>2. n \in S
    BY <1>1, <1>2, <2>1, NatInd
  <2>3. QED
    BY <2>2 DEF S
<1>4. QED
  BY <1>3 DEF Has, Iterates

-----------------------------------------------------------------------------
(* The plan of _pull_packs. *)

IsSum(s, c) ==
  s = [i \in 0..Len(c) |-> IF i = 0 THEN 0 ELSE s[i - 1] + c[i].size]

\* file_offset is the running sum of the sizes.
LEMMA OffsetFacts ==
  ASSUME NEW c, Len(c) \in Nat, \A i \in 1..Len(c) : c[i].size \in Nat
  PROVE  /\ \A i \in 0..Len(c) : FileOffsets(c)[i] \in Nat
         /\ \A i \in 1..Len(c) : FileOffsets(c)[i] = FileOffsets(c)[i - 1] + c[i].size
<1> DEFINE n == Len(c)
           step == [i \in 1..n |-> [x \in Nat |-> x + c[i].size]]
           ch == CHOOSE s : IsSum(s, c)
<1>1. step \in [1..n -> [Nat -> Nat]]
  OBVIOUS
<1>2. PICK f : f \in [0..n -> Nat] /\ f[0] = 0 /\ \A i \in 1..n : f[i] = step[i][f[i - 1]]
  <2>1. n \in Nat /\ 0 \in Nat
    OBVIOUS
  <2> HIDE DEF step, n
  <2>2. PICK f : Iterates(f, n, Nat, 0, step)
    BY <1>1, <2>1, Recursion
  <2>3. QED
    BY <2>2 DEF Iterates
<1>3. \A i \in 1..n : f[i] = f[i - 1] + c[i].size
  <2> SUFFICES ASSUME NEW i \in 1..n PROVE f[i] = f[i - 1] + c[i].size
    OBVIOUS
  <2>1. i - 1 \in 0..n
    OBVIOUS
  <2>2. f[i - 1] \in Nat
    BY <1>2, <2>1
  <2>3. QED
    BY <1>2, <2>2
<1>4. IsSum(f, c)
  <2>1. \A i \in 0..n : f[i] = IF i = 0 THEN 0 ELSE f[i - 1] + c[i].size
    BY <1>2, <1>3
  <2>2. QED
    BY <1>2, <2>1 DEF IsSum
<1>5. IsSum(ch, c)
  BY <1>4
<1>6. FileOffsets(c) = ch
  BY DEF FileOffsets, IsSum
<1> HIDE DEF ch, n, step
<1>7. \A i \in 0..n : ch[i] = IF i = 0 THEN 0 ELSE ch[i - 1] + c[i].size
  BY <1>5 DEF IsSum, n
<1> DEFINE S == {i \in Nat : i <= n => ch[i] = f[i]}
<1>8. 0 \in S
  BY <1>2, <1>7 DEF n
<1>9. ASSUME NEW i \in S PROVE i + 1 \in S
  <2>1. SUFFICES ASSUME i + 1 <= n PROVE ch[i + 1] = f[i + 1]
    OBVIOUS
  <2>2. i \in Nat /\ i <= n /\ i + 1 \in 1..n /\ i + 1 \in 0..n /\ i + 1 # 0 /\ (i + 1) - 1 = i
    BY <2>1 DEF n
  <2>3. ch[i] = f[i]
    BY <2>2
  <2>4. QED
    BY <1>3, <1>7, <2>2, <2>3
<1>10. ASSUME NEW i \in 0..n PROVE ch[i] = f[i] /\ f[i] \in Nat
  <2> HIDE DEF S
  <2>1. S \in SUBSET Nat
    BY DEF S
  <2>2. i \in Nat /\ i <= n
    BY DEF n
  <2>3. i \in S
    BY <1>8, <1>9, <2>1, <2>2, NatInd
  <2>4. QED
    BY <1>2, <2>2, <2>3 DEF S
<1>11. \A i \in 1..n : i \in 0..n /\ i - 1 \in 0..n
  BY DEF n
<1>12. QED
  BY <1>3, <1>6, <1>10, <1>11 DEF n

\* Chunks lie one after the other.
LEMMA OffsetOrder ==
  ASSUME NEW c, Len(c) \in Nat, \A i \in 1..Len(c) : c[i].size \in Nat,
         NEW i \in 1..Len(c), NEW j \in 1..Len(c), i < j
  PROVE  FileOffsets(c)[i] <= FileOffsets(c)[j - 1]
<1> DEFINE off == FileOffsets(c)
           n == Len(c)
           S == {m \in Nat : i + m <= n => off[i] <= off[i + m]}
<1>1. n \in Nat /\ i \in Nat /\ j \in Nat /\ i \in 0..n
  OBVIOUS
<1>2. \A k \in 0..n : off[k] \in Nat
  BY OffsetFacts
<1>3. \A k \in 1..n : off[k] = off[k - 1] + c[k].size
  BY OffsetFacts
<1> HIDE DEF off, n
<1>4. 0 \in S
  BY <1>1, <1>2
<1>5. ASSUME NEW m \in S PROVE m + 1 \in S
  <2>1. SUFFICES ASSUME i + (m + 1) <= n PROVE off[i] <= off[i + (m + 1)]
    OBVIOUS
  <2>2. m \in Nat /\ i + m \in 0..n /\ i + m <= n /\ i + (m + 1) \in 1..n /\ (i + (m + 1)) - 1 = i + m
        /\ i + (m + 1) \in 0..n
    BY <1>1, <2>1
  <2>3. off[i] <= off[i + m]
    BY <2>2
  <2>4. off[i + (m + 1)] = off[i + m] + c[i + (m + 1)].size /\ c[i + (m + 1)].size \in Nat
    BY <1>3, <2>2 DEF n
  <2>5. off[i] \in Nat /\ off[i + m] \in Nat
    BY <1>1, <1>2, <2>2
  <2>6. QED
    BY <2>3, <2>4, <2>5
<1>6. S \in SUBSET Nat
  OBVIOUS
<1>7. (j - 1) - i \in Nat /\ i + ((j - 1) - i) = j - 1 /\ j - 1 <= n
  BY <1>1 DEF n
<1>8. (j - 1) - i \in S
  <2> HIDE DEF S
  <2>1. QED
    BY <1>4, <1>5, <1>6, <1>7, NatInd
<1> DEFINE m == (j - 1) - i
<1>9. i + m = j - 1 /\ i + m <= n /\ m \in S
  BY <1>7, <1>8
<1> HIDE DEF m
<1>10. off[i] <= off[i + m]
  BY <1>9
<1>11. QED
  BY <1>9, <1>10 DEF off

IsGroup(g, p) ==
  g = [i \in 0..Len(refs) |->
         IF i = 0 THEN <<>>
         ELSE IF refs[i].pack = p THEN Append(g[i - 1], Target(i)) ELSE g[i - 1]]

\* by_pack holds the chunks of the pack and no others.
LEMMA TargetFacts ==
  ASSUME NEW p, Len(refs) \in Nat
  PROVE  /\ Len(Targets(p)) \in Nat
         /\ Targets(p) \in Seq({Target(i) : i \in {i \in 1..Len(refs) : refs[i].pack = p}})
<1> DEFINE n == Len(refs)
           I == {i \in 1..n : refs[i].pack = p}
           A == Seq({Target(i) : i \in I})
           step == [i \in 1..n |-> [x \in A |-> IF refs[i].pack = p THEN Append(x, Target(i)) ELSE x]]
           ch == CHOOSE g : IsGroup(g, p)
<1>1. n \in Nat /\ <<>> \in A
  OBVIOUS
<1>2. \A i \in 1..n : refs[i].pack = p => Target(i) \in {Target(k) : k \in I}
  OBVIOUS
<1>3. \A i \in 1..n, x \in A : refs[i].pack = p => Append(x, Target(i)) \in A
  <2> SUFFICES ASSUME NEW i \in 1..n, NEW x \in A, refs[i].pack = p PROVE Append(x, Target(i)) \in A
    OBVIOUS
  <2> DEFINE T == {Target(k) : k \in I}
             t == Target(i)
  <2>1. t \in T /\ x \in Seq(T)
    BY <1>2
  <2> HIDE DEF T, t
  <2>2. Append(x, t) \in Seq(T)
    BY <2>1
  <2>3. QED
    BY <2>2 DEF T, t
<1> HIDE DEF A
<1>4. step \in [1..n -> [A -> A]]
  BY <1>3
<1>5. PICK f : f \in [0..n -> A] /\ f[0] = <<>> /\ \A i \in 1..n : f[i] = step[i][f[i - 1]]
  <2> HIDE DEF step, n
  <2>1. PICK f : Iterates(f, n, A, <<>>, step)
    BY <1>1, <1>4, Recursion
  <2>2. QED
    BY <2>1 DEF Iterates
<1>6. \A i \in 1..n : f[i] = IF refs[i].pack = p THEN Append(f[i - 1], Target(i)) ELSE f[i - 1]
  <2> SUFFICES ASSUME NEW i \in 1..n
               PROVE  f[i] = IF refs[i].pack = p THEN Append(f[i - 1], Target(i)) ELSE f[i - 1]
    OBVIOUS
  <2>1. i - 1 \in 0..n
    OBVIOUS
  <2>2. f[i - 1] \in A
    BY <1>5, <2>1
  <2>3. QED
    BY <1>5, <2>2
<1>7. IsGroup(f, p)
  <2>1. ASSUME NEW i \in 0..n
        PROVE  f[i] = IF i = 0 THEN <<>>
                      ELSE IF refs[i].pack = p THEN Append(f[i - 1], Target(i)) ELSE f[i - 1]
    <3>1. CASE i = 0
      BY <1>5, <3>1
    <3>2. CASE i # 0
      <4>1. i \in 1..n
        BY <3>2
      <4>2. QED
        BY <1>6, <3>2, <4>1
    <3>3. QED
      BY <3>1, <3>2
  <2>2. QED
    BY <1>5, <2>1 DEF IsGroup
<1>8. IsGroup(ch, p)
  BY <1>7
<1>9. Targets(p) = ch[n]
  BY DEF Targets, IsGroup
<1> HIDE DEF ch, n, step
<1>10. \A i \in 0..n : ch[i] = IF i = 0 THEN <<>>
                               ELSE IF refs[i].pack = p THEN Append(ch[i - 1], Target(i)) ELSE ch[i - 1]
  BY <1>8 DEF IsGroup, n
<1> DEFINE S == {i \in Nat : i <= n => ch[i] = f[i]}
<1>11. 0 \in S
  BY <1>1, <1>5, <1>10
<1>12. ASSUME NEW i \in S PROVE i + 1 \in S
  <2>1. SUFFICES ASSUME i + 1 <= n PROVE ch[i + 1] = f[i + 1]
    OBVIOUS
  <2>2. i \in Nat /\ i <= n /\ i + 1 \in 1..n /\ i + 1 \in 0..n /\ i + 1 # 0 /\ (i + 1) - 1 = i
    BY <1>1, <2>1
  <2>3. ch[i] = f[i]
    BY <2>2
  <2>4. QED
    BY <1>6, <1>10, <2>2, <2>3
<1>13. ch[n] \in A
  <2> HIDE DEF S
  <2>1. S \in SUBSET Nat
    BY DEF S
  <2>2. n \in S
    BY <1>1, <1>11, <1>12, <2>1, NatInd
  <2>3. n <= n /\ n \in 0..n
    BY <1>1
  <2>4. QED
    BY <1>5, <2>2, <2>3 DEF S
<1>14. Targets(p) \in Seq({Target(i) : i \in {i \in 1..Len(refs) : refs[i].pack = p}})
  BY <1>9, <1>13 DEF A, n
<1>15. QED
  BY <1>14, LenProperties

\* No byte of the file belongs to two chunks of the plan.
LEMMA RegionsDisjoint ==
  ASSUME RefsInv, NEW i \in DOMAIN refs, NEW j \in DOMAIN refs, i # j, NEW k \in Region(i)
  PROVE  k \notin Region(j)
<1> DEFINE off == FileOffsets(refs)
<1>1. Len(refs) \in Nat /\ i \in 1..Len(refs) /\ j \in 1..Len(refs)
      /\ \A m \in 1..Len(refs) : refs[m].size \in Nat
  BY DEF RefsInv
<1>2. /\ off[i - 1] \in Nat /\ off[i] = off[i - 1] + refs[i].size
      /\ off[j - 1] \in Nat /\ off[j] = off[j - 1] + refs[j].size
  <2>1. i - 1 \in 0..Len(refs) /\ j - 1 \in 0..Len(refs)
    BY <1>1
  <2>2. QED
    BY <1>1, <2>1, OffsetFacts
<1>3. i < j => off[i] <= off[j - 1]
  BY <1>1, OffsetOrder
<1>4. j < i => off[j] <= off[i - 1]
  BY <1>1, OffsetOrder
<1> HIDE DEF off
<1> DEFINE a == off[i - 1]
           b == off[i]
           c == off[j - 1]
           d == off[j]
<1>5. Region(i) = (a + 1)..b /\ Region(j) = (c + 1)..d
  BY <1>2 DEF Region, off
<1>6. a \in Nat /\ b \in Nat /\ c \in Nat /\ d \in Nat
  <2> DEFINE x == refs[i].size
             y == refs[j].size
  <2>1. x \in Nat /\ y \in Nat
    BY <1>1, Zenon
  <2>2. a \in Nat /\ b = a + x /\ c \in Nat /\ d = c + y
    BY <1>2, Zenon
  <2> HIDE DEF a, b, c, d, x, y
  <2>3. QED
    BY <2>1, <2>2
<1>7. b <= c \/ d <= a
  BY <1>1, <1>3, <1>4
<1> HIDE DEF a, b, c, d
<1>8. k \in (a + 1)..b
  BY <1>5
<1>9. k \notin (c + 1)..d
  BY <1>6, <1>7, <1>8
<1>10. QED
  BY <1>5, <1>9

-----------------------------------------------------------------------------
(* The hasher. *)

\* What the reorder buffer takes in is one of the extents it is sent.
LEMMA InsertFacts ==
  ASSUME NEW E, \A e \in E : e = [at |-> e.at, size |-> e.size],
         NEW map, \A o \in DOMAIN map : [at |-> o, size |-> map[o]] \in E,
         NEW x \in Seq(E)
  PROVE  \A o \in DOMAIN Insert(map, x) : [at |-> o, size |-> Insert(map, x)[o]] \in E
<1> SUFFICES ASSUME NEW o \in DOMAIN Insert(map, x)
             PROVE  [at |-> o, size |-> Insert(map, x)[o]] \in E
  OBVIOUS
<1> DEFINE Of(q) == {i \in DOMAIN x : x[i].at = q}
           last(q) == CHOOSE i \in Of(q) : \A j \in Of(q) : j <= i
<1>1. Insert(map, x) = [q \in DOMAIN map \cup {x[i].at : i \in DOMAIN x} |->
                          IF Of(q) = {} THEN map[q] ELSE x[last(q)].size]
  BY DEF Insert
<1>2. o \in DOMAIN map \cup {x[i].at : i \in DOMAIN x}
  BY <1>1
<1>3. Insert(map, x)[o] = IF Of(o) = {} THEN map[o] ELSE x[last(o)].size
  BY <1>1, <1>2
<1>4. CASE Of(o) = {}
  <2>1. o \in DOMAIN map
    BY <1>2, <1>4
  <2>2. QED
    BY <1>3, <1>4, <2>1
<1>5. CASE Of(o) # {}
  <2>1. Len(x) \in Nat /\ DOMAIN x = 1..Len(x) /\ \A i \in 1..Len(x) : x[i] \in E
    OBVIOUS
  <2>2. Of(o) \in SUBSET (1..Len(x))
    BY <2>1
  <2>3. \E i \in Of(o) : \A j \in Of(o) : j <= i
    <3> HIDE DEF Of
    <3>1. QED
      BY <1>5, <2>1, <2>2, NatMax
  <2>4. last(o) \in Of(o)
    <3> HIDE DEF Of
    <3>1. QED
      BY <2>3
  <2> DEFINE l == last(o)
  <2>5. l \in 1..Len(x) /\ x[l].at = o
    BY <2>1, <2>4
  <2> HIDE DEF l
  <2>6. x[l] \in E /\ x[l] = [at |-> x[l].at, size |-> x[l].size]
    BY <2>1, <2>5
  <2>7. Insert(map, x)[o] = x[l].size
    BY <1>3, <1>5 DEF l
  <2>8. QED
    BY <2>5, <2>6, <2>7
<1>6. QED
  BY <1>4, <1>5

\* One byte more of a file that is read from its start.
LEMMA PrefixGrows ==
  ASSUME NEW n \in Nat, NEW d
  PROVE  /\ Len([k \in 1..n |-> d[k]]) = n
         /\ Append([k \in 1..n |-> d[k]], d[n + 1]) = [k \in 1..(n + 1) |-> d[k]]
<1> DEFINE T == {d[k] : k \in 1..(n + 1)}
           f == [k \in 1..n |-> d[k]]
           g == [k \in 1..(n + 1) |-> d[k]]
<1>1. f \in Seq(T) /\ Len(f) = n /\ g \in Seq(T) /\ Len(g) = n + 1 /\ d[n + 1] \in T
  OBVIOUS
<1>2. \A k \in 1..n : f[k] = d[k]
  OBVIOUS
<1>3. \A k \in 1..(n + 1) : g[k] = d[k]
  OBVIOUS
<1> DEFINE v == d[n + 1]
<1> HIDE DEF T, f, g, v
<1>4. Append(f, v) \in Seq(T) /\ Len(Append(f, v)) = n + 1
      /\ \A k \in 1..(n + 1) : Append(f, v)[k] = IF k = n + 1 THEN v ELSE f[k]
  BY <1>1 DEF v
<1>5. \A k \in 1..(n + 1) : Append(f, v)[k] = g[k]
  BY <1>2, <1>3, <1>4 DEF v
<1>6. Append(f, v) = g
  BY <1>1, <1>4, <1>5, SeqEqual
<1>7. QED
  BY <1>1, <1>6 DEF f, g, v

\* Packs that are in stay in, and so do their extents.
LEMMA ExtentsGrow ==
  ASSUME refs' = refs, \A q : Ok(q) => Ok(q)'
  PROVE  Signalled \subseteq Signalled' /\ Extents \subseteq Extents'
<1>1. Signalled \subseteq Signalled'
  BY DEF Signalled
<1>2. QED
  BY <1>1 DEF Extents

\* A step that leaves the hasher alone and no byte below the watermark changes.
LEMMA HashKept ==
  ASSUME RefsInv, HashInv, refs' = refs, total' = total, \A q : Ok(q) => Ok(q)',
         UNCHANGED <<pending, watermark, folded, hasher>>,
         signals' = signals \/ \E x \in Seq(Extents') : signals' = Append(signals, x),
         DOMAIN disk' = DOMAIN disk, \A k \in (1..watermark) \cap DOMAIN disk : disk'[k] = disk[k]
  PROVE  HashInv'
<1>1. Signalled \subseteq Signalled' /\ Extents \subseteq Extents'
  BY ExtentsGrow
<1>2. signals' \in Seq(Seq(Extents'))
  <2> DEFINE E == Seq(Extents)
             F == Seq(Extents')
  <2>1. E \subseteq F
    BY <1>1, SeqMonotonic
  <2>2. signals \in Seq(E)
    BY DEF HashInv
  <2> HIDE DEF E, F
  <2>3. signals \in Seq(F)
    BY <2>1, <2>2, SeqMonotonic
  <2>4. signals' = signals \/ \E x \in F : signals' = Append(signals, x)
    BY DEF F
  <2>5. signals' \in Seq(F)
    BY <2>3, <2>4
  <2>6. QED
    BY <2>5 DEF F
<1>3. \A o \in DOMAIN pending' : [at |-> o, size |-> pending'[o]] \in Extents'
  BY <1>1 DEF HashInv
<1>4. \A k \in 1..watermark' : \E i \in Signalled' : k \in Region(i)'
  <2>1. \A i : Region(i)' = Region(i)
    BY DEF Region
  <2>2. QED
    BY <1>1, <2>1 DEF HashInv
<1>5. \E n \in 0..watermark' : 1..n \subseteq DOMAIN disk' /\ folded' = [k \in 1..n |-> disk'[k]]
  <2>1. PICK n \in 0..watermark : 1..n \subseteq DOMAIN disk /\ folded = [k \in 1..n |-> disk[k]]
    BY DEF HashInv
  <2>2. watermark \in Nat
    BY DEF HashInv
  <2>3. [k \in 1..n |-> disk[k]] = [k \in 1..n |-> disk'[k]]
    BY <2>1, <2>2
  <2>4. QED
    BY <2>1, <2>3
<1>6. QED
  BY <1>2, <1>3, <1>4, <1>5 DEF HashInv

\* The steps of the hasher itself.
LEMMA HashStepInv ==
  ASSUME RefsInv, IdleInv, HashInv, EndInv, HashStep, UNCHANGED packVars
  PROVE  HashInv' /\ UNCHANGED <<total, disk>>
<1>1. UNCHANGED <<phase, refs, task, others>>
  BY DEF packVars
<1>2. Signalled' = Signalled /\ Extents' = Extents /\ \A i : Region(i)' = Region(i)
  BY <1>1 DEF Signalled, Extents, Region, Ok
<1>3. UNCHANGED <<total, disk>>
  BY DEF HashStep, OpenDest, Receive, Advance, Fold, ReadFails, CloseHash
<1>4. \A e \in Extents : e = [at |-> e.at, size |-> e.size]
  BY DEF Extents
<1>5. CASE OpenDest
  BY <1>2, <1>3, <1>5 DEF OpenDest, HashInv
<1>6. CASE Receive
  <2>1. signals' = Tail(signals) /\ pending' = Insert(pending, Head(signals)) /\ hasher' = "fold"
        /\ UNCHANGED <<watermark, folded>> /\ signals # <<>>
    BY <1>6 DEF Receive
  <2> DEFINE F == Seq(Extents)
  <2>2. signals \in Seq(F)
    BY DEF HashInv
  <2> HIDE DEF F
  <2>3. Head(signals) \in F /\ Tail(signals) \in Seq(F)
    BY <2>1, <2>2
  <2>4. \A o \in DOMAIN pending' : [at |-> o, size |-> pending'[o]] \in Extents
    BY <1>4, <2>1, <2>3, InsertFacts DEF HashInv, F
  <2>5. QED
    BY <1>2, <1>3, <2>1, <2>3, <2>4 DEF HashInv, F
<1>7. CASE Advance
  <2>1. PICK o \in DOMAIN pending : /\ o = watermark /\ watermark' = o + pending[o]
                                    /\ pending' = [q \in DOMAIN pending \ {o} |-> pending[q]]
    BY <1>7 DEF Advance, Contiguous
  <2>2. hasher = "fold" /\ UNCHANGED <<signals, folded, hasher>>
    BY <1>7 DEF Advance
  <2>3. PICK i \in Signalled : [at |-> o, size |-> pending[o]]
                                 = [at |-> FileOffsets(refs)[i - 1], size |-> refs[i].size]
    BY DEF HashInv, Extents
  <2>4. o = FileOffsets(refs)[i - 1] /\ pending[o] = refs[i].size /\ refs[i].size \in Nat /\ watermark \in Nat
    BY <2>3 DEF HashInv, RefsInv, Signalled
  <2>5. watermark' \in Nat /\ watermark <= watermark'
    BY <2>1, <2>4
  <2>6. Region(i) = (watermark + 1)..watermark'
    BY <2>1, <2>4 DEF Region
  <2>7. \A k \in 1..watermark' : \E j \in Signalled : k \in Region(j)
    <3> SUFFICES ASSUME NEW k \in 1..watermark' PROVE \E j \in Signalled : k \in Region(j)
      OBVIOUS
    <3>1. CASE k \in 1..watermark
      BY <3>1 DEF HashInv
    <3>2. CASE k \notin 1..watermark
      <4>1. k \in Region(i)
        BY <2>4, <2>5, <2>6, <3>2
      <4>2. QED
        BY <4>1
    <3>3. QED
      BY <3>1, <3>2
  <2>8. \A q \in DOMAIN pending' : [at |-> q, size |-> pending'[q]] \in Extents
    BY <2>1 DEF HashInv
  <2>9. \E n \in 0..watermark' : 1..n \subseteq DOMAIN disk /\ folded' = [k \in 1..n |-> disk[k]]
    <3>1. PICK n \in 0..watermark : 1..n \subseteq DOMAIN disk /\ folded = [k \in 1..n |-> disk[k]]
      BY DEF HashInv
    <3>2. n \in 0..watermark'
      BY <2>4, <2>5
    <3>3. QED
      BY <2>2, <3>1, <3>2
  <2>10. QED
    BY <1>2, <1>3, <2>2, <2>5, <2>7, <2>8, <2>9 DEF HashInv
<1>8. CASE Fold
  <2>1. PICK n \in 0..watermark : 1..n \subseteq DOMAIN disk /\ folded = [k \in 1..n |-> disk[k]]
    BY DEF HashInv
  <2>2. watermark \in Nat /\ n \in Nat /\ Len(folded) = n
    BY <2>1, PrefixGrows DEF HashInv
  <2>3. UNCHANGED <<signals, pending, watermark>> /\ hasher' # "digest"
    BY <1>8 DEF Fold
  <2>4. \E m \in 0..watermark : 1..m \subseteq DOMAIN disk /\ folded' = [k \in 1..m |-> disk[k]]
    <3>1. CASE folded' = folded
      BY <2>1, <3>1
    <3>2. CASE folded' # folded
      <4>1. folded' = Append(folded, disk[n + 1]) /\ n < watermark /\ n < Len(disk)
        BY <1>8, <2>2, <3>2 DEF Fold
      <4>2. folded' = [k \in 1..(n + 1) |-> disk[k]] /\ n + 1 \in 0..watermark
        BY <2>1, <2>2, <4>1, PrefixGrows
      <4>3. disk = [k \in 1..total |-> disk[k]] /\ total \in Nat
        BY <1>8 DEF Fold, IdleInv, EndInv, RefsInv
      <4>4. DOMAIN disk = 1..total /\ Len(disk) = total
        <5> DEFINE d == [k \in 1..total |-> disk[k]]
        <5>1. DOMAIN d = 1..total /\ Len(d) = total
          BY <4>3, PrefixGrows
        <5> HIDE DEF d
        <5>2. disk = d
          BY <4>3 DEF d
        <5>3. QED
          BY <5>1, <5>2
      <4>5. 1..(n + 1) \subseteq DOMAIN disk
        BY <2>2, <4>1, <4>3, <4>4
      <4>6. QED
        BY <4>2, <4>5
    <3>3. QED
      BY <3>1, <3>2
  <2>5. QED
    BY <1>2, <1>3, <2>3, <2>4 DEF HashInv
<1>9. CASE ReadFails
  BY <1>2, <1>3, <1>9 DEF ReadFails, HashInv
<1>10. CASE CloseHash
  BY <1>2, <1>3, <1>10 DEF CloseHash, HashInv, Covered
<1>11. QED
  BY <1>3, <1>5, <1>6, <1>7, <1>8, <1>9, <1>10 DEF HashStep

-----------------------------------------------------------------------------
(* The tasks. *)

\* A step of a task that is not done yet.
LEMMA TaskKept ==
  ASSUME DownloadInv, phase = "fetch", UNCHANGED <<phase, refs, total>>,
         NEW p \in DOMAIN task, task[p].st # "ok", NEW t, Set(p, t),
         IsTask(t),
         UNCHANGED <<pending, watermark, folded, hasher>>,
         signals' = signals \/ \E x \in Seq(Extents') : signals' = Append(signals, x),
         disk' = [k \in 1..total |-> disk'[k]],
         \A k \in (1..watermark) \cap DOMAIN disk : disk'[k] = disk[k]
  PROVE  DownloadInv'
<1>1. RefsInv /\ TaskInv /\ HashInv
  BY DEF DownloadInv
<1>2. DOMAIN task' = DOMAIN task /\ task'[p] = t /\ \A q \in DOMAIN task : q # p => task'[q] = task[q]
  BY DEF Set
<1>3. \A q : Ok(q) => Ok(q)'
  BY <1>2 DEF Ok
<1>4. RefsInv'
  BY <1>1 DEF RefsInv
<1>5. TaskInv'
  <2>1. ASSUME NEW q \in DOMAIN task' PROVE IsTask(task'[q])
    <3>1. CASE q = p
      BY <1>2, <3>1
    <3>2. CASE q # p
      BY <1>1, <1>2, <3>2 DEF TaskInv
    <3>3. QED
      BY <3>1, <3>2
  <2>2. QED
    BY <2>1 DEF TaskInv
<1>6. HashInv'
  <2>1. DOMAIN disk = 1..total /\ DOMAIN disk' = 1..total
    <3>1. disk = [k \in 1..total |-> disk[k]]
      BY DEF DownloadInv, EndInv
    <3>2. \A d : d = [k \in 1..total |-> d[k]] => DOMAIN d = 1..total
      OBVIOUS
    <3>3. QED
      BY <3>1, <3>2, Zenon
  <2>2. QED
    BY <1>1, <1>3, <2>1, HashKept
<1>7. IdleInv' /\ EndInv'
  BY DEF IdleInv, EndInv
<1>8. QED
  BY <1>4, <1>5, <1>6, <1>7 DEF DownloadInv

\* The chunk a task writes next, and its bytes.
Chunk(p) == Targets(p)[task[p].next]
ChunkBytes(p) == SubSeq(task[p].body, Chunk(p).off + 1, Chunk(p).off + Chunk(p).size)

\* A chunk is written only into its own place: not below the watermark.
LEMMA ScatterWrites ==
  ASSUME DownloadInv, phase = "fetch", NEW p \in DOMAIN task, task[p].st # "ok",
         task[p].next <= Len(Targets(p)), disk' = WriteAt(disk, Chunk(p).at, ChunkBytes(p))
  PROVE  /\ disk' = [k \in 1..total |-> disk'[k]]
         /\ \A k \in (1..watermark) \cap DOMAIN disk : disk'[k] = disk[k]
<1> DEFINE t == Chunk(p)
           b == ChunkBytes(p)
<1>0. t = Targets(p)[task[p].next] /\ b = SubSeq(task[p].body, t.off + 1, t.off + t.size)
      /\ disk' = WriteAt(disk, t.at, b)
  BY DEF Chunk, ChunkBytes
<1> HIDE DEF t, b
<1>1. RefsInv /\ TaskInv /\ HashInv /\ disk = [k \in 1..total |-> disk[k]]
  BY DEF DownloadInv, EndInv
<1>2. DOMAIN disk = 1..total
  BY <1>1
<1>3. PICK i \in 1..Len(refs) : refs[i].pack = p /\ t = Target(i)
  <2> DEFINE T == {Target(j) : j \in {j \in 1..Len(refs) : refs[j].pack = p}}
  <2>1. Len(Targets(p)) \in Nat /\ Targets(p) \in Seq(T)
    BY <1>1, TargetFacts DEF RefsInv
  <2>2. task[p].next \in 1..Len(Targets(p))
    BY <1>1, <2>1 DEF TaskInv, IsTask, TaskSet
  <2> HIDE DEF T
  <2>3. t \in T
    BY <1>0, <2>1, <2>2
  <2>4. QED
    BY <2>3 DEF T
<1>4. t.off \in Nat /\ t.size = refs[i].size /\ t.size \in Nat /\ t.at = FileOffsets(refs)[i - 1]
  BY <1>1, <1>3 DEF Target, RefsInv
<1>5. Len(b) = t.size
  <2> DEFINE d == task[p].body
             T == {d[m] : m \in (t.off + 1)..(t.off + t.size)}
             lo == t.off + 1
             hi == t.off + t.size
  <2>1. lo \in Int /\ hi \in Int /\ (IF lo <= hi THEN hi - lo + 1 ELSE 0) = t.size
    <3>1. \A x, y \in Nat : /\ x + 1 \in Int /\ x + y \in Int
                            /\ (IF x + 1 <= x + y THEN (x + y) - (x + 1) + 1 ELSE 0) = y
      OBVIOUS
    <3>2. QED
      BY <1>4, <3>1
  <2>2. \A m \in lo..hi : d[m] \in T
    OBVIOUS
  <2> HIDE DEF T, lo, hi, d
  <2>3. Len(SubSeq(d, lo, hi)) = IF lo <= hi THEN hi - lo + 1 ELSE 0
    BY <2>1, <2>2, SubSeqProperties
  <2>4. QED
    BY <1>0, <2>1, <2>3 DEF lo, hi, d
<1>6. i \in DOMAIN refs /\ Region(i) = (t.at + 1)..(t.at + Len(b))
  BY <1>1, <1>3, <1>4, <1>5 DEF Region, RefsInv
<1>7. i \notin Signalled
  BY <1>3 DEF Signalled, Ok
<1>8. ASSUME NEW k \in (1..watermark) \cap DOMAIN disk PROVE disk'[k] = disk[k]
  <2>1. PICK j \in Signalled : k \in Region(j)
    BY <1>1 DEF HashInv
  <2>2. j \in DOMAIN refs /\ j # i
    BY <1>7, <2>1 DEF Signalled
  <2>3. k \notin Region(i)
    BY <1>1, <1>6, <2>1, <2>2, RegionsDisjoint
  <2>4. QED
    BY <1>0, <1>6, <2>3 DEF WriteAt
<1>9. disk' = [k \in 1..total |-> disk'[k]]
  BY <1>0, <1>2 DEF WriteAt
<1>10. QED
  BY <1>8, <1>9

\* The steps that change nothing but the state of a task.
LEMMA QuietTask ==
  ASSUME DownloadInv, phase = "fetch", UNCHANGED <<phase, refs, total, disk, pending, watermark, folded, hasher>>,
         NEW p \in DOMAIN task, task[p].st # "ok", NEW t, Set(p, t),
         IsTask(t),
         signals' = signals \/ \E x \in Seq(Extents') : signals' = Append(signals, x)
  PROVE  DownloadInv'
<1>1. disk' = [k \in 1..total |-> disk'[k]]
  BY DEF DownloadInv, EndInv
<1>2. QED
  BY <1>1, TaskKept

LEMMA NoTaskFacts ==
  ASSUME NEW st \in Running \cup {"ok", "error"}, NEW r
  PROVE  /\ IsTask([NoTask EXCEPT !.st = st]) /\ [NoTask EXCEPT !.st = st].st = st
         /\ IsTask([NoTask EXCEPT !.st = st, !.retries = r])
<1>1. NoTask \in TaskSet({<<>>}, {0})
  BY DEF NoTask, TaskSet, Running
<1> HIDE DEF NoTask
<1>2. [NoTask EXCEPT !.st = st] \in TaskSet({<<>>}, {0}) /\ [NoTask EXCEPT !.st = st].st = st
  BY <1>1 DEF TaskSet
<1>3. [NoTask EXCEPT !.st = st, !.retries = r] \in TaskSet({<<>>}, {r})
  BY <1>1 DEF TaskSet
<1>4. QED
  BY <1>2, <1>3 DEF IsTask

\* A live task runs while the download fetches.
LEMMA TaskPhase ==
  ASSUME DownloadInv, phase # "failed", NEW p \in DOMAIN task, task[p].st # "ok"
  PROVE  phase = "fetch" /\ IsTask(task[p]) /\ task[p].st \in Running \cup {"error"}
<1>1. IsTask(task[p])
  BY DEF DownloadInv, TaskInv
<1>2. QED
  BY <1>1 DEF DownloadInv, IdleInv, EndInv, IsTask, TaskSet

LEMMA GateInv ==
  ASSUME DownloadInv, phase # "failed", NEW p \in DOMAIN task,
         Acquire(p) \/ AcquireGlobal(p) \/ Backoff(p) \/ Fetched(p)
  PROVE  DownloadInv'
<1>1. task[p].st \in {"wait", "gate", "backoff", "get"}
      /\ UNCHANGED <<phase, refs, total, disk, pending, watermark, folded, hasher, signals>>
  BY DEF Acquire, AcquireGlobal, Backoff, Fetched, hashVars
<1>2. phase = "fetch"
  BY <1>1, TaskPhase
<1> PICK B, R : task[p] \in TaskSet(B, R)
  BY <1>1, TaskPhase DEF IsTask
<1>3. CASE Acquire(p) \/ AcquireGlobal(p) \/ Backoff(p)
  <2>1. PICK st \in {"gate", "get"} : Set(p, [task[p] EXCEPT !.st = st])
    BY <1>3 DEF Acquire, AcquireGlobal, Backoff
  <2> DEFINE t == [task[p] EXCEPT !.st = st]
  <2>2. t \in TaskSet(B, R)
    BY <2>1 DEF TaskSet, Running
  <2> HIDE DEF t
  <2>4. IsTask(t)
    BY <2>2 DEF IsTask
  <2>3. QED
    BY <1>1, <1>2, <2>1, <2>4, QuietTask DEF t
<1>4. CASE Fetched(p)
  <2>1. PICK bytes : Set(p, [task[p] EXCEPT !.st = "scatter", !.body = bytes, !.next = 1])
    BY <1>4 DEF Fetched
  <2> DEFINE t == [task[p] EXCEPT !.st = "scatter", !.body = bytes, !.next = 1]
  <2>2. t \in TaskSet({bytes}, R)
    <3> DEFINE w == task[p]
               S == Running \cup {"ok", "error"}
               N == Nat \ {0}
    <3>1. w \in [st : S, body : B, next : N, retries : R] /\ "scatter" \in S /\ 1 \in N
      BY DEF TaskSet, Running
    <3> HIDE DEF w, S, N
    <3>2. [w EXCEPT !.st = "scatter", !.body = bytes, !.next = 1]
            \in [st : S, body : {bytes}, next : N, retries : R]
      BY <3>1
    <3>3. QED
      BY <3>2 DEF w, S, N, TaskSet
  <2> HIDE DEF t
  <2>4. IsTask(t)
    BY <2>2 DEF IsTask
  <2>3. QED
    BY <1>1, <1>2, <2>1, <2>4, QuietTask DEF t
<1>5. QED
  BY <1>3, <1>4

LEMMA AfterErrorFacts ==
  ASSUME NEW p, NEW r
  PROVE  IsTask(AfterError(p, r))
<1> DEFINE st == IF r /\ task[p].retries < MaxRetries THEN "backoff" ELSE "error"
           n == task[p].retries + 1
<1>1. st \in Running \cup {"ok", "error"}
  BY DEF Running
<1>2. AfterError(p, r) = [NoTask EXCEPT !.st = st, !.retries = n]
  BY Zenon DEF AfterError
<1> HIDE DEF st, n
<1>3. IsTask([NoTask EXCEPT !.st = st, !.retries = n])
  BY <1>1, NoTaskFacts
<1>4. QED
  BY <1>2, <1>3, Zenon

LEMMA FailInv ==
  ASSUME DownloadInv, phase # "failed", NEW p \in DOMAIN task, NEW r \in BOOLEAN, AttemptFails(p, r)
  PROVE  DownloadInv'
<1>1. task[p].st \in {"get", "scatter"} /\ Set(p, AfterError(p, r))
      /\ UNCHANGED <<phase, refs, total, disk, pending, watermark, folded, hasher, signals>>
  BY DEF AttemptFails
<1>2. phase = "fetch"
  BY <1>1, TaskPhase
<1>3. QED
  BY <1>1, <1>2, AfterErrorFacts, QuietTask

\* A chunk is verified and written, or the task fails.
LEMMA ScatterInv ==
  ASSUME DownloadInv, phase # "failed", NEW p \in DOMAIN task, Scatter(p)
  PROVE  DownloadInv'
<1>1. task[p].st \in {"scatter", "orphan"} /\ task[p].next <= Len(Targets(p))
      /\ UNCHANGED <<phase, refs, total, pending, watermark, folded, hasher, signals>>
  BY DEF Scatter
<1>2. phase = "fetch" /\ task[p].st = "scatter"
  BY <1>1, TaskPhase DEF Running
<1> PICK B, R : task[p] \in TaskSet(B, R)
  BY <1>2, TaskPhase DEF IsTask
<1>3. CASE Verified(p, Chunk(p))
  <2> DEFINE u == [task[p] EXCEPT !.next = @ + 1]
  <2>1. disk' = WriteAt(disk, Chunk(p).at, ChunkBytes(p)) /\ Set(p, u)
    BY <1>3 DEF Scatter, Chunk, ChunkBytes
  <2>2. u \in TaskSet(B, R)
    BY DEF TaskSet
  <2> HIDE DEF u
  <2>4. IsTask(u) /\ task[p].st # "ok"
    BY <1>2, <2>2 DEF IsTask
  <2>6. /\ disk' = [k \in 1..total |-> disk'[k]]
        /\ \A k \in (1..watermark) \cap DOMAIN disk : disk'[k] = disk[k]
    BY <1>1, <1>2, <2>1, <2>4, ScatterWrites
  <2>7. QED
    BY <1>1, <1>2, <2>1, <2>4, <2>6, TaskKept
<1>4. CASE ~Verified(p, Chunk(p))
  <2>1. Set(p, AfterError(p, FALSE)) /\ disk' = disk
    BY <1>2, <1>4 DEF Scatter, Chunk
  <2>2. QED
    BY <1>1, <1>2, <2>1, AfterErrorFacts, QuietTask
<1>5. QED
  BY <1>3, <1>4

LEMMA ScatterEndsInv ==
  ASSUME DownloadInv, phase # "failed", NEW p \in DOMAIN task, ScatterEnds(p)
  PROVE  DownloadInv'
<1> DEFINE t == [NoTask EXCEPT !.st = "signal", !.retries = task[p].retries]
<1>1. task[p].st \in {"scatter", "orphan"}
      /\ UNCHANGED <<phase, refs, total, disk, pending, watermark, folded, hasher, signals>>
  BY DEF ScatterEnds, hashVars
<1>2. phase = "fetch" /\ task[p].st = "scatter"
  BY <1>1, TaskPhase DEF Running
<1>3. Set(p, t)
  BY <1>2 DEF ScatterEnds
<1>4. IsTask(t)
  <2>1. "signal" \in Running \cup {"ok", "error"}
    BY DEF Running
  <2>2. QED
    BY <2>1, NoTaskFacts
<1> HIDE DEF t
<1>5. QED
  BY <1>1, <1>2, <1>3, <1>4, QuietTask

\* The pack is in: its extents are signalled.
LEMMA SignalInv ==
  ASSUME DownloadInv, phase # "failed", NEW p \in DOMAIN task, Signal(p)
  PROVE  DownloadInv'
<1> DEFINE t == [NoTask EXCEPT !.st = "ok"]
           x == [i \in DOMAIN Targets(p) |-> [at |-> Targets(p)[i].at, size |-> Targets(p)[i].size]]
<1>1. task[p].st = "signal" /\ Set(p, t) /\ (signals' = signals \/ signals' = Append(signals, x))
      /\ UNCHANGED <<phase, refs, total, disk, pending, watermark, folded, hasher>>
  BY DEF Signal, Send
<1>2. phase = "fetch" /\ RefsInv
  BY <1>1, TaskPhase DEF DownloadInv
<1>3. IsTask(t) /\ t.st = "ok"
  <2>1. "ok" \in Running \cup {"ok", "error"}
    OBVIOUS
  <2>2. QED
    BY <2>1, NoTaskFacts
<1>4. Ok(p)'
  BY <1>1, <1>3 DEF Set, Ok
<1>5. x \in Seq(Extents')
  <2> DEFINE I == {j \in 1..Len(refs) : refs[j].pack = p}
             T == {Target(j) : j \in I}
             n == Len(Targets(p))
  <2>1. n \in Nat /\ Targets(p) \in Seq(T)
    BY <1>2, TargetFacts DEF RefsInv
  <2>2. ASSUME NEW i \in 1..n
        PROVE  [at |-> Targets(p)[i].at, size |-> Targets(p)[i].size] \in Extents'
    <3>1. Targets(p)[i] \in T
      <4> HIDE DEF T
      <4>1. QED
        BY <2>1
    <3>2. PICK j \in I : Targets(p)[i] = Target(j)
      BY <3>1
    <3>3. j \in Signalled'
      BY <1>1, <1>2, <1>4, <3>2 DEF Signalled, RefsInv
    <3>4. Target(j).at = FileOffsets(refs)[j - 1] /\ Target(j).size = refs[j].size
      BY DEF Target
    <3>5. QED
      BY <1>1, <3>2, <3>3, <3>4 DEF Extents
  <2>3. DOMAIN Targets(p) = 1..n
    BY <2>1, LenProperties
  <2> DEFINE E == Extents'
             v == Targets(p)
  <2> HIDE DEF E, n, T, v
  <2>4. x = [i \in 1..n |-> [at |-> v[i].at, size |-> v[i].size]]
    BY <2>3 DEF v
  <2>5. \A i \in 1..n : [at |-> v[i].at, size |-> v[i].size] \in E
    BY <2>2 DEF E, v
  <2>6. x \in Seq(E)
    <3> DEFINE e(i) == [at |-> v[i].at, size |-> v[i].size]
    <3>1. n \in Nat /\ x = [i \in 1..n |-> e(i)] /\ \A i \in 1..n : e(i) \in E
      BY <2>1, <2>4, <2>5
    <3> HIDE DEF e, x
    <3>2. QED
      BY <3>1, IsASeq
  <2>7. QED
    BY <2>6 DEF E
<1> HIDE DEF t, x
<1>6. QED
  BY <1>1, <1>2, <1>3, <1>5, QuietTask

-----------------------------------------------------------------------------
(* The plan, the tail of assemble, and the whole step. *)

\* The channel, the buffer and the hasher when they are empty.
LEMMA NothingFolded ==
  ASSUME NEW E, NEW d
  PROVE  <<>> \in Seq(Seq(E)) /\ <<>> = [k \in 1..0 |-> d[k]] /\ 1..0 \subseteq DOMAIN d
OBVIOUS

LEMMA InitInv == Init => DownloadInv
<1> SUFFICES ASSUME Init PROVE DownloadInv
  OBVIOUS
<1> USE DEF Init, HashInit, NoExtents
<1>1. RefsInv /\ TaskInv /\ IdleInv /\ EndInv
  BY DEF RefsInv, TaskInv, IdleInv, EndInv
<1>2. signals \in Seq(Seq(Extents))
      /\ \E n \in 0..watermark : 1..n \subseteq DOMAIN disk /\ folded = [k \in 1..n |-> disk[k]]
  BY NothingFolded
<1>3. HashInv
  BY <1>2 DEF HashInv
<1>4. QED
  BY <1>1, <1>3 DEF DownloadInv

\* The plan is made of the pointer, whatever it says.
LEMMA ReadPointerInv ==
  ASSUME DownloadInv, ReadPointer, phase' # "failed"
  PROVE  DownloadInv'
<1>1. phase = "plan" /\ phase' = "start" /\ refs' \in Pointers
      /\ total' = FileOffsets(refs')[Len(refs')]
      /\ UNCHANGED <<disk, signals, pending, watermark, folded, hasher, task>>
  BY DEF ReadPointer, hashVars
<1>2. IdleInv'
  BY <1>1 DEF DownloadInv, IdleInv
<1>3. /\ Len(refs') \in Nat /\ DOMAIN refs' = 1..Len(refs')
      /\ \A i \in 1..Len(refs') : refs'[i].off \in Nat /\ refs'[i].size \in Nat
  BY <1>1, PackAssumption
<1>4. RefsInv'
  <2>1. Len(refs') \in 0..Len(refs')
    BY <1>3
  <2>2. total' \in Nat
    BY <1>1, <1>3, <2>1, OffsetFacts
  <2>3. QED
    BY <1>3, <2>2 DEF RefsInv
<1>5. HashInv'
  <2>1. signals' = <<>> /\ DOMAIN pending' = {} /\ watermark' = 0 /\ folded' = <<>> /\ hasher' = "off"
    BY <1>1, <1>2 DEF IdleInv
  <2>2. signals' \in Seq(Seq(Extents'))
        /\ \E n \in 0..watermark' : 1..n \subseteq DOMAIN disk' /\ folded' = [k \in 1..n |-> disk'[k]]
    BY <2>1, NothingFolded
  <2>3. QED
    BY <2>1, <2>2 DEF HashInv
<1>6. TaskInv' /\ EndInv'
  BY <1>1, <1>2 DEF TaskInv, IdleInv, EndInv
<1>7. QED
  BY <1>2, <1>4, <1>5, <1>6 DEF DownloadInv

\* The tasks and the hasher start on an empty file.
LEMMA StartInv ==
  ASSUME DownloadInv, Start
  PROVE  DownloadInv'
<1>1. phase = "start" /\ phase' = "fetch" /\ disk' = [k \in 1..total |-> Hole] /\ hasher' = "open"
      /\ task' = [p \in Used |-> NoTask]
      /\ UNCHANGED <<total, refs, signals, pending, watermark, folded>>
  BY DEF Start, SpawnHasher
<1>2. RefsInv /\ IdleInv
  BY <1>1 DEF DownloadInv
<1>3. RefsInv' /\ IdleInv'
  BY <1>1, <1>2 DEF RefsInv, IdleInv
<1>4. TaskInv'
  <2>1. NoTask \in TaskSet({<<>>}, {0})
    BY DEF NoTask, TaskSet, Running
  <2>2. IsTask(NoTask)
    BY <2>1 DEF IsTask
  <2>3. QED
    BY <1>1, <2>2 DEF TaskInv
<1>5. HashInv'
  <2>1. signals' = <<>> /\ DOMAIN pending' = {} /\ watermark' = 0 /\ folded' = <<>> /\ hasher' = "open"
    BY <1>1, <1>2 DEF IdleInv
  <2>2. signals' \in Seq(Seq(Extents'))
        /\ \E n \in 0..watermark' : 1..n \subseteq DOMAIN disk' /\ folded' = [k \in 1..n |-> disk'[k]]
    BY <2>1, NothingFolded
  <2>3. QED
    BY <2>1, <2>2 DEF HashInv
<1>6. EndInv'
  BY <1>1 DEF EndInv
<1>7. QED
  BY <1>3, <1>4, <1>5, <1>6 DEF DownloadInv

\* Steps of the download that touch neither the tasks nor the bytes.
LEMMA BytesKept ==
  ASSUME DownloadInv, phase # "failed",
         UNCHANGED <<refs, total, disk, task, pending, watermark, folded, hasher, signals>>,
         phase' \notin {"plan", "start"} \/ phase' = phase, EndInv'
  PROVE  DownloadInv'
<1>1. RefsInv /\ TaskInv /\ HashInv /\ IdleInv
  BY DEF DownloadInv
<1>2. HashInv'
  BY <1>1, HashKept DEF Ok
<1>3. RefsInv' /\ TaskInv' /\ IdleInv'
  BY <1>1 DEF RefsInv, TaskInv, IdleInv
<1>4. QED
  BY <1>2, <1>3 DEF DownloadInv

LEMMA JoinAllInv ==
  ASSUME DownloadInv, JoinAll
  PROVE  DownloadInv'
<1>1. /\ phase = "fetch" /\ phase' = "digest" /\ \A p \in DOMAIN task : task[p].st = "ok"
      /\ UNCHANGED <<refs, total, disk, task, pending, watermark, folded, hasher, signals>>
  BY DEF JoinAll, InState, hashVars
<1>2. EndInv'
  BY <1>1 DEF DownloadInv, EndInv
<1>3. QED
  BY <1>1, <1>2, BytesKept

\* The digest the hasher gives is the one of the file on disk.
LEMMA ResolveInv ==
  ASSUME DownloadInv, Resolve, phase' # "failed"
  PROVE  DownloadInv'
<1>1. phase = "digest" /\ phase' = "done" /\ (IF hasher = "digest" THEN folded ELSE disk) = File
      /\ UNCHANGED <<refs, total, disk, task, pending, watermark, folded, hasher, signals>>
  BY DEF Resolve, Matches, hashVars
<1>2. RefsInv /\ HashInv /\ disk = [k \in 1..total |-> disk[k]]
      /\ \A p \in DOMAIN task : task[p].st = "ok"
  BY <1>1 DEF DownloadInv, EndInv
<1>3. disk = File
  <2>1. CASE hasher = "digest"
    <3>1. PICK n \in 0..watermark : folded = [k \in 1..n |-> disk[k]]
      BY <1>2 DEF HashInv
    <3>2. n \in Nat
      BY <1>2 DEF HashInv
    <3>3. n = total
      BY <1>2, <2>1, <3>1, <3>2, PrefixGrows DEF HashInv
    <3>4. folded = disk
      BY <1>2, <3>1, <3>3
    <3>5. QED
      BY <1>1, <2>1, <3>4
  <2>2. CASE hasher # "digest"
    BY <1>1, <2>2
  <2>3. QED
    BY <2>1, <2>2
<1>4. phase = "digest" /\ phase' = "done"
      /\ UNCHANGED <<refs, total, disk, task, pending, watermark, folded, hasher, signals>>
  BY <1>1
<1>5. EndInv'
  BY <1>2, <1>3, <1>4 DEF EndInv
<1>6. QED
  BY <1>4, <1>5, BytesKept

LEMMA NextInv ==
  ASSUME DownloadInv, [Next]_vars
  PROVE  DownloadInv'
<1>1. CASE phase' = "failed"
  BY <1>1 DEF DownloadInv
<1> SUFFICES ASSUME phase' # "failed" PROVE DownloadInv'
  BY <1>1
<1>2. CASE MainStep
  <2>1. ~StartFails /\ ~JoinFails /\ ~RereadFails
    BY DEF StartFails, JoinFails, RereadFails
  <2>2. QED
    BY <1>2, <2>1, ReadPointerInv, StartInv, JoinAllInv, ResolveInv DEF MainStep
<1>3. ASSUME NEW p \in DOMAIN task, TaskStep(p) \/ (Ready(p) /\ (Acquire(p) \/ AcquireGlobal(p)))
      PROVE  DownloadInv'
  <2>1. phase' = phase
    BY <1>3 DEF TaskStep, Backoff, Fetched, Signal, AttemptFails, Scatter, ScatterEnds, Acquire, AcquireGlobal
  <2>2. phase # "failed"
    BY <2>1
  <2>3. QED
    BY <1>3, <2>2, GateInv, FailInv, ScatterInv, ScatterEndsInv, SignalInv DEF TaskStep
<1>4. CASE HashStep /\ UNCHANGED packVars
  <2>1. UNCHANGED <<phase, refs, task, others>> /\ phase # "failed"
    BY <1>4 DEF packVars
  <2>2. RefsInv /\ TaskInv /\ IdleInv /\ HashInv /\ EndInv
    BY <2>1 DEF DownloadInv
  <2>3. HashInv' /\ UNCHANGED <<total, disk>>
    BY <1>4, <2>2, HashStepInv
  <2>4. phase \notin {"plan", "start"}
    BY <1>4, <2>2 DEF HashStep, OpenDest, Receive, Advance, Fold, ReadFails, CloseHash, IdleInv
  <2>5. RefsInv' /\ TaskInv' /\ IdleInv' /\ EndInv'
    BY <2>1, <2>2, <2>3, <2>4 DEF RefsInv, TaskInv, IdleInv, EndInv
  <2>6. QED
    BY <2>3, <2>5 DEF DownloadInv
<1>5. CASE OthersTake \/ OthersReturn \/ Over \/ UNCHANGED vars
  <2>1. UNCHANGED <<phase, refs, total, disk, task, pending, watermark, folded, hasher, signals>>
    BY <1>5 DEF OthersTake, OthersReturn, Over, vars, hashVars, packVars
  <2>2. phase # "failed" /\ EndInv'
    BY <2>1 DEF DownloadInv, EndInv
  <2>3. QED
    BY <2>1, <2>2, BytesKept
<1>6. QED
  BY <1>2, <1>3, <1>4, <1>5 DEF Next

(***************************************************************************)
(* A chunked download that returns has assembled the file the manifest     *)
(* names, whatever pointer and packs it was served, however often a pack   *)
(* was retried over its own half-written chunks, and whether the digest    *)
(* came from the overlapped hasher or from reading the file again          *)
(* (verify_file_digest, src/chunk_fetcher/assemble.rs).                    *)
(***************************************************************************)
THEOREM ReturnsOnlyTheFile == Spec => []OnlyTheFile
<1>1. DownloadInv => OnlyTheFile
  BY DEF DownloadInv, EndInv, OnlyTheFile
<1>2. QED
  BY <1>1, InitInv, NextInv, PTL DEF Spec

-----------------------------------------------------------------------------
(* The ranges of the probe. *)

LEMMA DivFacts ==
  ASSUME NEW a \in Nat, NEW c \in Nat \ {0}
  PROVE  a \div c \in Nat /\ c * (a \div c) <= a /\ a < c * (a \div c) + c
OBVIOUS

LEMMA TimesLess ==
  ASSUME NEW a \in Nat, NEW b \in Nat, NEW c \in Nat \ {0}, a < b
  PROVE  a * c + c <= b * c /\ a * c \in Nat /\ b * c \in Nat
OBVIOUS

LEMMA TimesLessInv ==
  ASSUME NEW a \in Nat, NEW b \in Nat, NEW c \in Nat \ {0}, a * c < b * c
  PROVE  a < b
OBVIOUS

LEMMA CeilFacts ==
  ASSUME NEW a \in Nat \ {0}, NEW c \in Nat \ {0}
  PROVE  /\ DivCeil(a, c) \in Nat \ {0}
         /\ a <= DivCeil(a, c) * c /\ DivCeil(a, c) * c <= a + c - 1
<1> DEFINE q == (a + c - 1) \div c
<1>1. a + c - 1 \in Nat
  OBVIOUS
<1>2. q \in Nat /\ c * q <= a + c - 1 /\ a + c - 1 < c * q + c
  BY <1>1, DivFacts
<1>3. DivCeil(a, c) = q
  BY DEF DivCeil
<1> HIDE DEF q
<1>4. c * q = q * c /\ q * c \in Nat
  BY <1>2
<1>5. a <= q * c /\ q * c <= a + c - 1
  BY <1>2, <1>4
<1>6. q # 0
  BY <1>5
<1>7. QED
  BY <1>2, <1>3, <1>5, <1>6

\* Ceiling division twice: no more ranges than connections.
LEMMA NoMoreThan ==
  ASSUME NEW t \in Nat \ {0}, NEW n \in Nat \ {0}
  PROVE  DivCeil(t, n) \in Nat \ {0} /\ DivCeil(t, DivCeil(t, n)) <= n
<1> DEFINE c == DivCeil(t, n)
           q == DivCeil(t, c)
<1>1. c \in Nat \ {0} /\ t <= c * n
  BY CeilFacts
<1>2. q \in Nat \ {0} /\ q * c <= t + c - 1
  BY <1>1, CeilFacts
<1> HIDE DEF c, q
<1>3. q * c < (n + 1) * c
  <2>1. (n + 1) * c = c * n + c /\ c * n \in Nat /\ q * c \in Nat
    BY <1>1, <1>2
  <2>2. QED
    BY <1>1, <1>2, <2>1
<1>4. q < n + 1
  BY <1>1, <1>2, <1>3, TimesLessInv
<1>5. QED
  BY <1>1, <1>2, <1>4 DEF c, q

\* Ranges of c bytes of a total of t.
Cut(t, c, i) == [start |-> (i - 1) * c, end |-> Least(i * c, t) - 1]

LEMMA CutFacts ==
  ASSUME NEW t \in Nat \ {0}, NEW c \in Nat \ {0}, NEW i \in 1..DivCeil(t, c)
  PROVE  /\ i \in Nat /\ Cut(t, c, i).start = (i - 1) * c /\ (i - 1) * c \in Nat /\ i * c = (i - 1) * c + c
         /\ Cut(t, c, i).end \in Nat /\ Cut(t, c, i).start <= Cut(t, c, i).end /\ Cut(t, c, i).end < t
         /\ \A b \in Nat : b \in Cut(t, c, i).start..Cut(t, c, i).end
                             <=> b < t /\ (i - 1) * c <= b /\ b < (i - 1) * c + c
<1> DEFINE q == DivCeil(t, c)
           s == (i - 1) * c
           e == Least(i * c, t) - 1
<1>1. q \in Nat \ {0} /\ q * c <= t + c - 1
  BY CeilFacts
<1>2. i \in Nat /\ i - 1 \in Nat /\ i - 1 < q
  BY <1>1
<1>3. s + c <= q * c /\ s \in Nat /\ q * c \in Nat
  <2> DEFINE k == i - 1
  <2>1. k \in Nat /\ k < q /\ s = k * c
    BY <1>2
  <2> HIDE DEF k, s, q
  <2>2. QED
    BY <1>1, <2>1, TimesLess
<1>4. i * c = s + c
  BY <1>2
<1> HIDE DEF q
<1>5. Cut(t, c, i).start = s /\ Cut(t, c, i).end = e
  BY DEF Cut
<1>6. e = IF s + c < t THEN s + c - 1 ELSE t - 1
  BY <1>4 DEF Least
<1> HIDE DEF s, e
<1>7. s < t
  BY <1>1, <1>3
<1>8. e \in Nat /\ s <= e /\ e < t
  BY <1>3, <1>6, <1>7
<1>9. \A b \in Nat : b \in s..e <=> b < t /\ s <= b /\ b < s + c
  BY <1>3, <1>6, <1>7
<1>10. QED
  BY <1>2, <1>3, <1>4, <1>5, <1>8, <1>9 DEF s

\* Every byte is in one range.
LEMMA CutOnce ==
  ASSUME NEW t \in Nat \ {0}, NEW c \in Nat \ {0}, NEW b \in 0..(t - 1)
  PROVE  Cardinality({i \in 1..DivCeil(t, c) : b \in Cut(t, c, i).start..Cut(t, c, i).end}) = 1
<1> DEFINE q == DivCeil(t, c)
           k == b \div c
           I == {i \in 1..q : b \in Cut(t, c, i).start..Cut(t, c, i).end}
<1>1. q \in Nat \ {0} /\ t <= q * c
  BY CeilFacts
<1>2. b \in Nat /\ b < t
  OBVIOUS
<1>3. k \in Nat /\ c * k <= b /\ b < c * k + c
  BY <1>2, DivFacts
<1>4. \A i \in 1..q : i \in Nat /\ i - 1 \in Nat /\ (i - 1) * c \in Nat
                      /\ (i \in I <=> (i - 1) * c <= b /\ b < (i - 1) * c + c)
  <2> SUFFICES ASSUME NEW i \in 1..q
               PROVE  i \in Nat /\ i - 1 \in Nat /\ (i - 1) * c \in Nat
                      /\ (i \in I <=> (i - 1) * c <= b /\ b < (i - 1) * c + c)
    OBVIOUS
  <2>1. i \in Nat /\ i - 1 \in Nat
    BY <1>1
  <2>2. QED
    BY <1>2, <2>1, CutFacts
<1> HIDE DEF q, k
<1>5. c * k = k * c /\ k * c \in Nat
  BY <1>3
<1>6. k * c < q * c
  BY <1>1, <1>2, <1>3, <1>5
<1>7. k < q
  BY <1>1, <1>3, <1>6, TimesLessInv
<1>8. k + 1 \in I
  <2>1. k + 1 \in 1..q /\ (k + 1) - 1 = k
    BY <1>1, <1>3, <1>7
  <2> HIDE DEF I
  <2>2. QED
    BY <1>3, <1>4, <1>5, <2>1
<1>9. ASSUME NEW i \in I PROVE i = k + 1
  <2> DEFINE j == i - 1
  <2>1. i \in 1..q
    OBVIOUS
  <2> HIDE DEF I
  <2>2. i \in Nat /\ j \in Nat /\ j * c \in Nat /\ j * c <= b /\ b < j * c + c /\ i = j + 1
    BY <1>4, <2>1
  <2> HIDE DEF j
  <2>3. ~(j < k)
    <3> SUFFICES ASSUME j < k PROVE FALSE
      OBVIOUS
    <3>1. j * c + c <= k * c
      BY <1>3, <2>2, TimesLess
    <3>2. QED
      BY <1>2, <1>3, <1>5, <2>2, <3>1
  <2>4. ~(k < j)
    <3> SUFFICES ASSUME k < j PROVE FALSE
      OBVIOUS
    <3>1. k * c + c <= j * c
      BY <1>3, <2>2, TimesLess
    <3>2. QED
      BY <1>2, <1>3, <1>5, <2>2, <3>1
  <2>5. QED
    BY <1>3, <2>2, <2>3, <2>4
<1>10. I = {k + 1}
  <2> HIDE DEF I
  <2>1. QED
    BY <1>8, <1>9
<1> HIDE DEF I
<1>11. Cardinality(I) = 1
  BY <1>10, FS_Singleton
<1>12. QED
  BY <1>11 DEF I, q

Increasing(s) == \A i, j \in DOMAIN s : i < j => s[i] < s[j]

\* A set of range indexes can be listed in order.
LEMMA CanBeListed ==
  \A n \in Nat : \A S \in SUBSET (1..n) :
    \E s \in [1..Cardinality(S) -> S] : Increasing(s)
<1> DEFINE Good == {n \in Nat : \A S \in SUBSET (1..n) :
                                  \E s \in [1..Cardinality(S) -> S] : Increasing(s)}
<1>1. 0 \in Good
  <2> SUFFICES ASSUME NEW S \in SUBSET (1..0)
               PROVE  \E s \in [1..Cardinality(S) -> S] : Increasing(s)
    OBVIOUS
  <2>1. S = {}
    OBVIOUS
  <2>2. Cardinality(S) = 0
    BY <2>1, FS_EmptySet
  <2>3. [i \in 1..0 |-> i] \in [1..Cardinality(S) -> S] /\ Increasing([i \in 1..0 |-> i])
    BY <2>2 DEF Increasing
  <2>4. QED
    BY <2>3
<1>2. ASSUME NEW n \in Good PROVE n + 1 \in Good
  <2>1. n \in Nat /\ n + 1 \in Nat
    OBVIOUS
  <2> SUFFICES ASSUME NEW S \in SUBSET (1..(n + 1))
               PROVE  \E s \in [1..Cardinality(S) -> S] : Increasing(s)
    BY <2>1
  <2>2. CASE n + 1 \notin S
    <3>1. S \in SUBSET (1..n)
      BY <2>1, <2>2
    <3>2. QED
      BY <3>1
  <2>3. CASE n + 1 \in S
    <3> DEFINE T == S \ {n + 1}
               k == Cardinality(T)
    <3>1. T \in SUBSET (1..n) /\ T \subseteq S
      BY <2>1
    <3>2. PICK s \in [1..k -> T] : Increasing(s)
      BY <3>1
    <3>3. IsFiniteSet(1..(n + 1))
      BY <2>1, FS_Interval
    <3>4. IsFiniteSet(S)
      BY <3>3, FS_Subset
    <3>5. k = Cardinality(S) - 1 /\ Cardinality(S) \in Nat /\ IsFiniteSet(T)
      BY <3>4, <2>3, FS_RemoveElement, FS_CardinalityType
    <3>6. k \in Nat /\ Cardinality(S) = k + 1
      BY <3>5, FS_CardinalityType
    <3> HIDE DEF k, T
    <3> DEFINE s2 == [i \in 1..(k + 1) |-> IF i = k + 1 THEN n + 1 ELSE s[i]]
    <3>7. \A i \in 1..(k + 1) : i = k + 1 \/ (i \in 1..k /\ s[i] \in T)
      BY <3>2, <3>6
    <3>8. s2 \in [1..(k + 1) -> S]
      BY <2>3, <3>1, <3>7
    <3>9. Increasing(s2)
      <4> SUFFICES ASSUME NEW i \in 1..(k + 1), NEW j \in 1..(k + 1), i < j
                   PROVE  s2[i] < s2[j]
        BY DEF Increasing
      <4>1. i \in 1..k /\ s2[i] = s[i] /\ s[i] \in 1..n
        <5>1. i \in 1..k /\ i # k + 1
          BY <3>6
        <5>2. s[i] \in T
          BY <3>2, <5>1
        <5>3. QED
          BY <3>1, <5>1, <5>2
      <4>2. CASE j = k + 1
        BY <2>1, <4>1, <4>2
      <4>3. CASE j # k + 1
        <5>1. j \in 1..k /\ s2[j] = s[j]
          BY <3>6, <4>3
        <5>2. QED
          BY <3>2, <4>1, <5>1 DEF Increasing
      <4>4. QED
        BY <4>2, <4>3
    <3>10. QED
      BY <3>6, <3>8, <3>9
  <2>4. QED
    BY <2>2, <2>3
<1>3. Good \in SUBSET Nat
  OBVIOUS
<1> HIDE DEF Good
<1>4. \A n \in Nat : n \in Good
  BY <1>1, <1>2, <1>3, NatInd
<1>5. QED
  BY <1>4 DEF Good

\* The report lists them in order, each once.
LEMMA InOrderFacts ==
  ASSUME NEW n \in Nat, NEW S \in SUBSET (1..n)
  PROVE  InOrder(S) \in [1..Cardinality(S) -> S] /\ Increasing(InOrder(S))
<1>1. \E s \in [1..Cardinality(S) -> S] : \A i, j \in DOMAIN s : i < j => s[i] < s[j]
  BY CanBeListed DEF Increasing
<1>2. /\ InOrder(S) \in [1..Cardinality(S) -> S]
      /\ \A i, j \in DOMAIN InOrder(S) : i < j => InOrder(S)[i] < InOrder(S)[j]
  BY <1>1, Zenon DEF InOrder
<1>3. QED
  BY <1>2 DEF Increasing

-----------------------------------------------------------------------------
(* The invariant of the probe. *)

ProbeTypes ==
  /\ size \in Nat /\ want \in Nat /\ conns \in Nat \ {0}
  /\ probe \in Nat /\ effective \in Nat
  /\ pc \in {"dns", "tcp", "head", "single", "parallel", "done", "failed"}

\* No range before the parallel phase, and none in a failed probe.
NoRangesYet == pc \in {"dns", "tcp", "head", "single", "failed"} => get = <<>>

\* The notes are written last.
NoNotesYet == pc # "done" => errors = 0

\* There is something to read.
SomethingToRead == pc = "single" => probe # 0

\* The ranges are cut from bytes that are there.
RangesFit ==
  pc = "parallel" =>
    /\ effective <= size
    /\ get = [i \in DOMAIN Ranges |-> get[i]]

\* A report accounts for every range.
Accounted ==
  pc = "done" /\ get # <<>> =>
    Increasing(chunks) /\ Len(chunks) + errors = Len(Ranges)

ProbeInv ==
  /\ ProbeTypes /\ NoRangesYet /\ NoNotesYet /\ SomethingToRead /\ RangesFit
  /\ Accounted

LEMMA RangesDomain ==
  ASSUME NEW t \in Nat, NEW n \in Nat \ {0}
  PROVE  /\ Len(SplitRanges(t, n)) \in Nat
         /\ DOMAIN SplitRanges(t, n) = 1..Len(SplitRanges(t, n))
         /\ Len(SplitRanges(t, n)) <= n
         /\ t = 0 => SplitRanges(t, n) = <<>>
         /\ t # 0 => LET c == DivCeil(t, n)
                     IN  SplitRanges(t, n) = [i \in 1..DivCeil(t, c) |-> Cut(t, c, i)]
<1>1. CASE t = 0
  BY <1>1 DEF SplitRanges
<1>2. CASE t # 0
  <2> DEFINE c == DivCeil(t, n)
             q == DivCeil(t, c)
             f == [i \in 1..q |-> Cut(t, c, i)]
  <2>1. c \in Nat \ {0} /\ q <= n
    BY <1>2, NoMoreThan
  <2>2. q \in Nat
    BY <1>2, <2>1, CeilFacts
  <2>3. SplitRanges(t, n) = f
    BY <1>2 DEF SplitRanges, Cut
  <2> HIDE DEF c, q
  <2>4. DOMAIN f = 1..q
    OBVIOUS
  <2>5. Len(f) = q
    BY <2>2, <2>4
  <2> HIDE DEF f
  <2>6. QED
    BY <1>2, <2>1, <2>2, <2>3, <2>4, <2>5 DEF c, q, f
<1>3. QED
  BY <1>1, <1>2

LEMMA ProbeInitInv == ProbeInit => ProbeInv
<1> SUFFICES ASSUME ProbeInit PROVE ProbeInv
  OBVIOUS
<1>1. ProbeTypes
  BY ProbeAssumption DEF ProbeInit, ProbeTypes
<1>2. QED
  BY <1>1 DEF ProbeInit, ProbeInv, NoRangesYet, NoNotesYet, SomethingToRead, RangesFit, Accounted

LEMMA LookupInv == ProbeInv /\ Lookup => ProbeInv'
<1> SUFFICES ASSUME ProbeInv, Lookup PROVE ProbeInv'
  OBVIOUS
<1>1. pc = "dns" /\ pc' \in {"tcp", "failed"}
  BY DEF Lookup
<1>2. UNCHANGED <<blob, probe, effective, get, chunks, errors>>
  BY DEF Lookup
<1>3. QED
  BY <1>1, <1>2
  DEF ProbeInv, ProbeTypes, NoRangesYet, NoNotesYet, SomethingToRead, RangesFit, Accounted, blob

LEMMA ConnectInv == ProbeInv /\ Connect => ProbeInv'
<1> SUFFICES ASSUME ProbeInv, Connect PROVE ProbeInv'
  OBVIOUS
<1>1. pc = "tcp" /\ pc' \in {"head", "tcp", "failed"}
  BY DEF Connect
<1>2. UNCHANGED <<blob, probe, effective, get, chunks, errors>>
  BY DEF Connect
<1>3. QED
  BY <1>1, <1>2
  DEF ProbeInv, ProbeTypes, NoRangesYet, NoNotesYet, SomethingToRead, RangesFit, Accounted, blob

LEMMA HeadRequestInv == ProbeInv /\ HeadRequest => ProbeInv'
<1> SUFFICES ASSUME ProbeInv, HeadRequest PROVE ProbeInv'
  OBVIOUS
<1>1. pc = "head" /\ pc' \in {"done", "single", "failed"}
  BY DEF HeadRequest
<1>2. UNCHANGED <<blob, get, chunks>>
  BY DEF HeadRequest
<1>3. size \in Nat /\ want \in Nat /\ conns \in Nat \ {0} /\ get = <<>> /\ errors = 0
      /\ probe \in Nat /\ effective \in Nat
  BY <1>1 DEF ProbeInv, ProbeTypes, NoRangesYet, NoNotesYet
<1>4. /\ probe' \in Nat /\ effective' \in Nat /\ (pc' # "done" => errors' = 0)
      /\ (pc' = "single" => probe' # 0)
  <2>1. CASE pc' = "failed" /\ UNCHANGED <<probe, effective, errors>>
    BY <1>3, <2>1
  <2>2. ASSUME NEW length \in {NoLength} \cup 0..MaxSize,
               probe' = Clamp(length), effective' = probe',
               pc' = IF probe' = 0 THEN "done" ELSE "single",
               errors' = IF probe' = 0 THEN errors + 1 ELSE errors
        PROVE  /\ probe' \in Nat /\ effective' \in Nat /\ (pc' # "done" => errors' = 0)
               /\ (pc' = "single" => probe' # 0)
    <3>1. Clamp(length) \in Nat
      BY <1>3 DEF Clamp, Least
    <3>2. QED
      BY <1>3, <2>2, <3>1
  <2>3. QED
    BY <2>1, <2>2 DEF HeadRequest
<1>5. QED
  BY <1>1, <1>2, <1>3, <1>4
  DEF ProbeInv, ProbeTypes, NoRangesYet, NoNotesYet, SomethingToRead, RangesFit, Accounted, blob

\* A single stream reads no more than the blob has.
LEMMA SingleReads ==
  ASSUME ProbeTypes, probe # 0, NEW got \in TimedGetRange(0, probe - 1)
  PROVE  got \in Nat /\ got <= size
<1>1. size \in Nat /\ probe - 1 \in Nat /\ probe \in Nat
  BY DEF ProbeTypes
<1>2. CASE ranged
  BY <1>1, <1>2 DEF TimedGetRange, Least
<1>3. CASE ~ranged
  BY <1>1, <1>3 DEF TimedGetRange, Least
<1>4. QED
  BY <1>2, <1>3

LEMMA SingleInv == ProbeInv /\ Single => ProbeInv'
<1> SUFFICES ASSUME ProbeInv, Single PROVE ProbeInv'
  OBVIOUS
<1>1. pc = "single" /\ UNCHANGED <<blob, probe, chunks, errors>>
  BY DEF Single
<1>2. /\ size \in Nat /\ want \in Nat /\ conns \in Nat \ {0} /\ get = <<>> /\ errors = 0
      /\ probe \in Nat /\ probe # 0 /\ effective \in Nat
  BY <1>1 DEF ProbeInv, ProbeTypes, NoRangesYet, NoNotesYet, SomethingToRead
<1>3. CASE pc' = "failed" /\ UNCHANGED <<effective, get>>
  BY <1>1, <1>2, <1>3
  DEF ProbeInv, ProbeTypes, NoRangesYet, NoNotesYet, SomethingToRead, RangesFit, Accounted, blob
<1>4. ASSUME NEW got \in TimedGetRange(0, probe - 1), pc' = "parallel", effective' = got,
             get' = [i \in DOMAIN SplitRanges(got, conns) |-> "queued"]
      PROVE  ProbeInv'
  <2>1. got \in Nat /\ got <= size
    BY <1>2, SingleReads DEF ProbeInv
  <2>2. Ranges' = SplitRanges(got, conns)
    BY <1>1, <1>4 DEF Ranges, blob
  <2>3. RangesFit'
    <3>1. get' = [i \in DOMAIN Ranges' |-> "queued"]
      BY <1>4, <2>2
    <3>2. get' = [i \in DOMAIN Ranges' |-> get'[i]]
      BY <3>1
    <3>3. QED
      BY <1>1, <1>4, <2>1, <3>2 DEF RangesFit, blob
  <2>4. QED
    BY <1>1, <1>2, <1>4, <2>1, <2>3
    DEF ProbeInv, ProbeTypes, NoRangesYet, NoNotesYet, SomethingToRead, Accounted, blob
<1>5. QED
  BY <1>3, <1>4 DEF Single

\* A request that starts or ends leaves the ranges alone.
LEMMA GetInv ==
  ASSUME ProbeInv, NEW i \in DOMAIN get, StartGet(i) \/ EndGet(i)
  PROVE  ProbeInv'
<1>1. pc = "parallel" /\ UNCHANGED <<blob, pc, probe, effective, chunks, errors>>
  BY DEF StartGet, EndGet
<1>2. PICK r : get' = [get EXCEPT ![i] = r]
  BY DEF StartGet, EndGet
<1>3. RangesFit'
  <2>1. effective <= size /\ get = [j \in DOMAIN Ranges |-> get[j]] /\ Ranges' = Ranges
    BY <1>1 DEF ProbeInv, RangesFit, Ranges, blob
  <2>2. get' = [j \in DOMAIN Ranges' |-> get'[j]]
    BY <1>2, <2>1
  <2>3. QED
    BY <1>1, <2>1, <2>2 DEF RangesFit, blob
<1>4. QED
  BY <1>1, <1>3
  DEF ProbeInv, ProbeTypes, NoRangesYet, NoNotesYet, SomethingToRead, Accounted, blob

LEMMA ReportInv == ProbeInv /\ Report => ProbeInv'
<1> SUFFICES ASSUME ProbeInv, Report PROVE ProbeInv'
  OBVIOUS
<1> DEFINE n == Len(Ranges)
           k == Cardinality(Read)
<1>1. pc = "parallel" /\ pc' = "done" /\ UNCHANGED <<blob, probe, effective, get>>
      /\ chunks' = InOrder(Read) /\ errors' = errors + Cardinality(DOMAIN get \ Read)
  BY DEF Report
<1>2. effective \in Nat /\ conns \in Nat \ {0} /\ errors = 0
  BY <1>1 DEF ProbeInv, ProbeTypes, NoNotesYet
<1>3. n \in Nat /\ DOMAIN Ranges = 1..n
  BY <1>2, RangesDomain DEF Ranges
<1>4. DOMAIN get = 1..n
  BY <1>1, <1>3 DEF ProbeInv, RangesFit
<1>5. Read \in SUBSET (1..n)
  BY <1>4 DEF Read
<1> HIDE DEF n
<1>6. InOrder(Read) \in [1..k -> Read] /\ Increasing(InOrder(Read))
  BY <1>3, <1>5, InOrderFacts
<1>7. IsFiniteSet(1..n) /\ Cardinality(1..n) = n
  BY <1>3, FS_Interval
<1>8. k \in Nat /\ Cardinality((1..n) \ Read) = n - k
  <2>1. IsFiniteSet(Read) /\ (1..n) \cap Read = Read
    BY <1>5, <1>7, FS_Subset
  <2>2. Cardinality((1..n) \ Read) = Cardinality(1..n) - Cardinality((1..n) \cap Read)
    BY <1>7, FS_Difference
  <2>3. QED
    BY <1>7, <2>1, <2>2, FS_CardinalityType
<1> HIDE DEF k
<1>9. Len(chunks') = k
  BY <1>1, <1>6, <1>8
<1>10. Len(chunks') + errors' = n
  BY <1>1, <1>2, <1>3, <1>4, <1>8, <1>9
<1>11. Ranges' = Ranges
  BY <1>1 DEF Ranges, blob
<1>12. Accounted'
  BY <1>1, <1>6, <1>10, <1>11 DEF Accounted, n
<1>13. QED
  BY <1>1, <1>12
  DEF ProbeInv, ProbeTypes, NoRangesYet, NoNotesYet, SomethingToRead, RangesFit, blob

LEMMA ProbeNextInv == ProbeInv /\ [ProbeNext]_probeVars => ProbeInv'
<1> SUFFICES ASSUME ProbeInv, [ProbeNext]_probeVars PROVE ProbeInv'
  OBVIOUS
<1>1. CASE UNCHANGED probeVars
  BY <1>1
  DEF ProbeInv, ProbeTypes, NoRangesYet, NoNotesYet, SomethingToRead, RangesFit, Accounted,
      Ranges, probeVars, blob
<1>2. CASE Step
  BY <1>2, LookupInv, ConnectInv, HeadRequestInv, SingleInv, ReportInv, GetInv DEF Step
<1>3. QED
  BY <1>1, <1>2 DEF ProbeNext, Ended

LEMMA ProbeInvHolds == ProbeSpec => []ProbeInv
<1>1. QED
  BY ProbeInitInv, ProbeNextInv, PTL DEF ProbeSpec

LEMMA InvInsideBlob == ProbeInv => InsideBlob
<1> SUFFICES ASSUME ProbeInv, pc = "parallel" PROVE InsideBlob
  BY DEF InsideBlob
<1>1. effective <= size /\ effective \in Nat /\ size \in Nat /\ conns \in Nat \ {0}
      /\ DOMAIN get = DOMAIN Ranges
  BY DEF ProbeInv, ProbeTypes, RangesFit
<1>2. Len(Ranges) \in Nat /\ DOMAIN Ranges = 1..Len(Ranges) /\ Len(Ranges) <= conns
  BY <1>1, RangesDomain DEF Ranges
<1>3. Len(get) <= conns
  BY <1>1, <1>2
<1>4. CASE effective = 0
  <2>1. DOMAIN Ranges = {} /\ 0..(effective - 1) = {}
    BY <1>1, <1>4, RangesDomain DEF Ranges
  <2>2. QED
    BY <1>1, <1>3, <2>1 DEF InsideBlob
<1>5. CASE effective # 0
  <2> DEFINE c == DivCeil(effective, conns)
             q == DivCeil(effective, c)
  <2>1. c \in Nat \ {0}
    BY <1>1, <1>5, NoMoreThan
  <2>2. Ranges = [i \in 1..q |-> Cut(effective, c, i)]
    BY <1>1, <1>5, RangesDomain DEF Ranges
  <2> HIDE DEF c
  <2>3. DOMAIN Ranges = 1..q /\ \A i \in 1..q : Ranges[i] = Cut(effective, c, i)
    BY <2>2
  <2>4. \A b \in 0..(effective - 1) :
          Cardinality({i \in DOMAIN Ranges : b \in Ranges[i].start..Ranges[i].end}) = 1
    <3> SUFFICES ASSUME NEW b \in 0..(effective - 1)
                 PROVE  Cardinality({i \in DOMAIN Ranges : b \in Ranges[i].start..Ranges[i].end}) = 1
      OBVIOUS
    <3>1. {i \in DOMAIN Ranges : b \in Ranges[i].start..Ranges[i].end}
            = {i \in 1..q : b \in Cut(effective, c, i).start..Cut(effective, c, i).end}
      BY <2>3
    <3>2. QED
      BY <1>1, <1>5, <2>1, <3>1, CutOnce
  <2>5. \A i \in DOMAIN Ranges : Ranges[i].start <= Ranges[i].end /\ Ranges[i].end < size
    <3> SUFFICES ASSUME NEW i \in 1..q
                 PROVE  Ranges[i].start <= Ranges[i].end /\ Ranges[i].end < size
      BY <2>3
    <3>1. /\ Cut(effective, c, i).end \in Nat
          /\ Cut(effective, c, i).start <= Cut(effective, c, i).end
          /\ Cut(effective, c, i).end < effective
      BY <1>1, <1>5, <2>1, CutFacts
    <3>2. QED
      BY <1>1, <2>3, <3>1
  <2>6. QED
    BY <1>1, <1>3, <2>4, <2>5 DEF InsideBlob
<1>6. QED
  BY <1>4, <1>5

(***************************************************************************)
(* split_ranges and effective_bytes (diagnostics.rs): whatever the size of *)
(* the blob, the size asked for and the number of connections, the ranges  *)
(* of the parallel phase cover the bytes the single stream read, each once *)
(* (ceiling division twice leaves no gap, no overlap and no empty range),  *)
(* and lie inside the blob.                                                *)
(***************************************************************************)
THEOREM RangesCoverTheBlob == ProbeSpec => []InsideBlob
<1>1. QED
  BY ProbeInvHolds, InvInsideBlob, PTL

(***************************************************************************)
(* A probe past its single stream reports every range once, a timing in    *)
(* file order or a note, whichever of them fail (M-DIAG-ABORT).            *)
(***************************************************************************)
THEOREM EveryRangeReported == ProbeSpec => []PartialReport
<1>1. ProbeInv => PartialReport
  BY DEF ProbeInv, ProbeTypes, NoRangesYet, Accounted, Increasing, PartialReport
<1>2. QED
  BY <1>1, ProbeInvHolds, PTL
=============================================================================
