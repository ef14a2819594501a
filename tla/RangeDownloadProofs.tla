------------------------- MODULE RangeDownloadProofs -------------------------
(***************************************************************************)
(* A plain-blob download for any size, chunk size, window and number of    *)
(* retries: the digest is the file's, the file is the blob, and a failure  *)
(* has a cause.                                                            *)
(***************************************************************************)
EXTENDS RangeDownload, TLAPS

TaskStates ==
  {"idle", "gate", "send", "body", "backoff", "ok", "joined", "error", "refused", "aborted"}
Task == [st : TaskStates, at : Nat, left : Nat, got : Nat, buf : Seq(Int), retries : Nat]

\* The file has been created.
Made == disk \in [1..total -> Int]

TypeOK ==
  /\ case \in Cases /\ total = case.size /\ verify \in BOOLEAN
  /\ phase \in {"size", "prepare", "fanout", "digest", "done", "failed"}
  /\ disk = <<>> \/ Made
  /\ next \in Nat /\ task \in [Pieces -> Task]
  /\ stray \subseteq [at : Int, bytes : Seq(Int)]

Joined == InState("joined")
Region(i) == First(i)..Last(i)

\* Where the buffer of piece i goes.
From(i) == First(i) + task[i].got - Len(task[i].buf)

\* The bytes of a file, or of a buffer for offset 'at', are the blob's.
RightAt(d, lo, hi) == \A k \in lo..hi : d[k + 1] = k
RightBytes(bytes, at) == \A j \in 1..Len(bytes) : bytes[j] = at + j - 1

\* What a task has taken, and what it has left in the file.
Midway(i) ==
  /\ task[i].at = First(i) + task[i].got
  /\ Len(task[i].buf) <= task[i].got /\ task[i].got <= Expected(i)
  /\ ~case.corrupting => RightBytes(task[i].buf, From(i)) /\ RightAt(disk, First(i), From(i) - 1)

TaskInv(i) ==
  /\ IF task[i].st = "body" THEN Midway(i) ELSE task[i].got = 0 /\ task[i].buf = <<>>
  /\ task[i].st \in {"ok", "joined"} /\ ~case.corrupting => RightAt(disk, First(i), Last(i))
  /\ task[i].st = "error" => task[i].retries > MaxRetries

TasksInv == \A i \in Pieces : TaskInv(i) /\ (i >= next => task[i].st = "idle")

\* A write that lands late writes what is there, or will be.
StrayInv ==
  /\ stray # {} => case.straggling
  /\ ~case.corrupting => \A w \in stray : RightBytes(w.bytes, w.at)

\* Before the fan-out, and after it.
PhaseInv ==
  /\ phase \in {"size", "prepare"} =>
       /\ disk = <<>> /\ stray = {} /\ (\A i \in Pieces : task[i].st = "idle")
       /\ signals = <<>> /\ pending = NoExtents /\ watermark = 0 /\ folded = <<>> /\ hasher = "off"
  /\ phase \in {"fanout", "digest", "done"} => Made
  /\ phase \in {"digest", "done"} => Joined = Pieces
  /\ phase \in {"prepare", "fanout", "digest", "done"} => total = 0 \/ case.chunk # 0
  /\ FailsForCause

Extent(i) == <<[at |-> First(i), size |-> Expected(i)]>>

\* What the hasher knows of are joined pieces, and what it has read stays.
HashInv ==
  /\ hasher \in {"off", "open", "recv", "fold", "none", "digest"}
  /\ signals \in Seq({Extent(i) : i \in Joined})
  /\ \A o \in DOMAIN pending : \E i \in Joined : o = First(i) /\ pending[o] = Expected(i)
  /\ watermark \in Nat /\ \A k \in 0..(watermark - 1) : \E i \in Joined : k \in Region(i)
  /\ folded \in Seq(Int) /\ Len(folded) <= watermark
  /\ \A k \in 1..Len(folded) : folded[k] = disk[k]
  /\ hasher = "digest" => Len(folded) = total

\* A server that sends wrong bytes, or a system that writes late, but not both.
OneFault == \A c \in Cases : ~(c.corrupting /\ c.straggling)

FileInv == TypeOK /\ TasksInv /\ StrayInv /\ PhaseInv
RangeInv == FileInv /\ HashInv /\ DigestOfDisk

-----------------------------------------------------------------------------
(* Pieces.                                                                 *)

LEMMA DivFacts ==
  ASSUME NEW a \in Nat, NEW c \in Nat \ {0}
  PROVE  a \div c \in Nat /\ c * (a \div c) <= a /\ a < c * (a \div c) + c
OBVIOUS

LEMMA TimesLess ==
  ASSUME NEW a \in Nat, NEW b \in Nat, NEW c \in Nat \ {0}, a < b
  PROVE  a * c + c <= b * c /\ a * c \in Nat /\ b * c \in Nat
OBVIOUS

LEMMA TimesLessInv ==
  ASSUME NEW a \in Nat, NEW b \in Nat, NEW c \in Nat \ {0}, a * c < b * c
  PROVE  a < b
OBVIOUS

LEMMA MinusOne ==
  ASSUME NEW a \in Nat, NEW b \in Nat, NEW c \in Nat, a + b = c + 1
  PROVE  a + b - 1 = c
OBVIOUS

\* Of a region of e bytes from f to z, the first g, and the buffer's l.
LEMMA WithinRegion ==
  ASSUME NEW f \in Nat, NEW g \in Nat, NEW l \in Nat, NEW e \in Nat, NEW z \in Nat, NEW n \in Nat,
         f + e = z + 1, g <= e, z < n
  PROVE  /\ f + g - l \in Int /\ f + g - l - 1 \in Int /\ f + g - l - 1 <= z
         /\ \A k \in f..(f + g - 1) : k \in 0..(n - 1)
OBVIOUS

LEMMA OneMore ==
  ASSUME NEW f \in Nat, NEW g \in Nat, NEW l \in Nat, NEW e \in Nat, l <= g, g < e
  PROVE  f + g + 1 = f + (g + 1) /\ l + 1 <= g + 1 /\ g + 1 <= e
OBVIOUS

LEMMA Geometry ==
  ASSUME TypeOK, NEW i \in Pieces
  PROVE  /\ case.chunk \in Nat \ {0} /\ total \in Nat \ {0} /\ i \in Nat
         /\ First(i) \in Nat /\ Last(i) \in Nat /\ First(i) <= Last(i) /\ Last(i) < total
         /\ Expected(i) \in Nat \ {0} /\ First(i) + Expected(i) = Last(i) + 1
         /\ Last(i) < First(i) + case.chunk /\ First(i) = i * case.chunk
<1>1. total \in Nat /\ case.chunk \in Nat
  BY RangeAssumption DEF TypeOK
<1>2. total # 0 /\ case.chunk # 0
  BY DEF Pieces, NumChunks
<1> DEFINE c == case.chunk
           q == (total + c - 1) \div c
<1>3. i \in Nat /\ i < q /\ q \in Nat
  <2>1. q \in Nat
    BY <1>1, <1>2, DivFacts
  <2>2. Pieces = 0..(q - 1)
    BY <1>2 DEF Pieces, NumChunks
  <2>3. QED
    BY <2>1, <2>2
<1>4. c * q <= total + c - 1
  BY <1>1, <1>2, DivFacts
<1>5. i * c + c <= q * c /\ i * c \in Nat /\ q * c \in Nat
  BY <1>1, <1>2, <1>3, TimesLess
<1>6. q * c = c * q
  BY <1>1, <1>3
<1>7. i * c < total
  <2> HIDE DEF q
  <2>1. q * c <= total + c - 1
    BY <1>4, <1>6
  <2>2. QED
    BY <1>1, <1>2, <1>5, <2>1
<1>8. QED
  <2> HIDE DEF c, q
  <2>1. First(i) = i * c
    BY DEF First, c
  <2>2. First(i) \in Nat /\ First(i) < total
    BY <1>5, <1>7, <2>1
  <2>3. Last(i) = IF First(i) + c <= total THEN First(i) + c - 1 ELSE total - 1
    BY DEF Last, c
  <2>4. Expected(i) = Last(i) - First(i) + 1 /\ c \in Nat \ {0}
    BY <1>1, <1>2 DEF Expected, c
  <2>5. Last(i) \in Nat /\ First(i) <= Last(i) /\ Last(i) < total /\ Last(i) < First(i) + c
    BY <1>1, <2>2, <2>3, <2>4
  <2>6. Expected(i) \in Nat \ {0} /\ First(i) + Expected(i) = Last(i) + 1
    BY <2>2, <2>4, <2>5
  <2>7. First(i) = i * case.chunk /\ Last(i) < First(i) + case.chunk
    BY <2>1, <2>5 DEF c
  <2>8. QED
    BY <1>1, <1>2, <1>3, <2>2, <2>5, <2>6, <2>7

\* Every byte of the blob is in one piece, and in one only.
LEMMA Cover ==
  ASSUME TypeOK, NEW k \in 0..(total - 1), case.chunk # 0
  PROVE  \E i \in Pieces : k \in Region(i)
<1>1. total \in Nat \ {0} /\ case.chunk \in Nat \ {0} /\ k \in Nat
  BY RangeAssumption DEF TypeOK
<1> DEFINE c == case.chunk
           q == (total + c - 1) \div c
           i == k \div c
<1>2. q \in Nat /\ total + c - 1 < c * q + c
  BY <1>1, DivFacts
<1>3. i \in Nat /\ c * i <= k /\ k < c * i + c
  BY <1>1, DivFacts
<1>4. c * i = i * c /\ c * q = q * c /\ c * i \in Nat /\ c * q \in Nat
  BY <1>1, <1>2, <1>3
<1>5. i * c < q * c
  <2> HIDE DEF i, q, c
  <2>1. c \in Nat \ {0}
    BY <1>1 DEF c
  <2>2. k < c * q
    BY <1>1, <1>2, <1>4, <2>1
  <2>3. QED
    BY <1>1, <1>2, <1>3, <1>4, <2>2
<1>6. i < q
  BY <1>1, <1>2, <1>3, <1>5, TimesLessInv
<1>7. Pieces = 0..(q - 1)
  BY <1>1 DEF Pieces, NumChunks
<1>8. i \in Pieces
  <2> HIDE DEF i, q
  <2>1. QED
    BY <1>2, <1>3, <1>6, <1>7
<1>9. k \in Region(i)
  <2> HIDE DEF i
  <2>1. First(i) = c * i /\ First(i) \in Nat
    BY <1>4, <1>8, Geometry DEF c
  <2>2. Last(i) = IF First(i) + c <= total THEN First(i) + c - 1 ELSE total - 1
    BY DEF Last
  <2>3. QED
    <3> HIDE DEF c
    <3>1. c \in Nat
      BY <1>1 DEF c
    <3>2. QED
      BY <1>1, <1>3, <2>1, <2>2, <3>1 DEF Region
<1>10. QED
  BY <1>8, <1>9

LEMMA Disjoint ==
  ASSUME TypeOK, NEW i \in Pieces, NEW j \in Pieces, NEW k \in Region(i), k \in Region(j)
  PROVE  i = j
<1> DEFINE c == case.chunk
<1>1. /\ c \in Nat \ {0} /\ i \in Nat /\ j \in Nat
      /\ First(i) = i * c /\ First(j) = j * c /\ First(i) \in Nat /\ First(j) \in Nat
      /\ Last(i) < First(i) + c /\ Last(j) < First(j) + c /\ Last(i) \in Nat /\ Last(j) \in Nat
  BY Geometry
<1>2. k \in Nat /\ First(i) <= k /\ k < First(i) + c /\ First(j) <= k /\ k < First(j) + c
  <2> HIDE DEF c
  <2>1. QED
    BY <1>1 DEF Region
<1>3. ~(i < j)
  <2> SUFFICES ASSUME i < j PROVE FALSE
    OBVIOUS
  <2>1. i * c + c <= j * c
    BY <1>1, TimesLess
  <2> HIDE DEF c
  <2>2. QED
    BY <1>1, <1>2, <2>1
<1>4. ~(j < i)
  <2> SUFFICES ASSUME j < i PROVE FALSE
    OBVIOUS
  <2>1. j * c + c <= i * c
    BY <1>1, TimesLess
  <2> HIDE DEF c
  <2>2. QED
    BY <1>1, <1>2, <2>1
<1>5. QED
  BY <1>1, <1>3, <1>4

-----------------------------------------------------------------------------
(* Steps.                                                                  *)

\* One byte of a file that is written to.
LEMMA PutByte ==
  ASSUME NEW d, NEW at \in Int, NEW bytes \in Seq(Int), NEW k \in DOMAIN d, k \in Int
  PROVE  /\ DOMAIN Put(d, at, bytes) = DOMAIN d
         /\ Put(d, at, bytes)[k] = IF at + 1 <= k /\ k <= at + Len(bytes) THEN bytes[k - at] ELSE d[k]
<1>1. Len(bytes) \in Nat
  OBVIOUS
<1>2. QED
  BY <1>1 DEF Put

LEMMA PutMade ==
  ASSUME TypeOK, NEW at \in Int, NEW bytes \in Seq(Int)
  PROVE  /\ Made => Put(disk, at, bytes) \in [1..total -> Int]
         /\ disk = <<>> => Put(disk, at, bytes) = <<>>
<1>1. ASSUME disk = <<>> PROVE Put(disk, at, bytes) = <<>>
  BY <1>1 DEF Put
<1>2. ASSUME Made PROVE Put(disk, at, bytes) \in [1..total -> Int]
  <2>1. Len(bytes) \in Nat /\ (\A j \in 1..Len(bytes) : bytes[j] \in Int)
    OBVIOUS
  <2>2. ASSUME NEW k \in 1..total PROVE Put(disk, at, bytes)[k] \in Int
    <3>1. total \in Nat /\ k \in Int /\ k \in DOMAIN disk /\ disk[k] \in Int
      BY <1>2, RangeAssumption DEF TypeOK, Made
    <3>2. CASE at + 1 <= k /\ k <= at + Len(bytes)
      <4>1. k - at \in 1..Len(bytes)
        BY <2>1, <3>1, <3>2
      <4>2. QED
        BY <2>1, <3>1, <3>2, <4>1, PutByte
    <3>3. CASE ~(at + 1 <= k /\ k <= at + Len(bytes))
      BY <3>1, <3>3, PutByte
    <3>4. QED
      BY <3>2, <3>3
  <2>3. DOMAIN disk = 1..total
    BY <1>2 DEF Made
  <2>4. QED
    BY <2>2, <2>3 DEF Put
<1>3. QED
  BY <1>1, <1>2

\* The parameters of a download do not change.
LEMMA Fixed ==
  ASSUME [Next]_vars
  PROVE  /\ UNCHANGED <<total, case, verify>>
         /\ Pieces' = Pieces
         /\ \A i : /\ First(i)' = First(i) /\ Last(i)' = Last(i)
                   /\ Expected(i)' = Expected(i) /\ Region(i)' = Region(i) /\ Extent(i)' = Extent(i)
<1>1. UNCHANGED <<total, case, verify>>
  BY DEF Next, vars, hashVars, rangeVars, MainStep, Working, Admission, Hashes, HashStep, Over, TaskStep,
     Sized, StartFails, Prepare, FanoutEnds, Resolve, RereadFails, Join, JoinFails, AttemptFails, Refused,
     Backoff, Take, Spill, BodyEnds, Answer, Acquire, OpenDest, Receive, Advance, Fold, ReadFails,
     CloseHash, OthersTake, OthersReturn, Land
<1>2. Pieces' = Pieces
  BY <1>1 DEF Pieces, NumChunks
<1>3. \A i : First(i)' = First(i)
  BY <1>1 DEF First
<1>4. \A i : Last(i)' = Last(i)
  BY <1>1, <1>3 DEF Last
<1>5. \A i : Expected(i)' = Expected(i)
  BY <1>3, <1>4 DEF Expected
<1>6. QED
  BY <1>1, <1>2, <1>3, <1>4, <1>5 DEF Region, Extent

\* A task that waits or has failed holds no bytes.
Empty(t) ==
  /\ t.got = 0 /\ t.buf = <<>> /\ t.st \in {"send", "backoff", "error", "refused"}
  /\ t.st = "error" => t.retries > MaxRetries

\* What a step of piece i makes of its task: t.
Moves(i, t) ==
  \/ Empty(t) /\ UNCHANGED disk /\ \E w \in Abandoned(i) : stray' = stray \cup w
  \/ t.st = "body" /\ t.at = First(i) /\ t.got = 0 /\ t.buf = <<>> /\ UNCHANGED <<disk, stray>>
  \/ /\ task[i].st = "body" /\ t.st = "body" /\ task[i].got < Expected(i) /\ UNCHANGED <<disk, stray>>
     /\ t.at = task[i].at + 1 /\ t.got = task[i].got + 1
     /\ \E b \in Byte(task[i].at) : t.buf = Append(task[i].buf, b)
  \/ /\ task[i].st = "body" /\ disk' = Put(disk, From(i), task[i].buf) /\ UNCHANGED stray
     /\ \/ t.st = "body" /\ t.at = task[i].at /\ t.got = task[i].got /\ t.buf = <<>>
        \/ t.st = "ok" /\ task[i].got = Expected(i) /\ t.got = 0 /\ t.buf = <<>>
        \/ Empty(t)

LEMMA RetryEmpty ==
  ASSUME NEW i, NEW t \in Task, t.got = 0, t.buf = <<>>
  PROVE  RetryOrFail(i, t) \in Task /\ Empty(RetryOrFail(i, t))
<1> DEFINE u == RetryOrFail(i, t)
<1>1. t.retries \in Nat /\ t.at \in Nat /\ t.left \in Nat /\ t.buf \in Seq(Int)
  BY DEF Task
<1>2. u.st = IF t.retries + 1 > MaxRetries THEN "error" ELSE "backoff"
  BY DEF RetryOrFail, Task
<1>3. u.got = 0 /\ u.buf = <<>> /\ u.retries = t.retries + 1
  BY DEF RetryOrFail, Task
<1>4. u \in Task
  <2>1. ASSUME NEW x \in TaskStates, NEW y \in Nat PROVE [t EXCEPT !.st = x, !.retries = y] \in Task
    BY DEF Task
  <2>2. t.retries + 1 \in Nat /\ "error" \in TaskStates /\ "backoff" \in TaskStates
    BY <1>1 DEF TaskStates
  <2>3. QED
    BY <2>1, <2>2 DEF RetryOrFail
<1>5. Empty(u)
  <2> HIDE DEF u
  <2>1. QED
    BY <1>1, <1>2, <1>3, RangeAssumption DEF Empty
<1>6. QED
  BY <1>4, <1>5

LEMMA TaskMoves ==
  ASSUME TypeOK, TasksInv, NEW i \in Pieces, TaskStep(i) \/ Acquire(i)
  PROVE  /\ UNCHANGED <<hashVars, phase, next, result>>
         /\ task[i].st \in {"gate", "send", "body", "backoff"}
         /\ \E t \in Task : task' = [task EXCEPT ![i] = t] /\ Moves(i, t)
<1>1. UNCHANGED <<hashVars, phase, next, result>> /\ task[i].st \in {"gate", "send", "body", "backoff"}
  BY DEF TaskStep, Acquire, AttemptFails, Refused, Backoff, Take, Spill, BodyEnds, Answer
<1>2. task[i] \in Task /\ (task[i].st # "body" => task[i].got = 0 /\ task[i].buf = <<>>)
  BY DEF TypeOK, TasksInv, TaskInv
<1>3. /\ task[i].retries \in Nat /\ task[i].at \in Nat /\ task[i].left \in Nat /\ task[i].got \in Nat
      /\ task[i].buf \in Seq(Int) /\ task[i].st \in TaskStates /\ <<>> \in Seq(Int)
  BY <1>2 DEF Task
<1>4. {} \in Abandoned(i)
  BY DEF Abandoned
<1>5. CASE Acquire(i) \/ Backoff(i) \/ Refused(i)
  <2> DEFINE t == [task[i] EXCEPT !.st = IF Refused(i) THEN "refused" ELSE "send"]
  <2>1. t \in Task /\ Empty(t)
    <3>1. t.st \in {"send", "refused"} /\ t.got = 0 /\ t.buf = <<>>
      BY <1>2, <1>5 DEF Acquire, Backoff, Refused, Task
    <3>2. t \in Task
      BY <1>2 DEF Task, TaskStates
    <3>3. QED
      BY <3>1, <3>2 DEF Empty
  <2>2. task' = [task EXCEPT ![i] = t] /\ UNCHANGED <<disk, stray>>
    BY <1>5 DEF Acquire, Backoff, Refused
  <2>3. Moves(i, t)
    <3> HIDE DEF t
    <3>1. stray' = stray \cup {}
      BY <2>2
    <3>2. QED
      BY <1>4, <2>1, <2>2, <3>1 DEF Moves
  <2>4. QED
    BY <1>1, <2>1, <2>2, <2>3
<1>6. CASE AttemptFails(i)
  <2> DEFINE u == [task[i] EXCEPT !.at = 0, !.left = 0, !.got = 0, !.buf = <<>>]
             t == RetryOrFail(i, u)
  <2>1. u \in Task /\ u.got = 0 /\ u.buf = <<>>
    BY <1>2, <1>3 DEF Task
  <2>2. t \in Task /\ Empty(t)
    BY <2>1, RetryEmpty
  <2>3. task' = [task EXCEPT ![i] = t] /\ UNCHANGED disk /\ \E w \in Abandoned(i) : stray' = stray \cup w
    BY <1>6 DEF AttemptFails
  <2>4. QED
    <3> HIDE DEF t
    <3>1. QED
      BY <1>1, <2>2, <2>3 DEF Moves
<1>7. ASSUME NEW status, NEW from \in Nat, NEW k \in Nat, Answer(i, status, from, k),
             status = 206 \/ (status = 200 /\ from = 0)
      PROVE  \E t \in Task : task' = [task EXCEPT ![i] = t] /\ Moves(i, t)
  <2>1. UNCHANGED <<disk, stray>> /\ stray' = stray \cup {} /\ task[i].st = "send"
    BY <1>7 DEF Answer
  <2>2. CASE Acceptable(i, status, from)
    <3> DEFINE t == [task[i] EXCEPT !.st = "body", !.at = from, !.left = k]
    <3>1. t \in Task /\ t.st = "body" /\ t.at = from /\ t.got = 0 /\ t.buf = <<>>
      BY <1>2, <1>3, <1>7, <2>1 DEF Task, TaskStates
    <3>2. from = First(i)
      BY <1>7, <2>2 DEF Acceptable
    <3>3. task' = [task EXCEPT ![i] = t]
      BY <1>7, <2>2 DEF Answer
    <3>4. QED
      <4> HIDE DEF t
      <4>1. QED
        BY <2>1, <3>1, <3>2, <3>3 DEF Moves
  <2>3. CASE ~Acceptable(i, status, from) /\ status = 206
    <3> DEFINE t == RetryOrFail(i, task[i])
    <3>1. t \in Task /\ Empty(t)
      BY <1>2, <2>1, RetryEmpty
    <3>2. task' = [task EXCEPT ![i] = t]
      BY <1>7, <2>3 DEF Answer
    <3>3. QED
      <4> HIDE DEF t
      <4>1. QED
        BY <1>4, <2>1, <3>1, <3>2 DEF Moves
  <2>4. CASE ~Acceptable(i, status, from) /\ status # 206
    <3> DEFINE t == [task[i] EXCEPT !.st = "refused"]
    <3>1. t \in Task /\ Empty(t)
      BY <1>2, <1>3, <2>1 DEF Task, TaskStates, Empty
    <3>2. task' = [task EXCEPT ![i] = t]
      BY <1>7, <2>4 DEF Answer
    <3>3. QED
      <4> HIDE DEF t
      <4>1. QED
        BY <1>4, <2>1, <3>1, <3>2 DEF Moves
  <2>5. QED
    BY <2>2, <2>3, <2>4
<1>8. CASE Take(i)
  <2>1. PICK b \in Byte(task[i].at) :
          task' = [task EXCEPT ![i].at = @ + 1, ![i].left = @ - 1, ![i].got = @ + 1, ![i].buf = Append(@, b)]
    BY <1>8 DEF Take
  <2> DEFINE t == task'[i]
  <2>2. task[i].left > 0 /\ task[i].got < Expected(i) /\ UNCHANGED <<disk, stray>> /\ task[i].st = "body"
    BY <1>8 DEF Take, Owed
  <2>3. b \in Int
    BY <1>3 DEF Byte, Wrong
  <2>4. /\ t.st = "body" /\ t.at = task[i].at + 1 /\ t.got = task[i].got + 1
        /\ t.buf = Append(task[i].buf, b) /\ t.left = task[i].left - 1
    BY <1>2, <2>1, <2>2 DEF Task, TypeOK
  <2>5. t \in Task
    <3>1. Append(task[i].buf, b) \in Seq(Int)
      BY <1>3, <2>3
    <3>2. task[i].left - 1 \in Nat /\ task[i].at + 1 \in Nat /\ task[i].got + 1 \in Nat
      BY <1>3, <2>2
    <3>3. QED
      BY <1>2, <2>1, <3>1, <3>2 DEF Task, TypeOK
  <2>6. QED
    <3>1. task' = [task EXCEPT ![i] = t]
      BY <2>1 DEF TypeOK
    <3> HIDE DEF t
    <3>2. QED
      BY <2>2, <2>4, <2>5, <3>1, <1>1 DEF Moves
<1>9. CASE Spill(i)
  <2> DEFINE t == [task[i] EXCEPT !.buf = <<>>]
  <2>1. t \in Task /\ t.st = "body" /\ t.at = task[i].at /\ t.got = task[i].got /\ t.buf = <<>>
    BY <1>2, <1>3, <1>9 DEF Spill, Task
  <2>2. /\ task' = [task EXCEPT ![i] = t] /\ UNCHANGED stray /\ task[i].st = "body"
        /\ disk' = Put(disk, From(i), task[i].buf)
    BY <1>9 DEF Spill, From
  <2>3. QED
    <3> HIDE DEF t
    <3>1. QED
      BY <1>1, <2>1, <2>2 DEF Moves
<1>10. CASE BodyEnds(i)
  <2> DEFINE u == [task[i] EXCEPT !.at = 0, !.left = 0, !.got = 0, !.buf = <<>>]
             t == IF Whole(i) THEN [u EXCEPT !.st = "ok"] ELSE RetryOrFail(i, u)
  <2>1. u \in Task /\ u.got = 0 /\ u.buf = <<>>
    BY <1>2, <1>3 DEF Task
  <2>2. /\ task' = [task EXCEPT ![i] = t] /\ UNCHANGED stray /\ task[i].st = "body"
        /\ disk' = Put(disk, From(i), task[i].buf)
    BY <1>10 DEF BodyEnds, Flush, From
  <2>3. CASE Whole(i)
    <3>1. t \in Task /\ t.st = "ok" /\ t.got = 0 /\ t.buf = <<>>
      BY <2>1, <2>3 DEF Task, TaskStates
    <3>2. QED
      <4> HIDE DEF t
      <4>1. QED
        BY <1>1, <2>2, <2>3, <3>1 DEF Moves, Whole
  <2>4. CASE ~Whole(i)
    <3>1. t \in Task /\ Empty(t)
      BY <2>1, <2>4, RetryEmpty
    <3>2. QED
      <4> HIDE DEF t
      <4>1. QED
        BY <1>1, <2>2, <3>1 DEF Moves
  <2>5. QED
    BY <2>3, <2>4
<1>11. QED
  <2>1. \A j \in Pieces : First(j) \in Nat
    BY Geometry
  <2>2. 0..(Expected(i) + 1) \subseteq Nat
    BY Geometry
  <2>3. QED
    BY <1>1, <1>5, <1>6, <1>7, <1>8, <1>9, <1>10, <2>1, <2>2 DEF TaskStep

LEMMA AbandonedFacts ==
  ASSUME TypeOK, TasksInv, NEW i \in Pieces, NEW W \in Abandoned(i), NEW w \in W
  PROVE  /\ case.straggling /\ w \in [at : Int, bytes : Seq(Int)]
         /\ ~case.corrupting => RightBytes(w.bytes, w.at)
<1>1. case.straggling /\ task[i].buf # <<>> /\ w = [at |-> From(i), bytes |-> task[i].buf]
  BY DEF Abandoned, From
<1>2. task[i].got \in Nat /\ task[i].buf \in Seq(Int) /\ First(i) \in Nat
  BY Geometry DEF TypeOK, Task
<1>3. From(i) \in Int
  <2>1. Len(task[i].buf) \in Nat
    BY <1>2
  <2>2. QED
    BY <1>2, <2>1 DEF From
<1>4. Midway(i)
  BY <1>1 DEF TasksInv, TaskInv
<1>5. QED
  BY <1>1, <1>2, <1>3, <1>4 DEF Midway

LEMMA StepCases ==
  ASSUME [Next]_vars
  PROVE  \/ Sized \/ StartFails \/ Prepare \/ FanoutEnds \/ Resolve \/ RereadFails
         \/ \E i \in Pieces : Join(i) \/ JoinFails(i)
         \/ phase = "fanout" /\ \E i \in Pieces : TaskStep(i) \/ Acquire(i)
         \/ HashStep /\ UNCHANGED rangeVars
         \/ OthersTake \/ OthersReturn
         \/ \E w \in stray : Land(w)
         \/ UNCHANGED vars
BY DEF Next, MainStep, Working, Admission, Hashes, Over

\* Who writes to the file.
LEMMA Writes ==
  ASSUME TypeOK, TasksInv, [Next]_vars, ~Prepare
  PROVE  \/ disk' = disk
         \/ \E i \in Pieces : task[i].st = "body" /\ disk' = Put(disk, From(i), task[i].buf)
         \/ \E w \in stray : disk' = Put(disk, w.at, w.bytes)
<1>1. ASSUME NEW i \in Pieces, TaskStep(i) \/ Acquire(i)
      PROVE  disk' = disk \/ (task[i].st = "body" /\ disk' = Put(disk, From(i), task[i].buf))
  BY <1>1, TaskMoves DEF Moves
<1>2. CASE Sized \/ StartFails \/ FanoutEnds \/ Resolve \/ RereadFails \/ OthersTake \/ OthersReturn
             \/ UNCHANGED vars \/ (\E i \in Pieces : Join(i) \/ JoinFails(i))
  BY <1>2 DEF Sized, StartFails, FanoutEnds, Resolve, RereadFails, OthersTake, OthersReturn, vars, Join,
     JoinFails
<1>3. CASE HashStep
  BY <1>3 DEF HashStep, OpenDest, Receive, Advance, Fold, ReadFails, CloseHash
<1>4. CASE \E w \in stray : Land(w)
  BY <1>4 DEF Land
<1>5. QED
  BY <1>1, <1>2, <1>3, <1>4, StepCases

LEMMA TaskTypes ==
  ASSUME TypeOK, NEW i \in Pieces
  PROVE  /\ task[i] \in Task /\ task[i].got \in Nat /\ task[i].buf \in Seq(Int)
         /\ Len(task[i].buf) \in Nat /\ From(i) \in Int
<1>1. task[i] \in Task
  BY DEF TypeOK
<1>2. task[i].got \in Nat /\ task[i].buf \in Seq(Int)
  BY <1>1 DEF Task
<1>3. Len(task[i].buf) \in Nat
  BY <1>2
<1>4. First(i) \in Nat
  BY Geometry
<1>5. QED
  BY <1>1, <1>2, <1>3, <1>4 DEF From

\* Right bytes over right bytes.
LEMMA PutRight ==
  ASSUME TypeOK, NEW at \in Int, NEW bytes \in Seq(Int), RightBytes(bytes, at),
         NEW k \in 0..(total - 1), disk[k + 1] = k
  PROVE  Put(disk, at, bytes)[k + 1] = k
<1>1. total \in Nat /\ k + 1 \in 1..total /\ k \in Nat /\ Len(bytes) \in Nat
  BY RangeAssumption DEF TypeOK
<1>2. CASE disk = <<>>
  BY <1>2, PutMade
<1>3. CASE Made
  <2>1. k + 1 \in DOMAIN disk /\ k + 1 \in Int
    BY <1>1, <1>3 DEF Made
  <2>2. CASE at + 1 <= k + 1 /\ k + 1 <= at + Len(bytes)
    <3>1. k + 1 - at \in 1..Len(bytes)
      BY <1>1, <2>2
    <3>2. bytes[k + 1 - at] = at + (k + 1 - at) - 1
      BY <3>1 DEF RightBytes
    <3>3. at + (k + 1 - at) - 1 = k
      BY <1>1
    <3>4. QED
      BY <2>1, <2>2, <3>2, <3>3, PutByte
  <2>3. CASE ~(at + 1 <= k + 1 /\ k + 1 <= at + Len(bytes))
    BY <2>1, <2>3, PutByte
  <2>4. QED
    BY <2>2, <2>3
<1>4. QED
  BY <1>2, <1>3 DEF TypeOK

\* From an honest server a right byte stays right.
LEMMA RightStays ==
  ASSUME TypeOK, TasksInv, StrayInv, [Next]_vars, ~Prepare, ~case.corrupting,
         NEW k \in 0..(total - 1), disk[k + 1] = k
  PROVE  disk'[k + 1] = k
<1>1. ASSUME NEW i \in Pieces, task[i].st = "body", disk' = Put(disk, From(i), task[i].buf)
      PROVE  disk'[k + 1] = k
  <2>1. RightBytes(task[i].buf, From(i))
    BY <1>1 DEF TasksInv, TaskInv, Midway
  <2>2. QED
    BY <1>1, <2>1, TaskTypes, PutRight
<1>2. ASSUME NEW w \in stray, disk' = Put(disk, w.at, w.bytes) PROVE disk'[k + 1] = k
  <2>1. w.at \in Int /\ w.bytes \in Seq(Int) /\ RightBytes(w.bytes, w.at)
    BY DEF TypeOK, StrayInv
  <2>2. QED
    BY <1>2, <2>1, PutRight
<1>3. QED
  BY <1>1, <1>2, Writes

\* The region of a piece that is complete is not written to any more, except
\* with what is there.
LEMMA SettledStays ==
  ASSUME TypeOK, TasksInv, StrayInv, OneFault, [Next]_vars, ~Prepare,
         NEW j \in Pieces, task[j].st \in {"ok", "joined"}, NEW k \in Region(j)
  PROVE  disk'[k + 1] = disk[k + 1]
<1>1. total \in Nat /\ k \in 0..(total - 1) /\ k \in Nat
  BY Geometry DEF Region
<1>2. ASSUME NEW i \in Pieces, task[i].st = "body", disk' = Put(disk, From(i), task[i].buf)
      PROVE  disk'[k + 1] = disk[k + 1]
  <2>1. k \notin Region(i)
    BY <1>2, Disjoint
  <2>2. /\ First(i) \in Nat /\ Last(i) \in Nat /\ task[i].got \in Nat /\ Len(task[i].buf) \in Nat
        /\ Len(task[i].buf) <= task[i].got /\ First(i) + task[i].got <= Last(i) + 1
        /\ From(i) = First(i) + task[i].got - Len(task[i].buf)
    <3>1. Len(task[i].buf) <= task[i].got /\ task[i].got <= Expected(i)
      BY <1>2 DEF TasksInv, TaskInv, Midway
    <3>2. First(i) \in Nat /\ Last(i) \in Nat /\ Expected(i) \in Nat /\ First(i) + Expected(i) = Last(i) + 1
      BY Geometry
    <3>3. task[i].got \in Nat /\ Len(task[i].buf) \in Nat
      BY TaskTypes
    <3>4. QED
      BY <3>1, <3>2, <3>3 DEF From
  <2>3. ~(From(i) + 1 <= k + 1 /\ k + 1 <= From(i) + Len(task[i].buf))
    BY <1>1, <2>1, <2>2 DEF Region
  <2>4. CASE Made
    <3>1. k + 1 \in DOMAIN disk /\ k + 1 \in Int
      BY <1>1, <2>4 DEF Made
    <3>2. QED
      BY <1>2, <2>3, <3>1, TaskTypes, PutByte
  <2>5. CASE disk = <<>>
    BY <1>2, <2>5, TaskTypes, PutMade
  <2>6. QED
    BY <2>4, <2>5 DEF TypeOK
<1>3. ASSUME NEW w \in stray, disk' = Put(disk, w.at, w.bytes) PROVE disk'[k + 1] = disk[k + 1]
  <2>1. ~case.corrupting
    BY <1>3 DEF StrayInv, OneFault, TypeOK
  <2>2. disk[k + 1] = k
    BY <2>1 DEF TasksInv, TaskInv, RightAt, Region
  <2>3. QED
    BY <1>1, <2>1, <2>2, RightStays
<1>4. QED
  BY <1>2, <1>3, Writes

-----------------------------------------------------------------------------
(* The tasks.                                                              *)

\* A write puts its bytes where they belong.
LEMMA PutFills ==
  ASSUME TypeOK, Made, NEW at \in Int, NEW bytes \in Seq(Int), RightBytes(bytes, at),
         NEW k \in 0..(total - 1), at <= k, k < at + Len(bytes)
  PROVE  Put(disk, at, bytes)[k + 1] = k
<1>1. total \in Nat /\ k + 1 \in 1..total /\ k \in Nat /\ Len(bytes) \in Nat
  BY RangeAssumption DEF TypeOK
<1>2. k + 1 \in DOMAIN disk /\ k + 1 \in Int
  BY <1>1 DEF Made
<1>3. k + 1 - at \in 1..Len(bytes) /\ at + 1 <= k + 1 /\ k + 1 <= at + Len(bytes)
  BY <1>1
<1>4. bytes[k + 1 - at] = at + (k + 1 - at) - 1
  BY <1>3 DEF RightBytes
<1>5. at + (k + 1 - at) - 1 = k
  BY <1>1
<1>6. QED
  BY <1>2, <1>3, <1>4, <1>5, PutByte

LEMMA KeepsTask ==
  ASSUME TypeOK, TasksInv, StrayInv, [Next]_vars, ~Prepare, NEW i \in Pieces, task'[i] = task[i]
  PROVE  TaskInv(i)'
<1>1. /\ First(i)' = First(i) /\ Last(i)' = Last(i) /\ Expected(i)' = Expected(i)
      /\ From(i)' = From(i) /\ case' = case /\ TaskInv(i)
  BY Fixed DEF From, TasksInv
<1>2. /\ First(i) \in Nat /\ Last(i) \in Nat /\ Last(i) < total /\ total \in Nat
      /\ Expected(i) \in Nat /\ First(i) + Expected(i) = Last(i) + 1
  BY Geometry
<1>3. ASSUME ~case.corrupting, NEW hi \in Int, hi <= Last(i), RightAt(disk, First(i), hi)
      PROVE  RightAt(disk', First(i), hi)
  <2> SUFFICES ASSUME NEW k \in First(i)..hi PROVE disk'[k + 1] = k
    BY DEF RightAt
  <2>1. k \in 0..(total - 1) /\ disk[k + 1] = k
    BY <1>2, <1>3 DEF RightAt
  <2>2. QED
    BY <1>3, <2>1, RightStays
<1>4. ASSUME task[i].st = "body" PROVE Midway(i)'
  <2>1. Midway(i)
    BY <1>1, <1>4 DEF TaskInv
  <2>2. From(i) - 1 \in Int /\ From(i) - 1 <= Last(i)
    <3>1. task[i].got \in Nat /\ Len(task[i].buf) \in Nat /\ task[i].got <= Expected(i)
      BY <2>1, TaskTypes DEF Midway
    <3>2. QED
      BY <1>2, <3>1, WithinRegion DEF From
  <2>3. ~case.corrupting => RightAt(disk', First(i), From(i) - 1)
    BY <1>3, <2>1, <2>2 DEF Midway
  <2>4. QED
    BY <1>1, <2>1, <2>3 DEF Midway
<1>5. task[i].st \in {"ok", "joined"} /\ ~case.corrupting => RightAt(disk', First(i), Last(i))
  BY <1>1, <1>2, <1>3 DEF TaskInv
<1>6. QED
  BY <1>1, <1>4, <1>5 DEF TaskInv

LEMMA MovesTask ==
  ASSUME TypeOK, TasksInv, StrayInv, [Next]_vars, ~Prepare, Made,
         NEW i \in Pieces, NEW t \in Task, task'[i] = t, Moves(i, t)
  PROVE  TaskInv(i)'
<1> DEFINE f == First(i)
           g == task[i].got
           l == Len(task[i].buf)
<1>1. First(i)' = First(i) /\ Last(i)' = Last(i) /\ Expected(i)' = Expected(i) /\ case' = case
  BY Fixed
<1>2. /\ First(i) \in Nat /\ Last(i) \in Nat /\ Last(i) < total /\ total \in Nat
      /\ Expected(i) \in Nat /\ f + Expected(i) = Last(i) + 1 /\ f \in Nat
  BY Geometry
<1>3. /\ g \in Nat /\ task[i].buf \in Seq(Int) /\ l \in Nat /\ From(i) \in Int
      /\ From(i) = f + g - l
  BY TaskTypes DEF From
<1>4. From(i)' = First(i) + t.got - Len(t.buf) /\ Len(<<>>) = 0
  BY <1>1 DEF From
<1>5. CASE Empty(t)
  BY <1>5 DEF Empty, TaskInv
<1>6. CASE t.st = "body" /\ t.at = First(i) /\ t.got = 0 /\ t.buf = <<>>
  <2>1. From(i)' = First(i)
    BY <1>2, <1>4, <1>6
  <2>2. RightAt(disk', First(i), First(i) - 1) /\ RightBytes(<<>>, First(i))
    BY <1>2 DEF RightAt, RightBytes
  <2>3. t.at = First(i) + t.got /\ Len(t.buf) <= t.got /\ t.got <= Expected(i)
    BY <1>2, <1>4, <1>6
  <2>4. QED
    BY <1>1, <1>6, <2>1, <2>2, <2>3 DEF TaskInv, Midway
<1>7. ASSUME task[i].st = "body" PROVE Midway(i)
  BY <1>7 DEF TasksInv, TaskInv
<1>8. ASSUME NEW b \in Byte(task[i].at), task[i].st = "body", t.st = "body", task[i].got < Expected(i),
             UNCHANGED disk, t.at = task[i].at + 1, t.got = task[i].got + 1, t.buf = Append(task[i].buf, b)
      PROVE  TaskInv(i)'
  <2>1. b \in Int /\ (~case.corrupting => b = task[i].at)
    <3>1. task[i].at \in Nat
      BY TaskTypes DEF Task
    <3>2. QED
      BY <3>1 DEF Byte, Wrong
  <2>2. Len(t.buf) = Len(task[i].buf) + 1
    BY <1>3, <1>8, <2>1
  <2>3. \A j \in 1..(Len(task[i].buf) + 1) : t.buf[j] = IF j = Len(task[i].buf) + 1 THEN b ELSE task[i].buf[j]
    BY <1>3, <1>8, <2>1
  <2>4. From(i)' = From(i)
    <3>1. From(i)' = f + (g + 1) - (l + 1)
      BY <1>4, <1>8, <2>2
    <3> HIDE DEF f, g, l
    <3>2. QED
      BY <1>2, <1>3, <3>1
  <2>5. task[i].at = First(i) + task[i].got /\ Len(task[i].buf) <= task[i].got
    BY <1>7, <1>8 DEF Midway
  <2>6. ASSUME ~case.corrupting PROVE RightBytes(t.buf, From(i))
    <3> SUFFICES ASSUME NEW j \in 1..(Len(task[i].buf) + 1) PROVE t.buf[j] = From(i) + j - 1
      BY <2>2 DEF RightBytes
    <3>1. CASE j = Len(task[i].buf) + 1
      <4>1. t.buf[j] = f + g /\ j = l + 1
        BY <2>1, <2>3, <2>5, <2>6, <3>1
      <4> HIDE DEF f, g, l
      <4>2. QED
        BY <1>2, <1>3, <4>1
    <3>2. CASE j # Len(task[i].buf) + 1
      <4>1. j \in 1..l
        <5>1. j \in 1..(l + 1) /\ j # l + 1
          BY <3>2
        <5> HIDE DEF f, g, l
        <5>2. QED
          BY <1>3, <5>1
      <4>2. task[i].buf[j] = From(i) + j - 1
        BY <1>7, <1>8, <2>6, <4>1 DEF Midway, RightBytes
      <4>3. QED
        BY <2>3, <3>2, <4>2
    <3>3. QED
      BY <3>1, <3>2
  <2>7. t.at = First(i) + t.got /\ Len(t.buf) <= t.got /\ t.got <= Expected(i)
    <3>1. t.at = f + g + 1 /\ t.got = g + 1 /\ Len(t.buf) = l + 1 /\ l <= g /\ g < Expected(i)
      BY <1>8, <2>2, <2>5
    <3>2. f + g + 1 = f + (g + 1) /\ l + 1 <= g + 1 /\ g + 1 <= Expected(i)
      <4> HIDE DEF f, g, l
      <4>1. QED
        BY <1>2, <1>3, <3>1, OneMore
    <3>3. QED
      BY <3>1, <3>2
  <2>8. QED
    BY <1>1, <1>7, <1>8, <2>4, <2>6, <2>7 DEF TaskInv, Midway
<1>9. ASSUME task[i].st = "body", disk' = Put(disk, From(i), task[i].buf), ~case.corrupting
      PROVE  RightAt(disk', First(i), First(i) + task[i].got - 1)
  <2> SUFFICES ASSUME NEW k \in First(i)..(First(i) + task[i].got - 1) PROVE disk'[k + 1] = k
    BY DEF RightAt
  <2>1. task[i].got <= Expected(i) /\ RightBytes(task[i].buf, From(i)) /\ RightAt(disk, First(i), From(i) - 1)
    BY <1>7, <1>9 DEF Midway
  <2>2. k \in 0..(total - 1)
    <3>1. g <= Expected(i) /\ k \in f..(f + g - 1)
      BY <2>1
    <3> HIDE DEF f, g, l
    <3>2. QED
      BY <1>2, <1>3, <3>1, WithinRegion
  <2>3. CASE k < From(i)
    <3>1. disk[k + 1] = k
      BY <1>2, <1>3, <2>1, <2>3 DEF RightAt
    <3>2. QED
      BY <1>9, <2>2, <3>1, RightStays
  <2>4. CASE ~(k < From(i))
    <3>1. From(i) <= k /\ k < From(i) + Len(task[i].buf)
      <4>1. k \in f..(f + g - 1)
        OBVIOUS
      <4>2. From(i) <= k /\ k < From(i) + l
        <5> HIDE DEF f, g, l
        <5>1. QED
          BY <1>2, <1>3, <2>4, <4>1
      <4>3. QED
        BY <4>2
    <3>2. QED
      BY <1>3, <1>9, <2>1, <2>2, <3>1, PutFills
  <2>5. QED
    BY <2>3, <2>4
<1>10. ASSUME task[i].st = "body", disk' = Put(disk, From(i), task[i].buf),
              t.st = "body", t.at = task[i].at, t.got = task[i].got, t.buf = <<>>
       PROVE  TaskInv(i)'
  <2>1. task[i].at = First(i) + task[i].got /\ task[i].got <= Expected(i)
    BY <1>7, <1>10 DEF Midway
  <2>2. From(i)' = First(i) + task[i].got /\ RightBytes(<<>>, From(i)')
    BY <1>2, <1>3, <1>4, <1>10 DEF RightBytes
  <2>3. Len(t.buf) <= t.got
    BY <1>3, <1>4, <1>10
  <2>4. ~case.corrupting => RightAt(disk', First(i), From(i)' - 1)
    <3>1. From(i)' - 1 = First(i) + task[i].got - 1
      <4>1. From(i)' = f + g
        BY <2>2
      <4>2. From(i)' - 1 = f + g - 1
        <5> HIDE DEF f, g, l
        <5>1. QED
          BY <1>2, <1>3, <4>1
      <4>3. QED
        BY <4>2
    <3>2. ~case.corrupting => RightAt(disk', First(i), First(i) + task[i].got - 1)
      BY <1>9, <1>10
    <3>3. QED
      BY <3>1, <3>2
  <2>5. t.at = First(i) + t.got /\ t.got <= Expected(i)
    BY <1>10, <2>1
  <2>6. Midway(i)'
    BY <1>1, <1>10, <2>2, <2>3, <2>4, <2>5 DEF Midway
  <2>7. QED
    BY <1>10, <2>6 DEF TaskInv
<1>11. ASSUME task[i].st = "body", disk' = Put(disk, From(i), task[i].buf),
              t.st = "ok", task[i].got = Expected(i), t.got = 0, t.buf = <<>>
       PROVE  TaskInv(i)'
  <2>1. First(i) + task[i].got - 1 = Last(i)
    <3>1. g = Expected(i)
      BY <1>11
    <3>2. f + g - 1 = Last(i)
      <4> HIDE DEF f, g, l
      <4>1. f + g = Last(i) + 1
        BY <1>2, <3>1
      <4>2. QED
        BY <1>2, <1>3, <4>1, MinusOne
    <3>3. QED
      BY <3>2
  <2>2. QED
    BY <1>1, <1>9, <1>11, <2>1 DEF TaskInv
<1>12. QED
  BY <1>5, <1>6, <1>8, <1>10, <1>11 DEF Moves

LEMMA FreshTasks ==
  /\ Idle \in Task /\ Idle.st = "idle" /\ Idle.got = 0 /\ Idle.buf = <<>>
  /\ \A i : Spawned(i) \in Task /\ Spawned(i).st = "gate" /\ Spawned(i).got = 0 /\ Spawned(i).buf = <<>>
  /\ [Idle EXCEPT !.st = "aborted"] \in Task /\ [Idle EXCEPT !.st = "aborted"].st = "aborted"
  /\ [Idle EXCEPT !.st = "aborted"].got = 0 /\ [Idle EXCEPT !.st = "aborted"].buf = <<>>
<1>1. <<>> \in Seq(Int)
  OBVIOUS
<1>2. QED
  BY <1>1 DEF Idle, Spawned, Task, TaskStates

\* The steps that leave the tasks alone.
Aside ==
  \/ Sized \/ StartFails \/ FanoutEnds \/ Resolve \/ RereadFails \/ (HashStep /\ UNCHANGED rangeVars)
  \/ OthersTake \/ OthersReturn \/ (\E w \in stray : Land(w)) \/ UNCHANGED vars

LEMMA AsideKeeps ==
  ASSUME Aside
  PROVE  UNCHANGED <<task, next>> /\ stray' \subseteq stray
BY DEF Aside, Sized, StartFails, FanoutEnds, Resolve, RereadFails, rangeVars, OthersTake, OthersReturn,
   Land, vars

LEMMA StepTasks ==
  ASSUME [Next]_vars
  PROVE  \/ Aside \/ Prepare \/ \E i \in Pieces : Join(i) \/ JoinFails(i)
         \/ phase = "fanout" /\ \E i \in Pieces : TaskStep(i) \/ Acquire(i)
BY StepCases DEF Aside

\* What becomes of a task in a step of the download itself.
LEMMA JoinTasks ==
  ASSUME TypeOK, TasksInv, NEW i \in Pieces, Join(i)
  PROVE  /\ task[i].st = "ok" /\ UNCHANGED <<disk, stray>> /\ next' \in {next, next + 1}
         /\ task' \in [Pieces -> Task]
         /\ task'[i].st = "joined" /\ task'[i].got = 0 /\ task'[i].buf = <<>>
         /\ \A j \in Pieces \ {i} :
              \/ task'[j] = task[j] /\ (j # next \/ next' = next)
              \/ j = next /\ task[j].st = "idle" /\ task'[j] = Spawned(j)
<1>1. task[i] \in Task /\ task[i].st = "ok" /\ task[i].got = 0 /\ task[i].buf = <<>>
  BY DEF Join, TypeOK, TasksInv, TaskInv
<1>2. task' = [j \in Pieces |-> IF j = i THEN [task[i] EXCEPT !.st = "joined"]
                               ELSE IF j = next THEN Spawned(j) ELSE task[j]]
  BY DEF Join
<1>3. [task[i] EXCEPT !.st = "joined"] \in Task
  BY <1>1 DEF Task, TaskStates
<1>4. task' \in [Pieces -> Task]
  BY <1>2, <1>3, FreshTasks DEF TypeOK
<1>5. task'[i].st = "joined" /\ task'[i].got = 0 /\ task'[i].buf = <<>>
  BY <1>1, <1>2 DEF Task
<1>6. next' \in {next, next + 1} /\ UNCHANGED <<disk, stray>>
  BY DEF Join
<1>7. \A j \in Pieces : j = next => task[j].st = "idle"
  BY DEF TasksInv, TypeOK
<1>8. QED
  BY <1>1, <1>2, <1>4, <1>5, <1>6, <1>7

LEMMA JoinFailsTasks ==
  ASSUME TypeOK, NEW i \in Pieces, JoinFails(i)
  PROVE  /\ UNCHANGED <<disk, next>> /\ task' \in [Pieces -> Task]
         /\ \A j \in Pieces :
              \/ task'[j] = task[j]
              \/ /\ task[j].st \in {"gate", "send", "body", "backoff"}
                 /\ task'[j] = [Idle EXCEPT !.st = "aborted"]
<1>1. task' = [j \in Pieces |-> IF j \in Live THEN [Idle EXCEPT !.st = "aborted"] ELSE task[j]]
  BY DEF JoinFails
<1>2. \A j \in Live : task[j].st \in {"gate", "send", "body", "backoff"}
  BY DEF Live, InState
<1>3. QED
  BY <1>1, <1>2, FreshTasks DEF JoinFails, TypeOK

LEMMA PrepareTasks ==
  ASSUME TypeOK, Prepare
  PROVE  /\ next' \in Nat /\ UNCHANGED stray /\ task' \in [Pieces -> Task]
         /\ \A j \in Pieces :
              /\ task'[j].st \in {"gate", "idle"} /\ task'[j].got = 0 /\ task'[j].buf = <<>>
              /\ j >= next' => task'[j].st = "idle"
<1>1. NumChunks(total) \in Nat
  <2>1. total \in Nat /\ case.chunk \in Nat
    BY RangeAssumption DEF TypeOK
  <2>2. CASE total = 0 \/ case.chunk = 0
    BY <2>2 DEF NumChunks
  <2>3. CASE ~(total = 0 \/ case.chunk = 0)
    <3>1. total + case.chunk - 1 \in Nat /\ case.chunk \in Nat \ {0}
      BY <2>1, <2>3
    <3>2. (total + case.chunk - 1) \div case.chunk \in Nat
      BY <3>1, DivFacts
    <3>3. QED
      BY <2>3, <3>2 DEF NumChunks
  <2>4. QED
    BY <2>2, <2>3
<1>2. next' \in Nat
  BY <1>1, RangeAssumption DEF Prepare
<1>3. task' = [i \in Pieces |-> IF i < next' THEN Spawned(i) ELSE Idle] /\ UNCHANGED stray
  BY DEF Prepare
<1>4. \A j \in Pieces : j \in Nat
  BY <1>1 DEF Pieces
<1>5. QED
  BY <1>2, <1>3, <1>4, FreshTasks

LEMMA TypeNext ==
  ASSUME TypeOK, TasksInv, [Next]_vars
  PROVE  TypeOK'
<1>1. UNCHANGED <<total, case, verify>> /\ Pieces' = Pieces /\ case \in Cases /\ total = case.size
  BY Fixed DEF TypeOK
<1>2. phase' \in {"size", "prepare", "fanout", "digest", "done", "failed"}
  <2>1. phase' = phase \/ phase' \in {"size", "prepare", "fanout", "digest", "done", "failed"}
    <3>1. ASSUME NEW i \in Pieces, TaskStep(i) \/ Acquire(i) PROVE phase' = phase
      BY <3>1, TaskMoves
    <3>2. QED
      BY <3>1, StepCases DEF Sized, StartFails, Prepare, FanoutEnds, Resolve, RereadFails, Join, JoinFails,
         rangeVars, OthersTake, OthersReturn, Land, vars
  <2>2. QED
    BY <2>1 DEF TypeOK
<1>3. disk' = <<>> \/ Made'
  <2>1. CASE Prepare
    BY <1>1, <2>1 DEF Prepare, Made, Hole
  <2>2. ASSUME NEW at \in Int, NEW bytes \in Seq(Int), disk' = Put(disk, at, bytes) PROVE disk' = <<>> \/ Made'
    BY <1>1, <2>2, PutMade DEF TypeOK, Made
  <2>3. CASE ~Prepare
    <3>1. CASE disk' = disk
      BY <1>1, <3>1 DEF TypeOK, Made
    <3>2. ASSUME NEW i \in Pieces, disk' = Put(disk, From(i), task[i].buf) PROVE disk' = <<>> \/ Made'
      BY <2>2, <3>2, TaskTypes
    <3>3. ASSUME NEW w \in stray, disk' = Put(disk, w.at, w.bytes) PROVE disk' = <<>> \/ Made'
      <4>1. w.at \in Int /\ w.bytes \in Seq(Int)
        BY DEF TypeOK
      <4>2. QED
        BY <2>2, <3>3, <4>1
    <3>4. QED
      BY <2>3, <3>1, <3>2, <3>3, Writes
  <2>4. QED
    BY <2>1, <2>3
<1>4. next' \in Nat /\ task' \in [Pieces -> Task]
  <2>1. CASE Aside
    BY <2>1, AsideKeeps DEF TypeOK
  <2>2. CASE Prepare
    BY <2>2, PrepareTasks
  <2>3. ASSUME NEW i \in Pieces, Join(i) PROVE next' \in Nat /\ task' \in [Pieces -> Task]
    <3>1. next' \in {next, next + 1} /\ task' \in [Pieces -> Task] /\ next \in Nat
      BY <2>3, JoinTasks DEF TypeOK
    <3>2. QED
      BY <3>1
  <2>4. ASSUME NEW i \in Pieces, JoinFails(i) PROVE next' \in Nat /\ task' \in [Pieces -> Task]
    BY <2>4, JoinFailsTasks DEF TypeOK
  <2>5. ASSUME NEW i \in Pieces, TaskStep(i) \/ Acquire(i) PROVE next' \in Nat /\ task' \in [Pieces -> Task]
    <3>1. next' = next /\ \E t \in Task : task' = [task EXCEPT ![i] = t]
      BY <2>5, TaskMoves
    <3>2. QED
      BY <3>1 DEF TypeOK
  <2>6. QED
    BY <2>1, <2>2, <2>3, <2>4, <2>5, StepTasks
<1>5. stray' \subseteq [at : Int, bytes : Seq(Int)]
  <2>1. stray \subseteq [at : Int, bytes : Seq(Int)]
    BY DEF TypeOK
  <2>2. CASE Aside
    BY <2>1, <2>2, AsideKeeps
  <2>3. CASE Prepare
    BY <2>1, <2>3, PrepareTasks
  <2>4. ASSUME NEW i \in Pieces, Join(i) PROVE stray' \subseteq [at : Int, bytes : Seq(Int)]
    BY <2>1, <2>4, JoinTasks
  <2>5. ASSUME NEW i \in Pieces, JoinFails(i) PROVE stray' \subseteq [at : Int, bytes : Seq(Int)]
    <3>1. \E left \in SUBSET UNION UNION {Abandoned(j) : j \in Live} : stray' = stray \cup left
      BY <2>5 DEF JoinFails
    <3>2. \A w \in UNION UNION {Abandoned(j) : j \in Live} : \E j \in Pieces : \E W \in Abandoned(j) : w \in W
      BY DEF Live, InState
    <3>3. QED
      BY <2>1, <3>1, <3>2, AbandonedFacts
  <2>6. ASSUME NEW i \in Pieces, TaskStep(i) \/ Acquire(i) PROVE stray' \subseteq [at : Int, bytes : Seq(Int)]
    <3>1. stray' = stray \/ \E w \in Abandoned(i) : stray' = stray \cup w
      BY <2>6, TaskMoves DEF Moves
    <3>2. QED
      BY <2>1, <3>1, AbandonedFacts
  <2>7. QED
    BY <2>2, <2>3, <2>4, <2>5, <2>6, StepTasks
<1>6. QED
  BY <1>1, <1>2, <1>3, <1>4, <1>5 DEF TypeOK

LEMMA TasksNext ==
  ASSUME TypeOK, TasksInv, StrayInv, PhaseInv, [Next]_vars
  PROVE  TasksInv'
<1>1. Pieces' = Pieces /\ case' = case /\ \A j \in Pieces : j \in Nat
  BY Fixed, Geometry
<1> SUFFICES ASSUME NEW j \in Pieces PROVE TaskInv(j)' /\ (j >= next' => task'[j].st = "idle")
  BY <1>1 DEF TasksInv
<1>2. CASE Prepare
  <2>1. /\ task'[j].st \in {"gate", "idle"} /\ task'[j].got = 0 /\ task'[j].buf = <<>>
        /\ j >= next' => task'[j].st = "idle"
    BY <1>2, PrepareTasks
  <2>2. QED
    BY <2>1 DEF TaskInv
<1>3. CASE Aside /\ ~Prepare
  <2>1. UNCHANGED <<task, next>>
    BY <1>3, AsideKeeps
  <2>2. TaskInv(j)'
    BY <1>3, <2>1, KeepsTask
  <2>3. QED
    BY <2>1, <2>2 DEF TasksInv
<1>4. ASSUME NEW i \in Pieces, Join(i), ~Prepare PROVE TaskInv(j)' /\ (j >= next' => task'[j].st = "idle")
  <2>1. /\ task[i].st = "ok" /\ UNCHANGED <<disk, stray>> /\ next' \in {next, next + 1} /\ next \in Nat
        /\ task'[i].st = "joined" /\ task'[i].got = 0 /\ task'[i].buf = <<>>
    BY <1>4, JoinTasks DEF TypeOK
  <2>2. CASE j = i
    <3>1. First(i)' = First(i) /\ Last(i)' = Last(i)
      BY Fixed
    <3>2. ~case.corrupting => RightAt(disk', First(i), Last(i))
      BY <2>1 DEF TasksInv, TaskInv
    <3>3. i < next
      BY <1>1, <2>1 DEF TasksInv
    <3>4. ~(i >= next')
      BY <1>1, <2>1, <3>3
    <3>5. TaskInv(i)'
      BY <1>1, <2>1, <3>1, <3>2 DEF TaskInv
    <3>6. QED
      BY <2>2, <3>4, <3>5
  <2>3. CASE j # i /\ task'[j] = task[j] /\ (j # next \/ next' = next)
    <3>1. TaskInv(j)'
      BY <1>4, <2>3, KeepsTask
    <3>2. j >= next' => j >= next
      BY <1>1, <2>1
    <3>3. QED
      BY <2>3, <3>1, <3>2 DEF TasksInv
  <2>4. CASE j = next /\ task'[j] = Spawned(j)
    <3>1. TaskInv(j)'
      BY <2>4, FreshTasks DEF TaskInv
    <3>2. next' = next + 1
      <4>1. j \in 0..(NumChunks(total) - 1)
        BY DEF Pieces
      <4>2. j < NumChunks(total)
        <5>1. NumChunks(total) \in Int
          BY RangeAssumption DEF TypeOK, NumChunks
        <5>2. QED
          BY <4>1, <5>1
      <4>3. QED
        BY <1>4, <2>4, <4>2 DEF Join
    <3>3. ~(j >= next')
      BY <1>1, <2>4, <3>2
    <3>4. QED
      BY <3>1, <3>3
  <2>5. QED
    BY <1>4, <2>2, <2>3, <2>4, JoinTasks
<1>5. ASSUME NEW i \in Pieces, JoinFails(i), ~Prepare PROVE TaskInv(j)' /\ (j >= next' => task'[j].st = "idle")
  <2>1. next' = next
    BY <1>5, JoinFailsTasks
  <2>2. CASE task'[j] = task[j]
    BY <1>5, <2>1, <2>2, KeepsTask DEF TasksInv
  <2>3. CASE task[j].st \in {"gate", "send", "body", "backoff"} /\ task'[j] = [Idle EXCEPT !.st = "aborted"]
    <3>1. TaskInv(j)'
      BY <2>3, FreshTasks DEF TaskInv
    <3>2. ~(j >= next)
      BY <2>3 DEF TasksInv
    <3>3. QED
      BY <2>1, <3>1, <3>2
  <2>4. QED
    BY <1>5, <2>2, <2>3, JoinFailsTasks
<1>6. ASSUME NEW i \in Pieces, phase = "fanout", TaskStep(i) \/ Acquire(i), ~Prepare
      PROVE  TaskInv(j)' /\ (j >= next' => task'[j].st = "idle")
  <2>1. PICK t \in Task : task' = [task EXCEPT ![i] = t] /\ Moves(i, t)
    BY <1>6, TaskMoves
  <2>2. next' = next /\ task[i].st \in {"gate", "send", "body", "backoff"} /\ Made
    BY <1>6, TaskMoves DEF PhaseInv
  <2>3. CASE j = i
    <3>1. task'[i] = t
      BY <2>1 DEF TypeOK
    <3>2. TaskInv(i)'
      BY <1>6, <2>1, <2>2, <3>1, MovesTask
    <3>3. ~(i >= next)
      BY <2>2 DEF TasksInv
    <3>4. QED
      BY <2>2, <2>3, <3>2, <3>3
  <2>4. CASE j # i
    <3>1. task'[j] = task[j]
      BY <2>1, <2>4 DEF TypeOK
    <3>2. QED
      BY <1>6, <2>2, <3>1, KeepsTask DEF TasksInv
  <2>5. QED
    BY <2>3, <2>4
<1>7. QED
  BY <1>2, <1>3, <1>4, <1>5, <1>6, StepTasks

LEMMA StrayNext ==
  ASSUME TypeOK, TasksInv, StrayInv, [Next]_vars
  PROVE  StrayInv'
<1>1. case' = case
  BY Fixed
<1> DEFINE Good(w) == case.straggling /\ (~case.corrupting => RightBytes(w.bytes, w.at))
<1>2. \A w \in stray : Good(w)
  BY DEF StrayInv
<1>3. ASSUME \A w \in stray' : Good(w) PROVE StrayInv'
  BY <1>1, <1>3 DEF StrayInv
<1>4. CASE Aside \/ Prepare \/ \E i \in Pieces : Join(i)
  <2>1. stray' \subseteq stray
    BY <1>4, AsideKeeps, PrepareTasks, JoinTasks
  <2>2. QED
    BY <1>2, <1>3, <2>1
<1>5. ASSUME NEW i \in Pieces, JoinFails(i) PROVE StrayInv'
  <2>1. \E left \in SUBSET UNION UNION {Abandoned(j) : j \in Live} : stray' = stray \cup left
    BY <1>5 DEF JoinFails
  <2>2. \A w \in UNION UNION {Abandoned(j) : j \in Live} : \E j \in Pieces : \E W \in Abandoned(j) : w \in W
    BY DEF Live, InState
  <2>3. \A w \in UNION UNION {Abandoned(j) : j \in Live} : Good(w)
    BY <2>2, AbandonedFacts
  <2>4. QED
    BY <1>2, <1>3, <2>1, <2>3
<1>6. ASSUME NEW i \in Pieces, TaskStep(i) \/ Acquire(i) PROVE StrayInv'
  <2>1. stray' = stray \/ \E w \in Abandoned(i) : stray' = stray \cup w
    BY <1>6, TaskMoves DEF Moves
  <2>2. \A W \in Abandoned(i) : \A w \in W : Good(w)
    BY AbandonedFacts
  <2>3. QED
    BY <1>2, <1>3, <2>1, <2>2
<1>7. QED
  BY <1>4, <1>5, <1>6, StepTasks

-----------------------------------------------------------------------------
(* The phases.                                                             *)

LEMMA MadeStays ==
  ASSUME TypeOK, TasksInv, [Next]_vars, ~Prepare
  PROVE  (Made => Made') /\ (disk = <<>> => disk' = <<>>)
<1>1. total' = total
  BY Fixed
<1>2. ASSUME NEW at \in Int, NEW bytes \in Seq(Int), disk' = Put(disk, at, bytes)
      PROVE  (Made => Made') /\ (disk = <<>> => disk' = <<>>)
  BY <1>1, <1>2, PutMade DEF Made
<1>3. CASE disk' = disk
  BY <1>1, <1>3 DEF Made
<1>4. ASSUME NEW i \in Pieces, disk' = Put(disk, From(i), task[i].buf)
      PROVE  (Made => Made') /\ (disk = <<>> => disk' = <<>>)
  BY <1>2, <1>4, TaskTypes
<1>5. ASSUME NEW w \in stray, disk' = Put(disk, w.at, w.bytes)
      PROVE  (Made => Made') /\ (disk = <<>> => disk' = <<>>)
  <2>1. w.at \in Int /\ w.bytes \in Seq(Int)
    BY DEF TypeOK
  <2>2. QED
    BY <1>2, <1>5, <2>1
<1>6. QED
  BY <1>3, <1>4, <1>5, Writes

\* A task that has ended, well or badly, does not move again.
LEMMA FinalStays ==
  ASSUME TypeOK, TasksInv, PhaseInv, [Next]_vars, NEW j \in Pieces,
         task[j].st \in {"joined", "error", "refused"}
  PROVE  task'[j] = task[j]
<1>1. CASE Aside
  BY <1>1, AsideKeeps
<1>2. CASE Prepare
  BY <1>2 DEF Prepare, PhaseInv
<1>3. ASSUME NEW i \in Pieces, Join(i) PROVE task'[j] = task[j]
  BY <1>3, JoinTasks
<1>4. ASSUME NEW i \in Pieces, JoinFails(i) PROVE task'[j] = task[j]
  BY <1>4, JoinFailsTasks
<1>5. ASSUME NEW i \in Pieces, TaskStep(i) \/ Acquire(i) PROVE task'[j] = task[j]
  BY <1>5, TaskMoves DEF TypeOK
<1>6. QED
  BY <1>1, <1>2, <1>3, <1>4, <1>5, StepTasks

LEMMA JoinedStays ==
  ASSUME TypeOK, TasksInv, PhaseInv, [Next]_vars
  PROVE  Joined \subseteq Joined'
<1>1. Pieces' = Pieces
  BY Fixed
<1>2. QED
  BY <1>1, FinalStays DEF Joined, InState

\* The steps that change the phase.
LEMMA PhaseSteps ==
  ASSUME TypeOK, TasksInv, [Next]_vars, phase' # phase
  PROVE  \/ Sized \/ StartFails \/ Prepare \/ FanoutEnds \/ Resolve \/ RereadFails
         \/ \E i \in Pieces : JoinFails(i)
<1>1. ASSUME NEW i \in Pieces, TaskStep(i) \/ Acquire(i) PROVE phase' = phase
  BY <1>1, TaskMoves
<1>2. QED
  BY <1>1, StepCases DEF Join, rangeVars, OthersTake, OthersReturn, Land, vars

LEMMA PhaseNext ==
  ASSUME TypeOK, TasksInv, StrayInv, PhaseInv, [Next]_vars
  PROVE  PhaseInv'
<1>1. Pieces' = Pieces /\ total' = total /\ total \in Nat
  BY Fixed, RangeAssumption DEF TypeOK
<1>2. ASSUME phase' \in {"size", "prepare"}
      PROVE  /\ disk' = <<>> /\ stray' = {} /\ (\A i \in Pieces' : task'[i].st = "idle")
             /\ signals' = <<>> /\ pending' = NoExtents /\ watermark' = 0 /\ folded' = <<>> /\ hasher' = "off"
  <2>1. phase \in {"size", "prepare"}
    <3>1. CASE phase' = phase
      BY <1>2, <3>1
    <3>2. CASE phase' # phase
      BY <1>2, <3>2, PhaseSteps DEF Sized, StartFails, Prepare, FanoutEnds, Resolve, RereadFails, JoinFails
    <3>3. QED
      BY <3>1, <3>2
  <2>2. /\ disk = <<>> /\ stray = {} /\ (\A i \in Pieces : task[i].st = "idle")
        /\ signals = <<>> /\ pending = NoExtents /\ watermark = 0 /\ folded = <<>> /\ hasher = "off"
    BY <2>1 DEF PhaseInv
  <2>3. UNCHANGED <<disk, stray, task, hashVars>>
    <3>1. CASE Sized \/ StartFails \/ OthersTake \/ OthersReturn \/ UNCHANGED vars
      BY <3>1 DEF Sized, StartFails, OthersTake, OthersReturn, vars, rangeVars
    <3>2. ~HashStep
      BY <2>2 DEF HashStep, OpenDest, Receive, Advance, Fold, ReadFails, CloseHash
    <3>3. ~Prepare /\ ~FanoutEnds /\ ~Resolve /\ ~RereadFails /\ ~(\E i \in Pieces : Join(i) \/ JoinFails(i))
      BY <1>2, <2>1 DEF Prepare, FanoutEnds, Resolve, RereadFails, Join, JoinFails
    <3>4. ~(\E w \in stray : Land(w)) /\ phase # "fanout"
      BY <2>1, <2>2
    <3>5. Sized \/ StartFails \/ OthersTake \/ OthersReturn \/ UNCHANGED vars
      BY <3>2, <3>3, <3>4, StepCases
    <3>6. QED
      BY <3>1, <3>5
  <2>4. QED
    BY <1>1, <2>2, <2>3 DEF hashVars
<1>3. ASSUME phase' \in {"fanout", "digest", "done"} PROVE Made'
  <2>1. CASE Prepare
    BY <1>1, <2>1 DEF Prepare, Made, Hole
  <2>2. CASE Sized
    <3>1. total = 0 /\ disk' = <<>>
      BY <1>3, <2>2 DEF Sized, PhaseInv
    <3>2. <<>> \in [1..0 -> Int]
      OBVIOUS
    <3>3. QED
      BY <1>1, <3>1, <3>2 DEF Made
  <2>3. CASE ~Prepare /\ ~Sized
    <3>1. phase \in {"fanout", "digest", "done"}
      <4>1. CASE phase' = phase
        BY <1>3, <4>1
      <4>2. CASE phase' # phase
        BY <1>3, <2>3, <4>2, PhaseSteps DEF StartFails, FanoutEnds, Resolve, RereadFails, JoinFails
      <4>3. QED
        BY <4>1, <4>2
    <3>2. QED
      BY <2>3, <3>1, MadeStays DEF PhaseInv
  <2>4. QED
    BY <2>1, <2>2, <2>3
<1>4. ASSUME phase' \in {"digest", "done"} PROVE Joined' = Pieces'
  <2>1. Joined' \subseteq Pieces'
    BY DEF Joined, InState
  <2>2. CASE Sized
    <3>1. total = 0
      BY <1>4, <2>2 DEF Sized
    <3>2. Pieces = {}
      BY <3>1 DEF Pieces, NumChunks
    <3>3. QED
      BY <1>1, <2>1, <3>2
  <2>3. CASE FanoutEnds
    BY <1>1, <2>1, <2>3, JoinedStays DEF FanoutEnds, Joined
  <2>4. CASE ~Sized /\ ~FanoutEnds
    <3>1. phase \in {"digest", "done"}
      <4>1. CASE phase' = phase
        BY <1>4, <4>1
      <4>2. CASE phase' # phase
        BY <1>4, <2>4, <4>2, PhaseSteps DEF StartFails, Prepare, Resolve, RereadFails, JoinFails
      <4>3. QED
        BY <4>1, <4>2
    <3>2. QED
      BY <1>1, <2>1, <3>1, JoinedStays DEF PhaseInv
  <2>5. QED
    BY <2>2, <2>3, <2>4
<1>5. FailsForCause'
  <2> SUFFICES ASSUME phase' = "failed", disk' # <<>>
               PROVE  \/ hasher' = "none" /\ Joined' = Pieces
                      \/ \E i \in Pieces : task'[i].st = "refused"
                      \/ \E i \in Pieces : task'[i].st = "error" /\ task'[i].retries > MaxRetries
    BY <1>1 DEF FailsForCause, Joined
  <2>1. CASE phase' = phase
    <3>1. ~Prepare
      BY <2>1 DEF Prepare
    <3>2. disk # <<>>
      BY <3>1, MadeStays
    <3>3. CASE hasher = "none" /\ Joined = Pieces
      <4>1. hasher' = hasher
        <5>1. CASE HashStep
          BY <3>3, <5>1 DEF HashStep, OpenDest, Receive, Advance, Fold, ReadFails, CloseHash
        <5>2. CASE ~HashStep
          <6>1. phase = "failed"
            BY <2>1
          <6>2. OthersReturn \/ (\E w \in stray : Land(w)) \/ UNCHANGED vars
            BY <5>2, <6>1, StepCases DEF Sized, StartFails, Prepare, FanoutEnds, Resolve, RereadFails, Join,
               JoinFails, OthersTake
          <6>3. QED
            BY <6>2 DEF OthersReturn, Land, vars, hashVars
        <5>3. QED
          BY <5>1, <5>2
      <4>2. Joined' = Pieces
        BY <1>1, <3>3, JoinedStays DEF Joined, InState
      <4>3. QED
        BY <3>3, <4>1, <4>2
    <3>4. CASE \E i \in Pieces : task[i].st = "refused"
      BY <3>4, FinalStays
    <3>5. CASE \E i \in Pieces : task[i].st = "error" /\ task[i].retries > MaxRetries
      BY <3>5, FinalStays
    <3>6. QED
      BY <2>1, <3>2, <3>3, <3>4, <3>5 DEF PhaseInv, FailsForCause, Joined
  <2>2. CASE Sized \/ StartFails
    BY <2>2 DEF Sized, StartFails, PhaseInv
  <2>3. CASE RereadFails
    <3>1. Joined = Pieces /\ hasher' = "none" /\ task' = task
      BY <2>3 DEF RereadFails, PhaseInv, hashVars
    <3>2. Joined' = Joined
      BY <1>1, <3>1 DEF Joined, InState
    <3>3. QED
      BY <3>1, <3>2
  <2>4. ASSUME NEW i \in Pieces, JoinFails(i)
        PROVE  \/ \E j \in Pieces : task'[j].st = "refused"
               \/ \E j \in Pieces : task'[j].st = "error" /\ task'[j].retries > MaxRetries
    <3>1. task[i].st \in {"error", "refused"}
      BY <2>4 DEF JoinFails
    <3>2. task'[i] = task[i]
      BY <3>1, FinalStays
    <3>3. task[i].st = "error" => task[i].retries > MaxRetries
      BY DEF TasksInv, TaskInv
    <3>4. QED
      BY <3>1, <3>2, <3>3
  <2>5. ~Prepare /\ ~FanoutEnds /\ ~Resolve
    BY DEF Prepare, FanoutEnds, Resolve
  <2>6. QED
    BY <2>1, <2>2, <2>3, <2>4, <2>5, PhaseSteps
<1>6. ASSUME phase' \in {"prepare", "fanout", "digest", "done"} PROVE total' = 0 \/ case'.chunk # 0
  <2>1. total' = total /\ case' = case
    BY Fixed
  <2>2. CASE phase' = phase
    BY <1>6, <2>1, <2>2 DEF PhaseInv
  <2>3. CASE phase' # phase
    BY <1>6, <2>1, <2>3, PhaseSteps DEF Sized, StartFails, Prepare, FanoutEnds, Resolve, RereadFails,
       JoinFails, PhaseInv
  <2>4. QED
    BY <2>2, <2>3
<1>7. QED
  BY <1>2, <1>3, <1>4, <1>5, <1>6 DEF PhaseInv

-----------------------------------------------------------------------------
(* The hasher.                                                             *)

LEMMA SeqMono ==
  ASSUME NEW S, NEW T, S \subseteq T, NEW s \in Seq(S)
  PROVE  s \in Seq(T)
<1>1. Len(s) \in Nat /\ s \in [1..Len(s) -> S]
  OBVIOUS
<1>2. s \in [1..Len(s) -> T]
  BY <1>1
<1>3. QED
  BY <1>1, <1>2

\* A message of this download is one extent.
LEMMA InsertOne ==
  ASSUME NEW m, NEW e
  PROVE  /\ DOMAIN Insert(m, <<e>>) = DOMAIN m \cup {e.at}
         /\ Insert(m, <<e>>)[e.at] = e.size
         /\ \A o \in DOMAIN m \ {e.at} : Insert(m, <<e>>)[o] = m[o]
<1> DEFINE x == <<e>>
           Of(o) == {i \in DOMAIN x : x[i].at = o}
           last(o) == x[CHOOSE i \in Of(o) : \A j \in Of(o) : j <= i].size
<1>1. DOMAIN x = {1} /\ x[1] = e
  OBVIOUS
<1>2. Insert(m, x) = [o \in DOMAIN m \cup {x[i].at : i \in DOMAIN x} |-> IF Of(o) = {} THEN m[o] ELSE last(o)]
  BY DEF Insert
<1>3. {x[i].at : i \in DOMAIN x} = {e.at}
  BY <1>1
<1>4. Of(e.at) = {1}
  BY <1>1
<1>5. \A o : o # e.at => Of(o) = {}
  BY <1>1
<1>6. last(e.at) = e.size
  <2>1. \E i \in Of(e.at) : \A j \in Of(e.at) : j <= i
    BY <1>4
  <2>2. (CHOOSE i \in Of(e.at) : \A j \in Of(e.at) : j <= i) \in Of(e.at)
    BY <2>1
  <2>3. (CHOOSE i \in Of(e.at) : \A j \in Of(e.at) : j <= i) = 1
    BY <1>4, <2>2
  <2>4. QED
    BY <1>1, <2>3
<1>7. QED
  <2> HIDE DEF x, Of, last
  <2>1. QED
    BY <1>2, <1>3, <1>4, <1>5, <1>6 DEF x

\* What the other steps do to the hasher's state.
LEMMA OtherSteps ==
  ASSUME TypeOK, TasksInv, [Next]_vars, ~Prepare, ~(HashStep /\ UNCHANGED rangeVars)
  PROVE  /\ UNCHANGED <<pending, watermark, folded, hasher>>
         /\ signals' = signals \/ \E i \in Pieces : Join(i) /\ signals' = Append(signals, Extent(i))
<1>1. ASSUME NEW i \in Pieces, TaskStep(i) \/ Acquire(i) PROVE UNCHANGED hashVars
  BY <1>1, TaskMoves
<1>2. ASSUME NEW i \in Pieces, Join(i)
      PROVE  /\ UNCHANGED <<pending, watermark, folded, hasher>>
             /\ signals' = signals \/ signals' = Append(signals, Extent(i))
  BY <1>2 DEF Join, Send, Extent
<1>3. CASE Sized \/ StartFails \/ Resolve \/ RereadFails \/ OthersTake \/ OthersReturn
             \/ (\E w \in stray : Land(w)) \/ UNCHANGED vars
  BY <1>3 DEF Sized, StartFails, Resolve, RereadFails, OthersTake, OthersReturn, Land, vars, hashVars
<1>4. CASE FanoutEnds \/ \E i \in Pieces : JoinFails(i)
  BY <1>4 DEF FanoutEnds, JoinFails
<1>5. QED
  <2>1. ASSUME UNCHANGED hashVars PROVE UNCHANGED <<signals, pending, watermark, folded, hasher>>
    BY <2>1 DEF hashVars
  <2>2. QED
    BY <1>1, <1>2, <1>3, <1>4, <2>1, StepCases

LEMMA HashSteps ==
  ASSUME TypeOK, HashInv, HashStep, UNCHANGED rangeVars
  PROVE  HashInv'
<1>1. UNCHANGED <<total, disk, case, task>>
  BY DEF HashStep, OpenDest, Receive, Advance, Fold, ReadFails, CloseHash, rangeVars
<1>2. Pieces' = Pieces /\ Joined' = Joined /\ Joined \subseteq Pieces
  BY <1>1 DEF Pieces, NumChunks, Joined, InState
<1>3. \A i : First(i)' = First(i) /\ Last(i)' = Last(i)
  BY <1>1 DEF First, Last
<1>4. \A i : Expected(i)' = Expected(i) /\ Region(i)' = Region(i) /\ Extent(i)' = Extent(i)
  BY <1>3 DEF Expected, Region, Extent
<1>5. {Extent(i) : i \in Joined}' = {Extent(i) : i \in Joined}
  BY <1>2, <1>4
<1>6. watermark \in Nat /\ folded \in Seq(Int) /\ Len(folded) \in Nat /\ Len(folded) <= watermark
  BY DEF HashInv
<1>7. CASE (OpenDest \/ ReadFails \/ CloseHash) \/ (Fold /\ UNCHANGED folded)
  <2>1. UNCHANGED <<signals, pending, watermark, folded>>
    BY <1>7 DEF OpenDest, ReadFails, CloseHash, Fold
  <2>2. /\ hasher' \in {"off", "open", "recv", "fold", "none", "digest"}
        /\ hasher' = "digest" => Len(folded) = total
    BY <1>7 DEF OpenDest, ReadFails, CloseHash, Fold, Covered, HashInv
  <2>3. QED
    BY <1>1, <1>2, <1>3, <1>4, <1>5, <2>1, <2>2 DEF HashInv
<1>8. CASE Receive
  <2>1. signals \in Seq({Extent(i) : i \in Joined}) /\ signals # <<>>
    BY <1>8 DEF Receive, HashInv
  <2>2. Head(signals) \in {Extent(i) : i \in Joined} /\ Tail(signals) \in Seq({Extent(i) : i \in Joined})
    BY <2>1
  <2>3. PICK i \in Joined : Head(signals) = Extent(i)
    BY <2>2
  <2>4. UNCHANGED <<watermark, folded>> /\ hasher' = "fold" /\ signals' = Tail(signals)
    BY <1>8 DEF Receive
  <2>5. /\ DOMAIN pending' = DOMAIN pending \cup {First(i)} /\ pending'[First(i)] = Expected(i)
        /\ \A o \in DOMAIN pending \ {First(i)} : pending'[o] = pending[o]
    <3> DEFINE e == [at |-> First(i), size |-> Expected(i)]
    <3>1. pending' = Insert(pending, <<e>>)
      BY <1>8, <2>3 DEF Receive, Extent
    <3>2. e.at = First(i) /\ e.size = Expected(i)
      OBVIOUS
    <3> HIDE DEF e
    <3>3. /\ DOMAIN Insert(pending, <<e>>) = DOMAIN pending \cup {e.at}
          /\ Insert(pending, <<e>>)[e.at] = e.size
          /\ \A o \in DOMAIN pending \ {e.at} : Insert(pending, <<e>>)[o] = pending[o]
      BY InsertOne, Zenon
    <3>4. QED
      BY <3>1, <3>2, <3>3, Zenon
  <2>6. \A o \in DOMAIN pending' : \E j \in Joined : o = First(j) /\ pending'[o] = Expected(j)
    BY <2>5 DEF HashInv
  <2>7. QED
    BY <1>1, <1>2, <1>3, <1>4, <1>5, <2>2, <2>4, <2>6 DEF HashInv
<1>9. CASE Advance
  <2>1. PICK o \in DOMAIN pending :
          /\ o = watermark /\ watermark' = o + pending[o]
          /\ pending' = [p \in DOMAIN pending \ {o} |-> pending[p]]
    BY <1>9 DEF Advance, Contiguous
  <2>2. PICK i \in Joined : o = First(i) /\ pending[o] = Expected(i)
    BY DEF HashInv
  <2>3. watermark = First(i) /\ watermark' = Last(i) + 1 /\ watermark' \in Nat /\ watermark <= watermark'
    <3>1. i \in Pieces
      BY <1>2
    <3>2. First(i) \in Nat /\ Last(i) \in Nat /\ First(i) <= Last(i) /\ First(i) + Expected(i) = Last(i) + 1
      BY <3>1, Geometry
    <3>3. QED
      BY <2>1, <2>2, <3>2
  <2>4. \A k \in 0..(watermark' - 1) : \E j \in Joined : k \in Region(j)
    <3> SUFFICES ASSUME NEW k \in 0..(watermark' - 1) PROVE \E j \in Joined : k \in Region(j)
      OBVIOUS
    <3>1. CASE k < watermark
      <4>1. k \in 0..(watermark - 1)
        BY <1>6, <2>3, <3>1
      <4>2. QED
        BY <4>1 DEF HashInv
    <3>2. CASE ~(k < watermark)
      <4>1. First(i) \in Nat /\ Last(i) \in Nat
        BY <1>2, Geometry
      <4>2. k \in First(i)..Last(i)
        BY <1>6, <2>3, <3>2, <4>1
      <4>3. QED
        BY <4>2 DEF Region
    <3>3. QED
      BY <3>1, <3>2
  <2>5. UNCHANGED <<signals, folded, hasher>>
    BY <1>9 DEF Advance
  <2>6. Len(folded) <= watermark'
    BY <1>6, <2>3
  <2>7. \A p \in DOMAIN pending' : \E j \in Joined : p = First(j) /\ pending'[p] = Expected(j)
    BY <2>1 DEF HashInv
  <2>8. QED
    BY <1>1, <1>2, <1>3, <1>4, <1>5, <2>3, <2>4, <2>5, <2>6, <2>7 DEF HashInv
<1>10. CASE Fold /\ ~UNCHANGED folded
  <2>1. /\ Len(folded) < watermark /\ Len(folded) < Len(disk) /\ UNCHANGED <<signals, pending, watermark, hasher>>
        /\ folded' = Append(folded, disk[Len(folded) + 1]) /\ hasher # "digest"
    BY <1>6, <1>10 DEF Fold
  <2>2. Made
    <3>1. disk # <<>>
      BY <1>6, <2>1
    <3>2. QED
      BY <3>1 DEF TypeOK
  <2>3. disk[Len(folded) + 1] \in Int
    <3>1. total \in Nat /\ disk \in Seq(Int) /\ Len(disk) = total
      BY <2>2, RangeAssumption DEF TypeOK, Made
    <3>2. Len(folded) + 1 \in 1..total
      BY <1>6, <2>1, <3>1
    <3>3. QED
      BY <2>2, <3>2 DEF Made
  <2>4. folded' \in Seq(Int) /\ Len(folded') = Len(folded) + 1
    BY <1>6, <2>1, <2>3
  <2>5. \A k \in 1..Len(folded') : folded'[k] = disk[k]
    <3> SUFFICES ASSUME NEW k \in 1..(Len(folded) + 1) PROVE folded'[k] = disk[k]
      BY <2>4
    <3>1. folded'[k] = IF k = Len(folded) + 1 THEN disk[Len(folded) + 1] ELSE folded[k]
      BY <1>6, <2>1, <2>3
    <3>2. k # Len(folded) + 1 => k \in 1..Len(folded)
      BY <1>6
    <3>3. QED
      BY <3>1, <3>2 DEF HashInv
  <2>6. Len(folded') <= watermark
    BY <1>6, <2>1, <2>4
  <2>7. QED
    BY <1>1, <1>2, <1>3, <1>4, <1>5, <2>1, <2>4, <2>5, <2>6 DEF HashInv
<1>11. QED
  BY <1>7, <1>8, <1>9, <1>10 DEF HashStep

LEMMA HashNext ==
  ASSUME OneFault, FileInv, HashInv, [Next]_vars
  PROVE  HashInv'
<1> USE DEF FileInv
<1>1. Joined \subseteq Joined' /\ Joined \subseteq Pieces
  BY JoinedStays DEF Joined, InState
<1>2. /\ total' = total /\ Pieces' = Pieces
      /\ \A i : First(i)' = First(i) /\ Expected(i)' = Expected(i) /\ Region(i)' = Region(i) /\ Extent(i)' = Extent(i)
  BY Fixed
<1>3. {Extent(i) : i \in Joined} \subseteq {Extent(i) : i \in Joined}'
  BY <1>1, <1>2
<1>4. CASE HashStep /\ UNCHANGED rangeVars
  BY <1>4, HashSteps
<1>5. CASE Prepare
  <2>1. UNCHANGED <<signals, pending, watermark, folded>> /\ hasher' \in {"off", "open"}
    BY <1>5 DEF Prepare, SpawnHasher
  <2>2. signals = <<>> /\ DOMAIN pending = {} /\ watermark = 0 /\ folded = <<>>
    BY <1>5 DEF Prepare, PhaseInv, NoExtents
  <2>3. Len(folded) = 0 /\ 1..Len(folded) = {} /\ 0..(watermark - 1) = {}
    BY <2>2
  <2>4. <<>> \in Seq({Extent(i) : i \in Joined}') /\ <<>> \in Seq(Int)
    OBVIOUS
  <2>5. QED
    BY <2>1, <2>2, <2>3, <2>4 DEF HashInv
<1>6. CASE ~Prepare /\ ~(HashStep /\ UNCHANGED rangeVars)
  <2>1. /\ UNCHANGED <<pending, watermark, folded, hasher>>
        /\ signals' = signals \/ \E i \in Pieces : Join(i) /\ signals' = Append(signals, Extent(i))
    BY <1>6, OtherSteps
  <2>2. signals \in Seq({Extent(i) : i \in Joined}')
    BY <1>3, SeqMono DEF HashInv
  <2>3. signals' \in Seq({Extent(i) : i \in Joined}')
    <3>1. ASSUME NEW i \in Pieces, Join(i) PROVE Extent(i) \in {Extent(j) : j \in Joined}'
      <4>1. i \in Joined'
        BY <1>2, <3>1, JoinTasks DEF Joined, InState
      <4>2. QED
        BY <1>2, <4>1
    <3>2. QED
      BY <2>1, <2>2, <3>1
  <2>4. \A o \in DOMAIN pending : \E i \in Joined' : o = First(i)' /\ pending[o] = Expected(i)'
    BY <1>1, <1>2 DEF HashInv
  <2>5. \A k \in 0..(watermark - 1) : \E i \in Joined' : k \in Region(i)'
    BY <1>1, <1>2 DEF HashInv
  <2>6. ASSUME NEW k \in 1..Len(folded) PROVE folded[k] = disk'[k]
    <3>1. watermark \in Nat /\ Len(folded) \in Nat /\ Len(folded) <= watermark
      BY DEF HashInv
    <3>2. k - 1 \in 0..(watermark - 1) /\ k - 1 + 1 = k /\ k \in Nat
      BY <3>1
    <3>3. PICK i \in Joined : k - 1 \in Region(i)
      BY <3>2 DEF HashInv
    <3>4. i \in Pieces /\ task[i].st = "joined"
      BY DEF Joined, InState
    <3>5. disk'[k - 1 + 1] = disk[k - 1 + 1]
      BY <1>6, <3>3, <3>4, SettledStays
    <3>6. disk'[k] = disk[k]
      BY <3>2, <3>5
    <3>7. QED
      BY <3>6 DEF HashInv
  <2>7. QED
    BY <1>2, <2>1, <2>3, <2>4, <2>5, <2>6 DEF HashInv
<1>7. QED
  BY <1>4, <1>5, <1>6

-----------------------------------------------------------------------------
(* The digest.                                                             *)

\* Once every piece is in, the file does not change any more.
LEMMA FileStays ==
  ASSUME OneFault, FileInv, [Next]_vars, phase \in {"digest", "done"}
  PROVE  disk' = disk
<1> USE DEF FileInv
<1>1. Made /\ Joined = Pieces /\ ~Prepare /\ (total = 0 \/ case.chunk # 0) /\ total' = total /\ total \in Nat
  BY Fixed, RangeAssumption DEF PhaseInv, Prepare, TypeOK
<1>2. Made' /\ DOMAIN disk = 1..total /\ DOMAIN disk' = 1..total
  BY <1>1, MadeStays DEF Made
<1>3. ASSUME NEW k \in 1..total PROVE disk'[k] = disk[k]
  <2>1. k - 1 \in 0..(total - 1) /\ case.chunk # 0 /\ k - 1 + 1 = k
    BY <1>1
  <2>2. PICK i \in Pieces : k - 1 \in Region(i)
    BY <2>1, Cover
  <2>3. task[i].st = "joined"
    BY <1>1 DEF Joined, InState
  <2>4. disk'[k - 1 + 1] = disk[k - 1 + 1]
    BY <1>1, <2>2, <2>3, SettledStays
  <2>5. QED
    BY <2>1, <2>4
<1>4. QED
  BY <1>1, <1>2, <1>3 DEF Made

LEMMA DigestNext ==
  ASSUME OneFault, FileInv, HashInv, DigestOfDisk, [Next]_vars
  PROVE  DigestOfDisk'
<1> SUFFICES ASSUME phase' = "done", verify' PROVE result' = disk'
  BY DEF DigestOfDisk
<1>1. verify /\ total' = total
  BY Fixed
<1>2. CASE Sized
  BY <1>2 DEF Sized, FileInv, PhaseInv
<1>3. CASE Resolve
  <2>1. disk' = disk /\ phase = "digest" /\ result' = IF hasher = "digest" THEN folded ELSE disk
    BY <1>3 DEF Resolve
  <2>2. CASE hasher = "digest"
    <3>1. folded \in Seq(Int) /\ Len(folded) = total /\ (\A k \in 1..Len(folded) : folded[k] = disk[k])
      BY <2>2 DEF HashInv
    <3>2. Made
      BY <2>1 DEF FileInv, PhaseInv
    <3>3. folded \in [1..total -> Int] /\ disk \in [1..total -> Int]
      BY <3>1, <3>2 DEF Made
    <3>4. folded = disk
      BY <3>1, <3>3
    <3>5. QED
      BY <2>1, <2>2, <3>4
  <2>3. CASE hasher # "digest"
    BY <2>1, <2>3
  <2>4. QED
    BY <2>2, <2>3
<1>4. CASE phase = "done"
  <2>1. disk' = disk /\ result = disk
    BY <1>1, <1>4, FileStays DEF DigestOfDisk
  <2>2. result' = result
    <3>1. ASSUME NEW i \in Pieces, TaskStep(i) \/ Acquire(i) PROVE result' = result
      BY <3>1, TaskMoves DEF FileInv
    <3>2. ~Sized /\ ~Resolve
      BY <1>4 DEF Sized, Resolve
    <3>3. QED
      BY <3>1, <3>2, StepCases DEF StartFails, Prepare, FanoutEnds, RereadFails, Join, JoinFails, rangeVars,
         OthersTake, OthersReturn, Land, vars
  <2>3. QED
    BY <2>1, <2>2
<1>5. CASE FanoutEnds
  BY <1>1, <1>5 DEF FanoutEnds
<1>6. phase # "done" => Sized \/ Resolve \/ FanoutEnds
  BY PhaseSteps DEF FileInv, StartFails, Prepare, RereadFails, JoinFails
<1>7. QED
  BY <1>2, <1>3, <1>4, <1>5, <1>6

-----------------------------------------------------------------------------

LEMMA FileInit == Init => FileInv
<1> SUFFICES ASSUME Init PROVE FileInv
  OBVIOUS
<1>1. TypeOK
  BY FreshTasks DEF Init, TypeOK
<1>2. \A i \in Pieces : task[i].st = "idle" /\ task[i].got = 0 /\ task[i].buf = <<>>
  BY FreshTasks DEF Init
<1>3. TasksInv
  BY <1>2 DEF TasksInv, TaskInv
<1>4. StrayInv
  BY DEF Init, StrayInv
<1>5. PhaseInv
  BY <1>2 DEF Init, HashInit, PhaseInv, FailsForCause
<1>6. QED
  BY <1>1, <1>3, <1>4, <1>5 DEF FileInv

LEMMA FileNext == FileInv /\ [Next]_vars => FileInv'
BY TypeNext, TasksNext, StrayNext, PhaseNext DEF FileInv

LEMMA FileAlways == Spec => []FileInv
BY FileInit, FileNext, PTL DEF Spec

(***************************************************************************)
(* A download whose file could be created fails only when the server       *)
(* refused a piece, one piece failed more than MAX_RETRIES times, or the   *)
(* complete file could not be read again, however the tasks' failures, the *)
(* aborts and the hasher interleave (run_chunk_fanout).                    *)
(***************************************************************************)
THEOREM FailureHasCause == Spec => []FailsForCause
<1>1. FileInv => FailsForCause
  BY DEF FileInv, PhaseInv
<1>2. QED
  BY <1>1, FileAlways, PTL

(***************************************************************************)
(* From a server that sends the right bytes, a download that returns has   *)
(* written the whole blob, each byte in its place, also without            *)
(* verification, and no late write changes that                            *)
(* (try_download_chunk_to_offset).                                         *)
(***************************************************************************)
THEOREM SuccessIsTheBlob == Spec => []CompleteUnverified
<1>1. ASSUME FileInv, phase = "done", ~case.corrupting PROVE disk = Blob(total)
  <2>1. Made /\ Joined = Pieces /\ (total = 0 \/ case.chunk # 0) /\ total \in Nat
    BY <1>1, RangeAssumption DEF FileInv, PhaseInv, TypeOK
  <2>2. ASSUME NEW k \in 1..total PROVE disk[k] = k - 1
    <3>1. k - 1 \in 0..(total - 1) /\ case.chunk # 0 /\ k - 1 + 1 = k
      BY <2>1
    <3>2. PICK i \in Pieces : k - 1 \in Region(i)
      BY <1>1, <3>1, Cover DEF FileInv
    <3>3. task[i].st = "joined"
      BY <2>1 DEF Joined, InState
    <3>4. RightAt(disk, First(i), Last(i))
      BY <1>1, <3>3 DEF FileInv, TasksInv, TaskInv
    <3>5. disk[k - 1 + 1] = k - 1
      BY <3>2, <3>4 DEF RightAt, Region
    <3>6. QED
      BY <3>1, <3>5
  <2>3. QED
    BY <2>1, <2>2 DEF Made, Blob
<1>2. FileInv => CompleteUnverified
  BY <1>1 DEF CompleteUnverified
<1>3. QED
  BY <1>2, FileAlways, PTL

(***************************************************************************)
(* The digest a verified download returns is the digest of its file, then  *)
(* and from then on, whichever route it came by, although the hasher reads *)
(* the file while other pieces are still being written and retried         *)
(* (incremental_hash, resolve_verified_digest).                            *)
(***************************************************************************)
THEOREM DigestIsTheFiles ==
  ASSUME OneFault
  PROVE  Spec => []DigestOfDisk
<1>1. Init => RangeInv
  <2> SUFFICES ASSUME Init PROVE HashInv /\ DigestOfDisk
    BY FileInit DEF RangeInv
  <2>1. signals = <<>> /\ DOMAIN pending = {} /\ watermark = 0 /\ folded = <<>> /\ hasher = "off" /\ phase = "size"
    BY DEF Init, HashInit, NoExtents
  <2>2. Len(folded) = 0 /\ 1..Len(folded) = {} /\ 0..(watermark - 1) = {}
    BY <2>1
  <2>3. <<>> \in Seq({Extent(i) : i \in Joined}) /\ <<>> \in Seq(Int)
    OBVIOUS
  <2>4. QED
    BY <2>1, <2>2, <2>3 DEF HashInv, DigestOfDisk
<1>2. RangeInv /\ [Next]_vars => RangeInv'
  BY FileNext, HashNext, DigestNext DEF RangeInv
<1>3. RangeInv => DigestOfDisk
  BY DEF RangeInv
<1>4. QED
  BY <1>1, <1>2, <1>3, PTL DEF Spec
=============================================================================
