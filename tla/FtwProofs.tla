----------------------------- MODULE FtwProofs -----------------------------
(* Invariants of the fault tolerant write driver, and that it implements
   AtomicStore, for every queue size, set of blocks and number of service calls,
   power losses and flash errors. *)
EXTENDS Ftw, ListLemmas

-----------------------------------------------------------------------------
(* The platforms the theorems are about                                      *)
-----------------------------------------------------------------------------

Single(cf) == \A a, b \in cf.targets : a = b

(* Every allocation that fits has n records, and the queue holds such allocations
   with at most one cell left over; Write allocates for itself only when n is 1. *)
Uniform(cf, n) ==
  /\ \E k \in 0..cf.queue : cf.queue \in {k * (n + 1), k * (n + 1) + 1}
  /\ \A m \in cf.writes : m = n \/ (m >= cf.queue /\ m # AllOnes)
  /\ FALSE \in cf.private => n = 1
  /\ n > 1 => Single(cf)

FlushOps == {"f_invalid", "f_erase", "f_copy", "f_valid"}

(* The restrictions that README.md describes: erasing is atomic, the records of a
   sequence and the writes after a flash error have one target, nobody aborts
   after a flash error, and the flush of the working block does not fail. *)
Sound(cf) ==
  /\ ~cf.split
  /\ \E n \in 1..(cf.queue - 1) : Uniform(cf, n)
  /\ cf.fails > 0 => Single(cf) /\ "abort" \notin cf.services
  /\ cf.failOps \cap FlushOps = {}

(* The number of records of an allocation, and where its headers can be. *)
Records(cf) == CHOOSE n \in 1..(cf.queue - 1) : Uniform(cf, n)
Heads(cf) == {h \in 1..(cf.queue + 1) : \E j \in 0..cf.queue : h = 1 + j * (Records(cf) + 1)}

LEMMA SoundBasics ==
  ASSUME NEW cf \in Config, Sound(cf)
  PROVE  /\ cf.queue \in Nat /\ 2 <= cf.queue /\ cf.queue < AllOnes /\ AllOnes \in Nat
         /\ Records(cf) \in 1..(cf.queue - 1)
         /\ Uniform(cf, Records(cf))
         /\ ~cf.split
<1>1. cf.queue \in 2..(AllOnes - 1)
  BY DEF Config
<1>2. \E n \in 1..(cf.queue - 1) : Uniform(cf, n)
  BY DEF Sound
<1>3. Records(cf) \in 1..(cf.queue - 1) /\ Uniform(cf, Records(cf))
  BY <1>2, Zenon DEF Records
<1>4. AllOnes \in Nat
  BY SMT DEF AllOnes
<1>5. ~cf.split
  BY DEF Sound
<1> QED BY <1>1, <1>3, <1>4, <1>5

LEMMA TimesStep ==
  ASSUME NEW j \in Nat, NEW k \in Nat, NEW m \in Nat
  PROVE  /\ j * m \in Nat
         /\ (j + 1) * m = j * m + m
         /\ j < k => (j + 1) * m <= k * m
         /\ j <= k => j * m <= k * m
<1>1. j * m \in Nat /\ k * m \in Nat /\ (j + 1) * m = j * m + m
  OBVIOUS
<1>2. ASSUME j <= k PROVE j * m <= k * m
  <2>1. k - j \in Nat /\ (k - j) * m \in Nat
    BY <1>2
  <2>2. (k - j) * m = k * m - j * m
    OBVIOUS
  <2> QED BY <1>1, <2>1, <2>2
<1>3. ASSUME j < k PROVE (j + 1) * m <= k * m
  <2>1. k - (j + 1) \in Nat /\ (k - (j + 1)) * m \in Nat
    BY <1>3
  <2>2. (k - (j + 1)) * m = k * m - (j + 1) * m
    OBVIOUS
  <2> QED BY <1>1, <2>1, <2>2
<1> QED BY <1>1, <1>2, <1>3

(* Headers are Records(cf) + 1 cells apart, and none is cut off by the end. *)
LEMMA HeadsFacts ==
  ASSUME NEW cf \in Config, Sound(cf)
  PROVE  /\ 1 \in Heads(cf)
         /\ \A h \in Heads(cf) : h \in 1..(cf.queue + 1)
         /\ \A h \in Heads(cf) : h < cf.queue =>
              h + Records(cf) <= cf.queue /\ h + Records(cf) + 1 \in Heads(cf)
         /\ \A g, h \in Heads(cf) : g < h => g + Records(cf) + 1 <= h
<1> DEFINE n == Records(cf)
           m == n + 1
<1>1. /\ cf.queue \in Nat /\ 2 <= cf.queue /\ n \in 1..(cf.queue - 1) /\ Uniform(cf, n)
      /\ m \in Nat /\ m >= 2
  BY SoundBasics
<1>2. PICK k \in 0..cf.queue : cf.queue = k * m \/ cf.queue = k * m + 1
  BY <1>1 DEF Uniform
<1>3. 1 \in Heads(cf)
  BY <1>1 DEF Heads
<1>4. ASSUME NEW h \in Heads(cf), h < cf.queue
      PROVE  h + n <= cf.queue /\ h + n + 1 \in Heads(cf)
  <2>1. PICK j \in 0..cf.queue : h = 1 + j * m
    BY DEF Heads
  <2>2. j \in Nat /\ k \in Nat /\ j * m \in Nat /\ k * m \in Nat
    BY <1>1, <1>2, <2>1, TimesStep
  <2>3. j * m < k * m
    BY <1>2, <1>4, <2>1, <2>2
  <2>4. j < k
    <3> HIDE DEF m
    <3> SUFFICES ASSUME k <= j PROVE FALSE
      BY <2>2
    <3>1. k * m <= j * m
      BY <1>1, <2>2, TimesStep
    <3> QED BY <3>1, <2>3, <2>2
  <2>5. (j + 1) * m <= k * m /\ (j + 1) * m = j * m + m
    BY <1>1, <2>2, <2>4, TimesStep
  <2>6. h + n + 1 = 1 + (j + 1) * m /\ h + n <= cf.queue
    BY <1>1, <1>2, <2>1, <2>2, <2>5
  <2>7. j + 1 \in 0..cf.queue
    BY <2>4, <1>1
  <2> QED BY <2>6, <2>7, <1>1, <1>4 DEF Heads
<1>5. ASSUME NEW g \in Heads(cf), NEW h \in Heads(cf), g < h
      PROVE  g + n + 1 <= h
  <2>1. PICK i \in 0..cf.queue : g = 1 + i * m
    BY DEF Heads
  <2>2. PICK j \in 0..cf.queue : h = 1 + j * m
    BY DEF Heads
  <2>3. i \in Nat /\ j \in Nat /\ i * m \in Nat /\ j * m \in Nat
    BY <1>1, <2>1, <2>2, TimesStep
  <2>4. i < j
    <3> HIDE DEF m
    <3> SUFFICES ASSUME j <= i PROVE FALSE
      BY <2>3
    <3>1. j * m <= i * m
      BY <1>1, <2>3, TimesStep
    <3> QED BY <3>1, <2>3, <1>5, <2>1, <2>2
  <2>5. (i + 1) * m <= j * m /\ (i + 1) * m = i * m + m
    BY <1>1, <2>3, <2>4, TimesStep
  <2> QED BY <2>1, <2>2, <2>3, <2>5, <1>1
<1>6. \A h \in Heads(cf) : h \in 1..(cf.queue + 1)
  BY DEF Heads
<1> QED BY <1>3, <1>4, <1>5, <1>6

-----------------------------------------------------------------------------
(* The write queue                                                           *)
-----------------------------------------------------------------------------

Put(q, i, c) == [q EXCEPT ![i] = c]

(* All headers before h are complete. *)
Chain(cf, q, h) ==
  /\ h \in Heads(cf)
  /\ \A g \in Heads(cf) : g < h => q[g].body = Records(cf) /\ WRITES_COMPLETED \in q[g].bits

Clean(q, i) == \A j \in DOMAIN q : j >= i => q[j] = BlankCell

(* Nothing is allocated at h. *)
Vacant(cf, q, h, r) == Chain(cf, q, h) /\ Clean(q, h) /\ r = h + 1

(* Power was lost while the header at h was written. *)
Torn(cf, q, h, r) ==
  /\ Chain(cf, q, h) /\ h < cf.queue /\ Clean(q, h + 1) /\ r = h + 1
  /\ q[h].body = Mixed /\ HEADER_ALLOCATED \in q[h].bits

OpenHeader(cf, q, h) ==
  /\ Chain(cf, q, h) /\ h < cf.queue
  /\ q[h].body = Records(cf)
  /\ HEADER_ALLOCATED \in q[h].bits /\ WRITES_COMPLETED \notin q[h].bits

Spared == {SPARE_COMPLETED}
Finished == {SPARE_COMPLETED, DEST_COMPLETED}
Prior(q, h, r) == \A j \in (h + 1)..(r - 1) : q[j].bits = Finished

(* The records of header h before r are written, and r has the bits given. *)
Open(cf, q, h, r, bits) ==
  /\ OpenHeader(cf, q, h)
  /\ r \in (h + 1)..(h + Records(cf))
  /\ Prior(q, h, r) /\ Clean(q, r + 1)
  /\ q[r].bits = bits
  /\ q[r].body \in cf.targets \cup {Blank}
  /\ bits # {} => q[r].body \in cf.targets

(* All records of header h are written. *)
Written(cf, q, h, r) ==
  /\ OpenHeader(cf, q, h)
  /\ r = h + Records(cf)
  /\ Prior(q, h, r + 1) /\ Clean(q, r + 1)

(* What a function f that follows links, from each member of 1..n that is not in
   stop, gives: the place where that ends. *)
Scan(n, stop, next, f) ==
  [i \in 1..n |-> IF i \in stop THEN i ELSE IF next[i] \notin 1..n THEN 0 ELSE f[next[i]]]

(* There is such a function when the links go upwards. *)
LEMMA ScanExists ==
  ASSUME NEW n \in Nat, NEW stop, NEW next \in [1..n -> Nat],
         \A i \in 1..n : i \notin stop => next[i] > i
  PROVE  \E f : f = Scan(n, stop, next, f)
<1> DEFINE F(f, i) == IF i \in stop THEN i ELSE IF next[i] \notin 1..n THEN 0 ELSE f[next[i]]
           Good(m, f) == /\ f = [i \in 1..n |-> f[i]]
                         /\ \A i \in 1..n : i > n - m => f[i] = F(f, i)
           T == {m \in 0..n : \E f : Good(m, f)}
<1>1. 0 \in T
  <2>1. Good(0, [i \in 1..n |-> 0])
    OBVIOUS
  <2>2. 0 \in 0..n
    OBVIOUS
  <2> HIDE DEF Good
  <2> QED BY <2>1, <2>2
<1>2. ASSUME NEW m \in 0..(n - 1), m \in T PROVE m + 1 \in T
  <2>1. PICK f : Good(m, f)
    BY <1>2
  <2> DEFINE k == n - m
             g == [i \in 1..n |-> IF i = k THEN F(f, k) ELSE f[i]]
  <2>2. k \in 1..n /\ m + 1 \in 0..n
    OBVIOUS
  <2>3. g = [i \in 1..n |-> g[i]]
    OBVIOUS
  <2>4. \A i \in 1..n : i # k => g[i] = f[i]
    OBVIOUS
  <2>5. g[k] = F(f, k)
    BY <2>2
  <2>6. ASSUME NEW i \in 1..n, i >= k PROVE F(g, i) = F(f, i)
    <3>1. i \notin stop /\ next[i] \in 1..n => g[next[i]] = f[next[i]]
      <4> HIDE DEF g
      <4> QED BY <2>4, <2>6, <2>2
    <3> HIDE DEF g
    <3> QED BY <3>1
  <2>7. ASSUME NEW i \in 1..n, i > n - (m + 1) PROVE g[i] = F(g, i)
    <3>1. i >= k
      BY <2>7
    <3>2. CASE i = k
      <4> HIDE DEF F, g
      <4> QED BY <3>1, <3>2, <2>5, <2>6
    <3>3. CASE i # k
      <4>0. i > n - m
        BY <3>1, <3>3
      <4>1. f[i] = F(f, i)
        <5> HIDE DEF F
        <5> QED BY <2>1, <4>0
      <4> HIDE DEF F, g
      <4> QED BY <3>1, <3>3, <2>4, <2>6, <4>1
    <3> QED BY <3>2, <3>3
  <2>8. Good(m + 1, g)
    <3> HIDE DEF F, g
    <3> QED BY <2>3, <2>7
  <2> HIDE DEF Good, g
  <2> QED BY <2>2, <2>8
<1>3. n \in T
  <2> HIDE DEF T
  <2>1. \A i \in 0..n : i \in T
    BY <1>1, <1>2, IntervalInduction
  <2> QED BY <2>1
<1>4. PICK f : Good(n, f)
  BY <1>3
<1>5. f = [i \in 1..n |-> F(f, i)]
  <2>1. \A i \in 1..n : f[i] = F(f, i)
    BY <1>4
  <2>2. f = [i \in 1..n |-> f[i]]
    BY <1>4
  <2> HIDE DEF F
  <2> QED BY <2>1, <2>2
<1> QED BY <1>5 DEF Scan

(* What FtwGetLastWriteHeader finds. *)
LEMMA LastWriteHeader ==
  ASSUME NEW cf \in Config, Sound(cf), NEW q, DOMAIN q = 1..cf.queue,
         NEW h, Chain(cf, q, h),
         h <= cf.queue => WRITES_COMPLETED \notin q[h].bits \/ q[h].body \notin Nat
  PROVE  FtwGetLastWriteHeader(q) = IF h <= cf.queue THEN h ELSE 0
<1> DEFINE n == cf.queue
           next == [i \in 1..n |-> i + WriteTotalSize(NumberOfWrites(q[i]))]
           stop == {i \in 1..n : WRITES_COMPLETED \notin q[i].bits \/ next[i] = i}
           G(f) == Scan(n, stop, next, f)
<1>1. /\ n \in Nat /\ 2 <= n /\ n < AllOnes /\ AllOnes \in Nat
      /\ Records(cf) \in 1..(n - 1)
  BY SoundBasics
<1>2. \A i \in 1..n : NumberOfWrites(q[i]) \in Nat
  BY <1>1 DEF NumberOfWrites
<1>3. \A i \in 1..n : WriteTotalSize(NumberOfWrites(q[i])) \in Nat
  BY <1>2 DEF WriteTotalSize
<1>4. next \in [1..n -> Nat] /\ \A i \in 1..n : next[i] >= i
  BY <1>3
<1>5. \A i \in 1..n : i \notin stop => next[i] > i
  BY <1>4
<1>6. \E f : f = G(f)
  <2>1. n \in Nat
    BY <1>1
  <2> HIDE DEF n, next, stop
  <2> QED BY <2>1, <1>4, <1>5, ScanExists, Zenon
<1> DEFINE from == CHOOSE f : f = G(f)
<1>7. FtwGetLastWriteHeader(q) = from[1]
  <2> DEFINE K(f) == [i \in DOMAIN q |->
                LET nx == i + WriteTotalSize(NumberOfWrites(q[i])) IN
                IF WRITES_COMPLETED \notin q[i].bits \/ nx = i THEN i
                ELSE IF nx \notin DOMAIN q THEN 0 ELSE f[nx]]
  <2>1. FtwGetLastWriteHeader(q) = (CHOOSE f : f = K(f))[1]
    BY DEF FtwGetLastWriteHeader
  <2>2. ASSUME NEW f PROVE K(f) = G(f)
    BY DEF Scan
  <2> HIDE DEF K, G
  <2>3. (CHOOSE f : f = K(f)) = (CHOOSE f : f = G(f))
    BY <2>2
  <2> QED BY <2>1, <2>3
<1>8. from = G(from)
  <2> HIDE DEF G
  <2> QED BY <1>6
<1> HIDE DEF from
<1>9. \A i \in 1..n : from[i] = IF i \in stop THEN i
                                ELSE IF next[i] \notin 1..n THEN 0 ELSE from[next[i]]
  <2> HIDE DEF stop, next, n
  <2> QED BY <1>8 DEF Scan
<1> DEFINE T == {g \in 0..n : g \in Heads(cf) /\ g <= h /\ from[g] = from[1]}
<1>10. h \in 1..(n + 1) /\ 1 \in Heads(cf)
  BY HeadsFacts DEF Chain
<1>11. PICK g \in T : \A x \in T : x <= g
  <2>1. 1 \in T /\ T \subseteq 0..n
    BY <1>1, <1>10
  <2> HIDE DEF T
  <2> QED BY <1>1, <2>1, GreatestMember
<1>12. g \in 1..n /\ g \in Heads(cf) /\ g <= h /\ from[g] = from[1]
  BY <1>11, HeadsFacts
<1>13. CASE g = h
  <2>1. h \in 1..n /\ h \in stop
    <3>1. h \in 1..n
      BY <1>12, <1>13
    <3>2. q[h].body \notin Nat => next[h] = h
      BY <3>1, <1>1 DEF NumberOfWrites, WriteTotalSize
    <3> QED BY <3>1, <3>2
  <2>2. from[h] = h
    <3> HIDE DEF stop, next
    <3> QED BY <2>1, <1>9
  <2> QED BY <2>1, <2>2, <1>7, <1>12, <1>13, <1>1
<1>14. CASE g # h
  <2>1. g < h /\ q[g].body = Records(cf) /\ WRITES_COMPLETED \in q[g].bits
    BY <1>10, <1>12, <1>14 DEF Chain
  <2>2. next[g] = g + Records(cf) + 1 /\ g \notin stop
    <3>1. NumberOfWrites(q[g]) = Records(cf)
      BY <1>1, <2>1 DEF NumberOfWrites
    <3>2. WriteTotalSize(Records(cf)) = Records(cf) + 1
      BY <1>1 DEF WriteTotalSize
    <3> QED BY <1>1, <1>12, <2>1, <3>1, <3>2
  <2>3. next[g] <= h
    <3>1. g + Records(cf) + 1 <= h
      BY <1>12, <2>1, HeadsFacts DEF Chain
    <3> QED BY <2>2, <3>1
  <2>4. next[g] \in Heads(cf)
    <3>1. CASE g < n
      BY <1>12, <2>2, <3>1, HeadsFacts
    <3>2. CASE g = n
      BY <1>1, <1>10, <1>12, <2>2, <2>3, <3>2
    <3> QED BY <1>1, <1>12, <3>1, <3>2
  <2>5. from[g] = IF next[g] \notin 1..n THEN 0 ELSE from[next[g]]
    <3> HIDE DEF stop, next
    <3> QED BY <1>9, <1>12, <2>2
  <2>6. CASE next[g] \in 1..n
    <3> HIDE DEF next
    <3>1. next[g] \in T
      BY <1>12, <2>3, <2>4, <2>5, <2>6
    <3>2. next[g] <= g
      BY <1>11, <3>1
    <3> QED BY <3>2, <1>1, <1>12, <2>2
  <2>7. CASE next[g] \notin 1..n
    <3>1. h = n + 1
      BY <1>1, <1>10, <1>12, <2>2, <2>3, <2>7
    <3> QED BY <1>7, <1>12, <2>5, <2>7, <3>1, <1>1
  <2> QED BY <2>6, <2>7
<1> QED BY <1>13, <1>14

(* The states of a queue that has room, with its last header h and record r. *)
Shape(cf, q, h, r) ==
  /\ h < cf.queue
  /\ \/ Vacant(cf, q, h, r)
     \/ Torn(cf, q, h, r)
     \/ Open(cf, q, h, r, {})
     \/ Open(cf, q, h, r, Spared)
     \/ Written(cf, q, h, r)

(* No room is left. *)
Spent(cf, q) == \E h \in cf.queue..(cf.queue + 1) : Vacant(cf, q, h, h + 1)
Roomy(cf, q) == \E h, r \in 1..cf.queue : Shape(cf, q, h, r)

LEMMA BlankFacts ==
  /\ BlankCell.bits = {} /\ BlankCell.body = Blank
  /\ Blank \notin Nat /\ Mixed \notin Nat /\ Blank # Mixed
  /\ Blank \notin Block /\ Mixed \notin Block
BY BodyAssumption DEF BlankCell

(* The cells of the last header are in the queue. *)
LEMMA ShapeBounds ==
  ASSUME NEW cf \in Config, Sound(cf), NEW q, NEW h, NEW r, Shape(cf, q, h, r)
  PROVE  /\ h \in Heads(cf) /\ Chain(cf, q, h)
         /\ h \in 1..(cf.queue - 1) /\ r \in 2..cf.queue /\ h < r /\ r <= h + Records(cf)
         /\ h + Records(cf) <= cf.queue /\ h + Records(cf) + 1 \in Heads(cf)
<1>1. /\ cf.queue \in Nat /\ 2 <= cf.queue /\ Records(cf) \in 1..(cf.queue - 1)
  BY SoundBasics
<1>2. h \in Heads(cf) /\ Chain(cf, q, h) /\ h < cf.queue
  BY DEF Shape, Vacant, Torn, Open, Written, OpenHeader, Chain
<1>3. /\ h \in 1..(cf.queue + 1) /\ h + Records(cf) <= cf.queue
      /\ h + Records(cf) + 1 \in Heads(cf)
  BY <1>2, HeadsFacts
<1>4. r \in (h + 1)..(h + Records(cf))
  BY <1>1, <1>3 DEF Shape, Vacant, Torn, Open, Written
<1> QED BY <1>1, <1>2, <1>3, <1>4

(* What FtwGetLastWriteRecord finds. *)
LEMMA LastWriteRecord ==
  ASSUME NEW cf \in Config, Sound(cf), NEW q, DOMAIN q = 1..cf.queue,
         NEW h, NEW r, Shape(cf, q, h, r)
  PROVE  FtwGetLastWriteRecord(q, h) = r
<1> DEFINE m == NumberOfWrites(q[h])
           open == {k \in DOMAIN q :
                 k <= m /\ (h + k \notin DOMAIN q \/ DEST_COMPLETED \notin q[h + k].bits)}
<1>1. /\ cf.queue \in Nat /\ 2 <= cf.queue /\ cf.queue < AllOnes /\ AllOnes \in Nat
      /\ Records(cf) \in 1..(cf.queue - 1)
  BY SoundBasics
<1>2. /\ h \in 1..(cf.queue - 1) /\ r \in 2..cf.queue /\ h < r /\ r <= h + Records(cf)
      /\ h + Records(cf) <= cf.queue
  BY ShapeBounds
<1>3. FtwGetLastWriteRecord(q, h) = h + (IF open = {} THEN m ELSE Min(open))
  BY DEF FtwGetLastWriteRecord
<1>4. ASSUME NEW k \in Int, k \in open, \A x \in open : k <= x
      PROVE  FtwGetLastWriteRecord(q, h) = h + k
  <2>1. open \subseteq Int
    BY <1>1
  <2> HIDE DEF open
  <2>2. Min(open) \in open /\ \A x \in open : Min(open) <= x
    BY <1>4 DEF Min
  <2> DEFINE x == Min(open)
  <2>3. x \in Int /\ x <= k /\ k <= x
    <3> HIDE DEF x
    <3> QED BY <1>4, <2>1, <2>2 DEF x
  <2>4. Min(open) = k
    <3> HIDE DEF x
    <3>1. x = k
      BY <2>3
    <3> QED BY <3>1 DEF x
  <2> QED BY <1>3, <1>4, <2>4
<1>5. CASE q[h].body \notin Nat /\ r = h + 1 /\ q[r] = BlankCell
  <2>1. m = AllOnes
    BY <1>5 DEF NumberOfWrites
  <2>2. 1 \in open /\ \A x \in open : 1 <= x
    <3>1. DEST_COMPLETED \notin q[h + 1].bits
      BY <1>5, BlankFacts
    <3> QED BY <1>1, <1>2, <2>1, <3>1
  <2> QED BY <1>4, <1>5, <2>2
<1>6. ASSUME q[h].body = Records(cf), Prior(q, h, r), DEST_COMPLETED \notin q[r].bits
      PROVE  FtwGetLastWriteRecord(q, h) = r
  <2>1. m = Records(cf)
    BY <1>1, <1>6 DEF NumberOfWrites
  <2> DEFINE k == r - h
  <2>2. k \in 1..Records(cf) /\ h + k = r
    BY <1>1, <1>2
  <2>3. k \in open
    BY <1>1, <1>2, <1>6, <2>1, <2>2
  <2>4. ASSUME NEW x \in open PROVE k <= x
    <3> SUFFICES ASSUME x < k PROVE FALSE
      BY <1>1, <2>2
    <3>1. x \in 1..cf.queue /\ h + x \in (h + 1)..(r - 1) /\ h + x \in 1..cf.queue
      BY <1>1, <1>2
    <3>2. q[h + x].bits = Finished
      BY <1>6, <3>1 DEF Prior
    <3> QED BY <3>1, <3>2, <2>4 DEF Finished
  <2> HIDE DEF k, open
  <2> QED BY <1>4, <2>2, <2>3, <2>4
<1>7. CASE Vacant(cf, q, h, r) \/ Torn(cf, q, h, r)
  <2>1. r = h + 1 /\ q[r] = BlankCell /\ (q[h] = BlankCell \/ q[h].body = Mixed)
    BY <1>1, <1>2, <1>7 DEF Vacant, Torn, Clean
  <2> QED BY <1>5, <2>1, BlankFacts
<1>8. CASE Open(cf, q, h, r, {}) \/ Open(cf, q, h, r, Spared)
  BY <1>6, <1>8 DEF Open, OpenHeader, Spared, SPARE_COMPLETED, DEST_COMPLETED
<1>9. CASE Written(cf, q, h, r)
  <2>1. m = Records(cf) /\ r = h + Records(cf)
    BY <1>1, <1>9 DEF NumberOfWrites, Written, OpenHeader
  <2>2. ASSUME NEW x \in open PROVE FALSE
    <3>1. x \in 1..cf.queue /\ h + x \in (h + 1)..((r + 1) - 1) /\ h + x \in 1..cf.queue
      BY <1>1, <1>2, <2>1
    <3>2. q[h + x].bits = Finished
      BY <1>9, <3>1 DEF Prior, Written
    <3> QED BY <3>1, <3>2, <2>2 DEF Finished
  <2>3. open = {}
    <3> HIDE DEF open
    <3> QED BY <2>2
  <2> HIDE DEF open
  <2> QED BY <1>3, <2>1, <2>3
<1> QED BY <1>7, <1>8, <1>9 DEF Shape

(* A queue with room: what the driver finds in it, and that it finds room. *)
LEMMA ShapeFound ==
  ASSUME NEW cf \in Config, Sound(cf), NEW q, DOMAIN q = 1..cf.queue,
         NEW h, NEW r, Shape(cf, q, h, r)
  PROVE  /\ FtwGetLastWriteHeader(q) = h
         /\ FtwGetLastWriteRecord(q, h) = r
         /\ ~Full(q)
<1>1. cf.queue \in Nat /\ cf.queue < AllOnes /\ AllOnes \in Nat /\ h \in 1..(cf.queue - 1)
  BY SoundBasics, ShapeBounds
<1>2. WRITES_COMPLETED \notin q[h].bits \/ q[h].body \notin Nat
  BY <1>1, BlankFacts DEF Shape, Vacant, Torn, Open, Written, OpenHeader, Clean
<1>3. FtwGetLastWriteHeader(q) = h
  BY <1>1, <1>2, ShapeBounds, LastWriteHeader
<1>4. WriteTotalSize(1) = 2
  BY <1>1 DEF WriteTotalSize
<1> QED BY <1>1, <1>3, <1>4, LastWriteRecord DEF Full

(* A queue without room is found to be full, and nothing of it is kept. *)
LEMMA SpentFound ==
  ASSUME NEW cf \in Config, Sound(cf), NEW q, DOMAIN q = 1..cf.queue, Spent(cf, q)
  PROVE  /\ Full(q)
         /\ Kept(q) = [i \in 1..cf.queue |-> BlankCell]
<1>1. cf.queue \in Nat /\ 2 <= cf.queue /\ cf.queue < AllOnes /\ AllOnes \in Nat
  BY SoundBasics
<1>2. PICK h \in cf.queue..(cf.queue + 1) : Vacant(cf, q, h, h + 1)
  BY DEF Spent
<1>3. h <= cf.queue => h = cf.queue /\ q[h] = BlankCell
  BY <1>1, <1>2 DEF Vacant, Clean
<1>4. FtwGetLastWriteHeader(q) = IF h <= cf.queue THEN h ELSE 0
  BY <1>1, <1>2, <1>3, BlankFacts, LastWriteHeader DEF Vacant
<1>5. WriteTotalSize(1) = 2
  BY <1>1 DEF WriteTotalSize
<1>6. Full(q)
  BY <1>1, <1>3, <1>4, <1>5 DEF Full
<1>7. Kept(q) = [i \in 1..cf.queue |-> BlankCell]
  BY <1>1, <1>3, <1>4, BlankFacts DEF Kept
<1> QED BY <1>6, <1>7

(* Of a torn header nothing is kept either. *)
LEMMA TornKept ==
  ASSUME NEW cf \in Config, Sound(cf), NEW q, DOMAIN q = 1..cf.queue,
         NEW h, NEW r, Torn(cf, q, h, r)
  PROVE  Kept(q) = [i \in 1..cf.queue |-> BlankCell]
<1>1. cf.queue \in Nat /\ AllOnes \in Nat
  BY SoundBasics
<1>2. FtwGetLastWriteHeader(q) = h
  BY ShapeFound DEF Shape, Torn
<1>3. WriteTotalSize(NumberOfWrites(q[h])) = 0
  BY BlankFacts DEF Torn, WriteTotalSize, NumberOfWrites
<1>4. \A i \in 1..cf.queue : ~ (i <= 0)
  BY <1>1
<1> QED BY <1>2, <1>3, <1>4 DEF Kept

(* An erased queue. *)
LEMMA BlankShape ==
  ASSUME NEW cf \in Config, Sound(cf)
  PROVE  LET q == [i \in 1..cf.queue |-> BlankCell] IN
         /\ Vacant(cf, q, 1, 2) /\ Shape(cf, q, 1, 2)
         /\ DOMAIN q = 1..cf.queue
<1> DEFINE q == [i \in 1..cf.queue |-> BlankCell]
<1>1. cf.queue \in Nat /\ 2 <= cf.queue
  BY SoundBasics
<1>2. Chain(cf, q, 1)
  <2>1. 1 \in Heads(cf) /\ \A g \in Heads(cf) : g \in 1..(cf.queue + 1)
    BY HeadsFacts
  <2>2. \A g \in Heads(cf) : ~ (g < 1)
    BY <1>1, <2>1
  <2> QED BY <2>1, <2>2 DEF Chain
<1>3. Clean(q, 1)
  BY DEF Clean
<1> QED BY <1>1, <1>2, <1>3 DEF Vacant, Shape

LEMMA PutFacts ==
  ASSUME NEW n, NEW q, DOMAIN q = 1..n, NEW i \in 1..n, NEW c
  PROVE  /\ DOMAIN Put(q, i, c) = 1..n /\ Put(q, i, c)[i] = c
         /\ \A j \in 1..n \ {i} : Put(q, i, c)[j] = q[j]
BY DEF Put

(* A change at or behind h leaves the headers before h alone. *)
LEMMA ChainKept ==
  ASSUME NEW cf \in Config, Sound(cf), NEW q, DOMAIN q = 1..cf.queue,
         NEW h, Chain(cf, q, h), NEW i \in 1..cf.queue, h <= i, NEW c
  PROVE  Chain(cf, Put(q, i, c), h)
<1> USE DEF Put
<1>1. cf.queue \in Nat /\ h \in 1..(cf.queue + 1) /\ \A g \in Heads(cf) : g \in 1..(cf.queue + 1)
  BY SoundBasics, HeadsFacts DEF Chain
<1>2. \A g \in Heads(cf) : g < h => g \in 1..cf.queue /\ g # i
  BY <1>1
<1> QED BY <1>2 DEF Chain

(* The header of an allocation is written. *)
LEMMA HeaderWritten ==
  ASSUME NEW cf \in Config, Sound(cf), NEW q, DOMAIN q = 1..cf.queue,
         NEW h, NEW r, Vacant(cf, q, h, r), h < cf.queue,
         NEW c, HEADER_ALLOCATED \in c.bits
  PROVE  LET p == Put(q, h, c) IN
         /\ c.body = Records(cf) /\ WRITES_COMPLETED \notin c.bits =>
              Open(cf, p, h, r, {}) /\ p[r] = BlankCell
         /\ c.body = Mixed => Torn(cf, p, h, r)
<1> USE DEF Put
<1> DEFINE p == [q EXCEPT ![h] = c]
<1>1. /\ cf.queue \in Nat /\ 2 <= cf.queue /\ Records(cf) \in 1..(cf.queue - 1)
      /\ h \in 1..(cf.queue - 1) /\ h + Records(cf) <= cf.queue /\ r = h + 1
      /\ Chain(cf, q, h) /\ Clean(q, h)
  BY SoundBasics, ShapeBounds DEF Vacant, Shape
<1>2. Chain(cf, p, h) /\ DOMAIN p = 1..cf.queue /\ p[h] = c
  <2>1. h \in 1..cf.queue /\ h <= h
    BY <1>1
  <2> QED BY <1>1, <2>1, ChainKept
<1>3. \A j \in 1..cf.queue : j > h => p[j] = BlankCell
  BY <1>1 DEF Clean
<1> HIDE DEF p
<1>4. Clean(p, h + 1) /\ Clean(p, r + 1) /\ p[r] = BlankCell
  BY <1>1, <1>2, <1>3 DEF Clean
<1>5. Prior(p, h, r)
  BY <1>1 DEF Prior
<1>6. ASSUME c.body = Records(cf), WRITES_COMPLETED \notin c.bits
      PROVE  Open(cf, p, h, r, {})
  BY <1>1, <1>2, <1>4, <1>5, <1>6, BlankFacts DEF Open, OpenHeader
<1>7. ASSUME c.body = Mixed PROVE Torn(cf, p, h, r)
  BY <1>1, <1>2, <1>4, <1>7 DEF Torn
<1> QED BY <1>4, <1>6, <1>7 DEF p

(* The records of an open header are in the queue. *)
LEMMA OpenBounds ==
  ASSUME NEW cf \in Config, Sound(cf), NEW q, NEW h, OpenHeader(cf, q, h)
  PROVE  /\ h \in Heads(cf) /\ Chain(cf, q, h) /\ h \in 1..(cf.queue - 1) /\ h \in 1..cf.queue
         /\ h + Records(cf) <= cf.queue
<1>1. cf.queue \in Nat
  BY SoundBasics
<1>2. h \in Heads(cf) /\ Chain(cf, q, h) /\ h < cf.queue
  BY DEF OpenHeader, Chain
<1>3. h \in 1..(cf.queue + 1) /\ h + Records(cf) <= cf.queue
  BY <1>2, HeadsFacts
<1> QED BY <1>1, <1>2, <1>3

(* A header that is already written gets more bits. *)
LEMMA HeaderKept ==
  ASSUME NEW cf \in Config, Sound(cf), NEW q, DOMAIN q = 1..cf.queue,
         NEW h, NEW r, NEW bits, Open(cf, q, h, r, bits),
         NEW c, c.body = q[h].body, HEADER_ALLOCATED \in c.bits, WRITES_COMPLETED \notin c.bits
  PROVE  LET p == Put(q, h, c) IN
         Open(cf, p, h, r, bits) /\ p[r] = q[r]
<1> USE DEF Put
<1> DEFINE p == [q EXCEPT ![h] = c]
<1>1. /\ cf.queue \in Nat /\ Records(cf) \in 1..(cf.queue - 1)
  BY SoundBasics
<1>2. /\ h \in 1..(cf.queue - 1) /\ h + Records(cf) <= cf.queue /\ Chain(cf, q, h)
      /\ r \in (h + 1)..(h + Records(cf))
  BY OpenBounds DEF Open
<1>3. Chain(cf, p, h) /\ DOMAIN p = 1..cf.queue /\ p[h] = c
  <2>1. h \in 1..cf.queue /\ h <= h
    BY <1>1, <1>2
  <2> QED BY <1>2, <2>1, ChainKept
<1>4. \A j \in 1..cf.queue : j > h => p[j] = q[j]
  BY <1>1, <1>2
<1> HIDE DEF p
<1>5. Clean(p, r + 1) /\ p[r] = q[r]
  BY <1>1, <1>2, <1>3, <1>4 DEF Clean, Open
<1>6. Prior(p, h, r)
  BY <1>1, <1>2, <1>4 DEF Prior, Open
<1>7. OpenHeader(cf, p, h)
  BY <1>1, <1>2, <1>3 DEF OpenHeader, Open
<1>8. Open(cf, p, h, r, bits)
  BY <1>1, <1>2, <1>5, <1>6, <1>7 DEF Open
<1> QED BY <1>5, <1>8 DEF p

(* The record r changes. *)
LEMMA RecordChanged ==
  ASSUME NEW cf \in Config, Sound(cf), NEW q, DOMAIN q = 1..cf.queue,
         NEW h, NEW r, NEW bits, Open(cf, q, h, r, bits), NEW c
  PROVE  LET p == Put(q, r, c) IN
         /\ p[h] = q[h] /\ p[r] = c /\ OpenHeader(cf, p, h)
         /\ Prior(p, h, r) /\ Clean(p, r + 1) /\ DOMAIN p = 1..cf.queue
         /\ r \in (h + 1)..(h + Records(cf)) /\ r \in 1..cf.queue /\ h \in 1..(cf.queue - 1)
         /\ h + Records(cf) <= cf.queue
<1> USE DEF Put
<1> DEFINE p == [q EXCEPT ![r] = c]
<1>1. /\ cf.queue \in Nat /\ Records(cf) \in 1..(cf.queue - 1)
  BY SoundBasics
<1>2. /\ h \in 1..(cf.queue - 1) /\ h + Records(cf) <= cf.queue /\ Chain(cf, q, h)
      /\ r \in (h + 1)..(h + Records(cf)) /\ OpenHeader(cf, q, h) /\ Prior(q, h, r)
      /\ Clean(q, r + 1)
  BY OpenBounds DEF Open
<1>3. r \in 1..cf.queue /\ h <= r
  BY <1>1, <1>2
<1>4. Chain(cf, p, h) /\ DOMAIN p = 1..cf.queue /\ p[r] = c
  BY <1>2, <1>3, ChainKept
<1>5. \A j \in 1..cf.queue : j # r => p[j] = q[j]
  OBVIOUS
<1> HIDE DEF p
<1>6. Clean(p, r + 1)
  BY <1>1, <1>2, <1>3, <1>4, <1>5 DEF Clean
<1>7. Prior(p, h, r)
  BY <1>1, <1>2, <1>3, <1>5 DEF Prior
<1>8. p[h] = q[h]
  BY <1>1, <1>2, <1>5
<1>9. OpenHeader(cf, p, h)
  BY <1>2, <1>4, <1>8 DEF OpenHeader
<1> QED BY <1>2, <1>3, <1>4, <1>6, <1>7, <1>8, <1>9 DEF p

(* The record r is written, marked as spared, or marked as finished. *)
LEMMA RecordKept ==
  ASSUME NEW cf \in Config, Sound(cf), NEW q, DOMAIN q = 1..cf.queue,
         NEW h, NEW r, NEW bits, Open(cf, q, h, r, bits),
         NEW c, c.body \in cf.targets
  PROVE  LET p == Put(q, r, c) IN
         Open(cf, p, h, r, c.bits) /\ p[r] = c
<1> USE DEF Put
<1> DEFINE p == [q EXCEPT ![r] = c]
<1>1. /\ p[r] = c /\ OpenHeader(cf, p, h) /\ Prior(p, h, r) /\ Clean(p, r + 1)
      /\ r \in (h + 1)..(h + Records(cf))
  BY RecordChanged
<1> HIDE DEF p
<1>2. Open(cf, p, h, r, c.bits)
  BY <1>1 DEF Open
<1> QED BY <1>1, <1>2 DEF p

LEMMA RecordFinished ==
  ASSUME NEW cf \in Config, Sound(cf), NEW q, DOMAIN q = 1..cf.queue,
         NEW h, NEW r, NEW bits, Open(cf, q, h, r, bits),
         NEW c, c.bits = Finished
  PROVE  LET p == Put(q, r, c) IN
         /\ r = h + Records(cf) => Written(cf, p, h, r)
         /\ r # h + Records(cf) => Open(cf, p, h, r + 1, {}) /\ p[r + 1] = BlankCell
<1> USE DEF Put
<1> DEFINE p == [q EXCEPT ![r] = c]
<1>1. /\ cf.queue \in Nat /\ Records(cf) \in 1..(cf.queue - 1)
  BY SoundBasics
<1>2. /\ p[r] = c /\ OpenHeader(cf, p, h) /\ Prior(p, h, r) /\ Clean(p, r + 1)
      /\ DOMAIN p = 1..cf.queue
      /\ r \in (h + 1)..(h + Records(cf)) /\ r \in 1..cf.queue /\ h \in 1..(cf.queue - 1)
      /\ h + Records(cf) <= cf.queue
  BY RecordChanged
<1> HIDE DEF p
<1>3. Prior(p, h, r + 1)
  BY <1>1, <1>2 DEF Prior
<1>4. ASSUME r = h + Records(cf) PROVE Written(cf, p, h, r)
  BY <1>2, <1>3, <1>4 DEF Written
<1>5. ASSUME r # h + Records(cf) PROVE Open(cf, p, h, r + 1, {}) /\ p[r + 1] = BlankCell
  <2>1. r + 1 \in (h + 1)..(h + Records(cf)) /\ r + 1 \in 1..cf.queue
    BY <1>1, <1>2, <1>5
  <2>2. p[r + 1] = BlankCell /\ Clean(p, r + 1 + 1)
    BY <1>1, <1>2, <2>1 DEF Clean
  <2> QED BY <1>2, <1>3, <2>1, <2>2, BlankFacts DEF Open
<1> QED BY <1>4, <1>5 DEF p

(* The header is marked as complete: the allocation is over. *)
LEMMA HeaderDone ==
  ASSUME NEW cf \in Config, Sound(cf), NEW q, DOMAIN q = 1..cf.queue,
         NEW h, NEW r, NEW bits, Open(cf, q, h, r, bits) \/ Written(cf, q, h, r),
         NEW c, c.body = q[h].body, WRITES_COMPLETED \in c.bits
  PROVE  LET p == Put(q, h, c) IN
         /\ Vacant(cf, p, h + Records(cf) + 1, h + Records(cf) + 2)
         /\ h + Records(cf) + 1 \in 1..(cf.queue + 1)
<1> USE DEF Put
<1> DEFINE p == [q EXCEPT ![h] = c]
           k == h + Records(cf) + 1
<1>1. /\ cf.queue \in Nat /\ Records(cf) \in 1..(cf.queue - 1)
  BY SoundBasics
<1>2. /\ h \in Heads(cf) /\ h < cf.queue /\ Chain(cf, q, h) /\ q[h].body = Records(cf)
      /\ r \in (h + 1)..(h + Records(cf)) /\ Clean(q, r + 1)
  <2>1. /\ h \in Heads(cf) /\ h < cf.queue /\ Chain(cf, q, h) /\ q[h].body = Records(cf)
        /\ Clean(q, r + 1)
    BY DEF Open, Written, OpenHeader, Chain
  <2>2. h \in 1..(cf.queue + 1)
    BY <2>1, HeadsFacts
  <2>3. r \in (h + 1)..(h + Records(cf))
    BY <1>1, <2>2 DEF Open, Written
  <2> QED BY <2>1, <2>3
<1>3. /\ h \in 1..(cf.queue - 1) /\ k \in Heads(cf) /\ k \in 1..(cf.queue + 1)
  BY <1>1, <1>2, HeadsFacts
<1>4. \A j \in 1..cf.queue : j # h => p[j] = q[j]
  OBVIOUS
<1>5. DOMAIN p = 1..cf.queue /\ p[h] = c
  BY <1>1, <1>3
<1> HIDE DEF p
<1>6. ASSUME NEW g \in Heads(cf), g < k
      PROVE  p[g].body = Records(cf) /\ WRITES_COMPLETED \in p[g].bits
  <2>1. g \in 1..cf.queue
    BY <1>1, <1>3, <1>6, HeadsFacts
  <2>2. CASE g < h
    BY <1>2, <1>4, <2>1, <2>2 DEF Chain
  <2>3. CASE g = h
    BY <1>2, <1>5, <2>3
  <2>4. CASE g > h
    <3>1. h + Records(cf) + 1 <= g
      BY <1>2, <2>4, HeadsFacts
    <3> QED BY <3>1, <1>6, <1>1, <1>3, <2>1
  <2> QED BY <2>2, <2>3, <2>4, <2>1, <1>3
<1>7. Chain(cf, p, k)
  BY <1>3, <1>6 DEF Chain
<1>8. Clean(p, k)
  BY <1>1, <1>2, <1>3, <1>4, <1>5 DEF Clean
<1>9. h + Records(cf) + 2 = k + 1
  BY <1>1, <1>3
<1>10. Vacant(cf, p, k, k + 1)
  BY <1>7, <1>8 DEF Vacant
<1> QED BY <1>3, <1>9, <1>10 DEF p

(* A torn header stays one. *)
LEMMA TornStays ==
  ASSUME NEW cf \in Config, Sound(cf), NEW q, DOMAIN q = 1..cf.queue,
         NEW h, NEW r, Torn(cf, q, h, r),
         NEW c, c.body = q[h].body, HEADER_ALLOCATED \in c.bits
  PROVE  Torn(cf, Put(q, h, c), h, r)
<1> USE DEF Put
<1> DEFINE p == [q EXCEPT ![h] = c]
<1>1. cf.queue \in Nat /\ h \in 1..(cf.queue - 1) /\ Chain(cf, q, h)
  BY SoundBasics, ShapeBounds DEF Shape, Torn
<1>2. Chain(cf, p, h) /\ DOMAIN p = 1..cf.queue /\ p[h] = c
  <2>1. h \in 1..cf.queue /\ h <= h
    BY <1>1
  <2> QED BY <1>1, <2>1, ChainKept
<1>3. Clean(p, h + 1)
  BY <1>1 DEF Torn, Clean
<1> HIDE DEF p
<1> QED BY <1>2, <1>3 DEF Torn, p

-----------------------------------------------------------------------------
(* Flash: target t, working block w, spare block s of platform cf            *)
-----------------------------------------------------------------------------

Erasure(cf) == [i \in 1..cf.queue |-> BlankCell]

Holds(image, b) == \E v \in Version : image = <<b, v>>
Home(t, w, b) == IF b = WorkBlk THEN w.data ELSE t[b]
Others(t, w, a) == \A b \in Block \ {a} : Holds(Home(t, w, b), b)
Homes(t, w) == \A b \in Block : Holds(Home(t, w, b), b)

(* The spare block has a copy of the work space in which r was written, a record
   for the working block. *)
Copy(ws, copy, r) ==
  /\ IsValidWorkSpace(copy)
  /\ \A i \in DOMAIN ws.q \ {r} : copy.q[i] = ws.q[i]
  /\ copy.q[r].body = ws.q[r].body /\ copy.q[r].bits \in {{}, Spared}

(* A write whose data is complete in the spare block; its target may be damaged. *)
Pend(cf, t, w, s, h, r) ==
  /\ Open(cf, w.ws.q, h, r, Spared)
  /\ Holds(s.data, w.ws.q[r].body)
  /\ Others(t, w, w.ws.q[r].body)
  /\ w.ws.q[r].body = WorkBlk => Copy(w.ws, s.ws, r)

(* A record nobody has tried to write, or one that will be tried again with the
   same target. *)
Tidy(cf, q, r) == Single(cf) \/ q[r] = BlankCell

(* The work space is valid, and flash is in one of the states named by S, with
   the last header h and record r. *)
Is(cf, t, w, s, h, r, S) ==
  /\ IsValidWorkSpace(w.ws)
  /\ \/ "vacant" \in S /\ Homes(t, w) /\ Vacant(cf, w.ws.q, h, r)
     \/ "torn" \in S /\ Homes(t, w) /\ Torn(cf, w.ws.q, h, r)
     \/ "open" \in S /\ Homes(t, w) /\ Open(cf, w.ws.q, h, r, {})
     \/ "tidy" \in S /\ Homes(t, w) /\ Open(cf, w.ws.q, h, r, {}) /\ Tidy(cf, w.ws.q, r)
     \/ "written" \in S /\ Homes(t, w) /\ Written(cf, w.ws.q, h, r)
     \/ "pending" \in S /\ Pend(cf, t, w, s, h, r)

Some(cf, t, w, s, S) ==
  \E h \in 1..(cf.queue + 1), r \in 2..(cf.queue + 2) : Is(cf, t, w, s, h, r, S)

Settled == {"vacant", "tidy"}
Serving(f) == IF f > 0 THEN {"vacant", "tidy", "written", "pending"} ELSE {"vacant", "tidy"}
Every == {"vacant", "torn", "open", "written", "pending"}

(* The queue has no room; the work space may be marked invalid. *)
Stuffed(cf, t, w) == w.ws.sig /\ Homes(t, w) /\ Spent(cf, w.ws.q)

(* The spare block has the next working block. *)
Backup(cf, s, h, r) == Open(cf, s.ws.q, h, r, Spared) /\ s.ws.q[r].body = WorkBlk
SpareGood(cf, t, w, s) ==
  /\ IsValidWorkSpace(s.ws)
  /\ Holds(s.data, WorkBlk) /\ Others(t, w, WorkBlk)
  /\ \/ s.ws.q = Erasure(cf)
     \/ \E h, r \in 1..cf.queue : Backup(cf, s, h, r)

FromSpare(cf, t, w, s) ==
  ~IsValidWorkSpace(w.ws) /\ Roomy(cf, w.ws.q) /\ SpareGood(cf, t, w, s)
Stale(cf, t, w) == ~IsValidWorkSpace(w.ws) /\ Stuffed(cf, t, w)
Unused(cf, w) ==
  ~w.ws.sig /\ ~w.ws.valid /\ ~w.ws.invalid /\ w.ws.q = Erasure(cf)
Never(cf, t, w, s) == Unused(cf, w) /\ ~IsValidWorkSpace(s.ws) /\ Homes(t, w)

(* What is on flash whenever power is lost. *)
Durable(cf, t, w, s) ==
  \/ Some(cf, t, w, s, Every)
  \/ FromSpare(cf, t, w, s)
  \/ Stale(cf, t, w)
  \/ Never(cf, t, w, s)

-----------------------------------------------------------------------------
(* Memory                                                                    *)
-----------------------------------------------------------------------------

Flash(S) == Some(config, target, work, spare, S)
FlashAt(h, r, S) == Is(config, target, work, spare, h, r, S)

(* The last header and record in memory are the ones on flash. *)
Loaded(S) == d.ws = work.ws /\ d.h < QueueSize /\ FlashAt(d.h, d.r, S)

(* The header in memory was completed after it was read. *)
Aborted ==
  /\ d.ws = work.ws
  /\ d.h < QueueSize /\ d.h + Records(config) <= QueueSize
  /\ work.ws.q[d.h].body = Records(config)
  /\ {HEADER_ALLOCATED, WRITES_COMPLETED} \subseteq work.ws.q[d.h].bits
  /\ FlashAt(d.h + Records(config) + 1, d.h + Records(config) + 2, {"vacant"})

(* The queue p in memory is q but for WRITES_ALLOCATED of the last header h. *)
Near(p, q, h) ==
  /\ \A i \in DOMAIN q \ {h} : p[i] = q[i]
  /\ p[h].body = q[h].body
  /\ WRITES_COMPLETED \in p[h].bits <=> WRITES_COMPLETED \in q[h].bits

(* The header and the record FtwWrite goes on with are those of its allocation. *)
Nested == stk = <<"w_check">> => d.hd = d.h /\ d.rc = d.r /\ Records(config) = 1

Fresh(ws) == ws.sig /\ ~ws.invalid /\ ws.q = Erasure(config)

(* The work space a reclaim starts from. *)
Old ==
  IF stk = <<"i_restart">> THEN Flash({"torn"})
  ELSE IF stk = <<"i_first">> THEN Unused(config, work) /\ Homes(target, work)
  ELSE /\ Stuffed(config, target, work)
       /\ IsValidWorkSpace(work.ws) \/ stk = <<"reread", "i_valid">>

(* What a reclaim has in memory. *)
Emptied == d.ws.sig /\ d.ws.q = Erasure(config) /\ d.h = 1 /\ d.r = 2
Buffered ==
  /\ Emptied
  /\ d.buf.data = work.data /\ Fresh(d.buf.ws) /\ ~d.buf.ws.valid

Flat(area, from) ==
  /\ area.data = from.data /\ area.ws.q = from.ws.q
  /\ area.ws.sig /\ ~area.ws.valid /\ ~area.ws.invalid

(* The callers of the flush of the working block: a reclaim, a record for the
   working block, and otherwise recovery. *)
FlushesReclaim == stk # <<>> /\ Head(stk) = "rc_clear"
FlushesRecord == stk # <<>> /\ Head(stk) = "t_dest"
FlushSource ==
  /\ SpareGood(config, target, work, spare)
  /\ FlushesReclaim => Emptied /\ spare.ws.q = Erasure(config)
  /\ FlushesRecord => Backup(config, spare, d.h, d.r) /\ Near(d.ws.q, spare.ws.q, d.h)

-----------------------------------------------------------------------------
(* What holds at each point of the driver                                    *)
-----------------------------------------------------------------------------

(* The working block was just taken from the spare block. *)
Flushed ==
  \/ Is(config, target, work, spare, 1, 2, {"vacant"})
  \/ \E h, r \in Cells :
       /\ Is(config, target, work, spare, h, r, {"pending"})
       /\ work.ws.q[r].body = WorkBlk /\ work.data = spare.data

Refreshing ==
  /\ stk = <<"i_valid">> => Durable(config, target, work, spare)
  /\ stk = <<"i_first">> => Flash(Every)
  /\ stk = <<"b_check", "refresh", "i_first">> => Flushed
  /\ stk = <<"b_check", "i_last">> => Flash({"torn", "open"})
  /\ stk = <<"b_check", "i_tail">> => Flash({"written"})
  /\ stk = <<"s_check", "i_abort">> => Flash({"pending"})
  /\ stk \in {<<"b_check", "i_done">>, <<"b_check">>} => Flash(Settled)
  /\ stk \in {<<"a_check">>, <<"w_start">>, <<"s_check">>, <<"l_check">>} => Flash(Serving(fails))
  /\ stk = <<"b_check", "l_abort">> => Flash(Serving(fails) \cap {"tidy", "written"})
  /\ stk = <<"a_check", "w_check">> =>
       d.hd < QueueSize /\ FlashAt(d.hd, d.rc, {"vacant"}) /\ Records(config) = 1

Reclaiming ==
  /\ pc \in {"reclaim", "reclaim_fresh", "rc_erase", "rc_copy", "rc_valid", "rc_invalid"} => Old
  /\ pc = "reclaim" => d.ws = work.ws
  /\ pc = "reclaim_fresh" => d.ws.sig
  /\ pc \in {"rc_erase", "rc_copy", "rc_valid", "rc_invalid"} => Buffered
  /\ pc \in {"reclaim_fresh", "rc_erase", "rc_copy"} /\ stk = <<"i_first">> =>
       ~IsValidWorkSpace(spare.ws)
  /\ pc = "rc_valid" => spare = d.buf
  /\ pc = "rc_invalid" => spare.data = work.data /\ Fresh(spare.ws) /\ spare.ws.valid
  /\ pc \in {"rc_clear", "rc_restore"} => d.h = 1 /\ d.r = 2 /\ Loaded({"vacant"})
  /\ pc = "reread" => FlashAt(1, 2, {"vacant"})

Flushing ==
  /\ pc \in {"f_spare", "f_invalid", "f_erase", "f_copy", "f_valid"} => FlushSource
  /\ pc \in {"f_spare", "f_invalid"} =>
       IF FlushesRecord
       THEN FlashAt(d.h, d.r, {"pending"}) /\ Near(d.ws.q, work.ws.q, d.h)
       ELSE /\ ~IsValidWorkSpace(work.ws)
            /\ \/ Stuffed(config, target, work) /\ work.data = spare.data
               \/ Roomy(config, work.ws.q)
  /\ pc = "f_erase" =>
       /\ ~IsValidWorkSpace(work.ws)
       /\ \/ Stuffed(config, target, work) /\ work.data = spare.data
          \/ Roomy(config, work.ws.q)
  /\ pc \in {"f_erase", "f_copy", "f_valid"} => Flat(d.buf, spare)
  /\ pc = "f_copy" => work = Erased
  /\ pc = "f_valid" => work = d.buf

Allocating ==
  /\ pc = "a_check" => Loaded(IF stk = <<>> THEN Serving(fails) ELSE {"vacant"}) /\ Nested
  /\ pc \in {"a_header", "a_writes"} => d.off = d.h /\ Number = Records(config) /\ Nested
  /\ pc = "a_header" => Loaded({"vacant"})
  /\ pc = "a_writes" =>
       /\ Loaded({"tidy"}) /\ d.r = d.h + 1 /\ work.ws.q[d.r] = BlankCell
       /\ work.ws.q[d.h] = [bits |-> {HEADER_ALLOCATED}, body |-> Number]

Writing ==
  /\ pc = "w_start" => Loaded(Serving(fails))
  /\ pc = "w_check" =>
       /\ status = "SUCCESS" /\ d.hd = d.h /\ d.rc = d.r
       /\ Near(d.ws.q, work.ws.q, d.h) /\ FlashAt(d.h, d.r, Serving(fails) \ {"vacant"})
  /\ pc \in {"w_erase", "w_copy", "w_spare"} =>
       /\ d.rc = d.r /\ Near(d.ws.q, work.ws.q, d.h) /\ FlashAt(d.h, d.r, {"open"})
       /\ work.ws.q[d.r].body = op.b
       /\ d.buf.data = <<op.b, op.v>>
       /\ op.b = WorkBlk => d.buf.ws = work.ws
  /\ pc = "w_spare" => spare = d.buf
  /\ pc \in {"t_start", "t_copy", "t_dest"} =>
       FlashAt(d.h, d.r, {"pending"}) /\ Near(d.ws.q, work.ws.q, d.h)
  /\ pc = "t_copy" => Record.body # WorkBlk /\ d.buf.data = spare.data
  /\ pc = "t_dest" => Home(target, work, Record.body) = spare.data
  /\ pc = "t_done" => Near(d.ws.q, work.ws.q, d.h) /\ FlashAt(d.h, d.r, {"written"})
  /\ pc \in {"w_clear", "w_restore", "s_clear"} => Flash(Settled)

Restarting ==
  /\ pc = "s_check" => Loaded(IF stk = <<>> THEN Serving(fails) ELSE {"pending"})
  /\ pc = "b_check" =>
       /\ stk \in {<<>>, <<"i_done">>} => Loaded(Settled)
       /\ stk = <<"l_abort">> => Loaded(Serving(fails) \cap {"tidy", "written"})
       /\ stk = <<"i_last">> => Loaded({"torn", "open"})
       /\ stk = <<"i_tail">> => Loaded({"written"})
       /\ stk = <<"refresh", "i_first">> =>
            \/ Loaded({"vacant"})
            \/ Loaded({"pending"}) /\ Record.body = WorkBlk /\ work.data = spare.data
  /\ pc = "l_check" => Loaded(Serving(fails))
  /\ pc = "l_abort" => Flash(Settled)

Starting ==
  /\ pc = "off" => Durable(config, target, work, spare)
  /\ pc = "i_valid" =>
       /\ d.ws = work.ws
       /\ \/ Loaded(Every)
          \/ FromSpare(config, target, work, spare)
          \/ Never(config, target, work, spare)
  /\ pc = "i_first" => Loaded(Every)
  /\ pc = "i_last" => Loaded({"vacant", "torn", "tidy", "written", "pending"}) \/ Aborted
  /\ pc = "i_tail" => Loaded({"vacant", "torn", "tidy", "pending"}) \/ Aborted
  /\ pc = "i_restart" => Loaded({"vacant", "tidy", "pending"}) \/ Aborted
  /\ pc = "i_abort" => status = "SUCCESS"
  /\ pc \in {"i_abort", "i_done"} => Flash(Settled)
  /\ pc = "idle" => Flash(Serving(fails))

Answered ==
  pc = "idle" =>
    /\ op.f = "write" /\ ~op.priv /\ fails = 0 => status = "SUCCESS"
    /\ op.f = "write" /\ status = "SUCCESS" => applied
    /\ op.f = "allocate" /\ status = "SUCCESS" =>
         \E h \in Cells :
            /\ h < QueueSize /\ FlashAt(h, h + 1, {"tidy"})
            /\ work.ws.q[h] = [bits |-> {HEADER_ALLOCATED, WRITES_ALLOCATED}, body |-> op.n]

-----------------------------------------------------------------------------
(* Control: the stacks s of each service f at each group of labels           *)
-----------------------------------------------------------------------------

(* At a refresh that may find the queue full. *)
FullStk(f, s) ==
  \/ f = "init" /\ s \in {<<"i_valid">>, <<"i_first">>, <<"b_check", "i_done">>}
  \/ f = "allocate" /\ s = <<"a_check">>
  \/ f = "write" /\ s = <<"w_start">>
  \/ f = "restart" /\ s = <<"s_check">>
  \/ f = "abort" /\ s = <<"b_check">>
  \/ f = "last" /\ s = <<"l_check">>

(* At a refresh that does not. *)
RoomStk(f, s) ==
  \/ f = "init" /\ s \in {<<"b_check", "refresh", "i_first">>, <<"b_check", "i_last">>,
                          <<"b_check", "i_tail">>, <<"s_check", "i_abort">>}
  \/ f = "write" /\ s = <<"a_check", "w_check">>
  \/ f = "last" /\ s = <<"b_check", "l_abort">>

ReclaimStk(f, s) ==
  \/ f = "init" /\ s \in {<<"reread", "i_valid">>, <<"reread", "i_first">>,
                          <<"reread", "b_check", "i_done">>, <<"i_first">>, <<"i_restart">>}
  \/ f = "allocate" /\ s = <<"reread", "a_check">>
  \/ f = "write" /\ s = <<"reread", "w_start">>
  \/ f = "restart" /\ s = <<"reread", "s_check">>
  \/ f = "abort" /\ s = <<"reread", "b_check">>
  \/ f = "last" /\ s = <<"reread", "l_check">>

RecordStk(f, s) ==
  \/ f = "init" /\ s = <<"s_clear", "i_abort">>
  \/ f = "write" /\ s = <<"w_clear">>
  \/ f = "restart" /\ s = <<"s_clear">>

FlushStk(f, s) ==
  \/ s # <<>> /\ Head(s) = "rc_clear" /\ ReclaimStk(f, Tail(s)) /\ s = <<"rc_clear">> \o Tail(s)
  \/ s # <<>> /\ Head(s) = "t_dest" /\ RecordStk(f, Tail(s)) /\ s = <<"t_dest">> \o Tail(s)
  \/ f = "init" /\ s = <<"refresh", "b_check", "refresh", "i_first">>

Position(p, s, f) ==
  \/ p = "off" /\ s = <<>> /\ f = "init"
  \/ p = "idle" /\ s = <<>>
  \/ p = "refresh" /\ (FullStk(f, s) \/ RoomStk(f, s))
  \/ p = "reread" /\ FullStk(f, s)
  \/ p = "reclaim" /\ ReclaimStk(f, s) /\ s # <<"i_first">>
  \/ p = "reclaim_fresh" /\ s = <<"i_first">> /\ f = "init"
  \/ p \in {"rc_erase", "rc_copy", "rc_valid", "rc_invalid", "rc_clear", "rc_restore"}
     /\ ReclaimStk(f, s)
  \/ p \in {"f_spare", "f_invalid", "f_erase", "f_copy", "f_valid"} /\ FlushStk(f, s)
  \/ p \in {"t_start", "t_copy", "t_dest", "t_done"} /\ RecordStk(f, s)
  \/ /\ p \in {"a_check", "a_header", "a_writes"}
     /\ (f = "allocate" /\ s = <<>>) \/ (f = "write" /\ s = <<"w_check">>)
  \/ p \in {"w_start", "w_check", "w_erase", "w_copy", "w_spare", "w_clear", "w_restore"}
     /\ f = "write" /\ s = <<>>
  \/ /\ p \in {"s_check", "s_clear"}
     /\ (f = "restart" /\ s = <<>>) \/ (f = "init" /\ s = <<"i_abort">>)
  \/ p = "b_check" /\ f = "abort" /\ s = <<>>
  \/ p = "b_check" /\ f = "last" /\ s = <<"l_abort">>
  \/ p = "b_check" /\ f = "init"
     /\ s \in {<<"refresh", "i_first">>, <<"i_last">>, <<"i_tail">>, <<"i_done">>}
  \/ p \in {"l_check", "l_abort"} /\ f = "last" /\ s = <<>>
  \/ p \in {"i_valid", "i_first", "i_last", "i_tail", "i_restart", "i_abort", "i_done"}
     /\ f = "init" /\ s = <<>>

(* The service call under way, or the last one. *)
Called ==
  \/ op = [f |-> "init"]
  \/ \E n \in config.writes : op = [f |-> "allocate", n |-> n]
  \/ \E b \in config.targets, v \in Version, p \in config.private :
       op = [f |-> "write", b |-> b, v |-> v, priv |-> p]
  \/ op = [f |-> "restart"]
  \/ op = [f |-> "last"]
  \/ op = [f |-> "abort"] /\ "abort" \in config.services

(* The write under way has its data complete in the spare block. *)
Late ==
  \/ pc \in {"t_start", "t_copy", "t_dest", "t_done", "w_clear", "w_restore"}
  \/ stk # <<>> /\ Head(stk) = "t_dest"
Progress == op.f = "write" /\ pc # "idle" => (applied <=> Late)

FInv ==
  /\ half = FALSE
  /\ Position(pc, stk, op.f) /\ Called /\ Progress
  /\ pc = "refresh" => Refreshing
  /\ Reclaiming /\ Flushing /\ Allocating /\ Writing /\ Restarting /\ Starting /\ Answered

-----------------------------------------------------------------------------
(* States of flash                                                           *)
-----------------------------------------------------------------------------

LEMMA IsBounds ==
  ASSUME NEW cf \in Config, Sound(cf), NEW t, NEW w, NEW s, NEW h, NEW r, NEW S,
         Is(cf, t, w, s, h, r, S)
  PROVE  /\ h \in 1..(cf.queue + 1) /\ r \in 2..(cf.queue + 2)
         /\ h < cf.queue => Shape(cf, w.ws.q, h, r)
         /\ h >= cf.queue => "vacant" \in S /\ Homes(t, w) /\ Spent(cf, w.ws.q)
         /\ IsValidWorkSpace(w.ws)
<1>1. cf.queue \in Nat /\ Records(cf) \in 1..(cf.queue - 1)
  BY SoundBasics
<1>2. CASE "vacant" \in S /\ Homes(t, w) /\ Vacant(cf, w.ws.q, h, r)
  <2>1. h \in 1..(cf.queue + 1) /\ r = h + 1
    BY <1>2, HeadsFacts DEF Vacant, Chain
  <2>2. h >= cf.queue => Spent(cf, w.ws.q)
    BY <1>1, <1>2, <2>1 DEF Spent
  <2> QED BY <1>1, <1>2, <2>1, <2>2 DEF Shape, Is
<1>3. CASE h < cf.queue /\ Shape(cf, w.ws.q, h, r)
  <2>1. h \in 1..(cf.queue - 1) /\ r \in 2..cf.queue
    BY <1>3, ShapeBounds
  <2> QED BY <1>1, <1>3, <2>1 DEF Is
<1> QED BY <1>2, <1>3 DEF Is, Pend, Shape, Torn, Open, Written, OpenHeader

LEMMA IsSome ==
  ASSUME NEW cf \in Config, Sound(cf), NEW t, NEW w, NEW s, NEW h, NEW r, NEW S,
         Is(cf, t, w, s, h, r, S)
  PROVE  Some(cf, t, w, s, S)
BY IsBounds DEF Some

(* A larger set of states says less; "tidy" is the better part of "open". *)
LEMMA IsMore ==
  ASSUME NEW cf, NEW t, NEW w, NEW s, NEW h, NEW r, NEW S, NEW T,
         \A x \in S : x \in T \/ (x = "tidy" /\ "open" \in T) \/ (x = "open" /\ "tidy" \in T /\ Single(cf)),
         Is(cf, t, w, s, h, r, S)
  PROVE  Is(cf, t, w, s, h, r, T)
BY DEF Is, Tidy

LEMMA SomeMore ==
  ASSUME NEW cf, NEW t, NEW w, NEW s, NEW S, NEW T,
         \A x \in S : x \in T \/ (x = "tidy" /\ "open" \in T) \/ (x = "open" /\ "tidy" \in T /\ Single(cf)),
         Some(cf, t, w, s, S)
  PROVE  Some(cf, t, w, s, T)
<1>1. PICK h \in 1..(cf.queue + 1), r \in 2..(cf.queue + 2) : Is(cf, t, w, s, h, r, S)
  BY DEF Some
<1>2. Is(cf, t, w, s, h, r, T)
  BY <1>1, IsMore
<1> QED BY <1>2 DEF Some

(* The spare block matters only while a write is pending. *)
LEMMA IsSpare ==
  ASSUME NEW cf, NEW t, NEW w, NEW s, NEW z, NEW h, NEW r, NEW S, "pending" \notin S,
         Is(cf, t, w, s, h, r, S)
  PROVE  Is(cf, t, w, z, h, r, S)
BY DEF Is

LEMMA SomeSpare ==
  ASSUME NEW cf, NEW t, NEW w, NEW s, NEW z, NEW S, "pending" \notin S, Some(cf, t, w, s, S)
  PROVE  Some(cf, t, w, z, S)
BY IsSpare DEF Some

(* The content of the working block is all that its change of state matters to. *)
LEMMA HomesData ==
  ASSUME NEW t, NEW w, NEW x, x.data = w.data
  PROVE  /\ Homes(t, x) <=> Homes(t, w)
         /\ \A a : Others(t, x, a) <=> Others(t, w, a)
BY DEF Homes, Others, Home

LEMMA HomesOthers ==
  ASSUME NEW t, NEW w, NEW a \in Block
  PROVE  Homes(t, w) <=> Others(t, w, a) /\ Holds(Home(t, w, a), a)
BY DEF Homes, Others

(* Only the working block is being written. *)
LEMMA OthersWork ==
  ASSUME NEW t, NEW w, NEW x
  PROVE  Others(t, x, WorkBlk) <=> Others(t, w, WorkBlk)
BY DEF Others, Home

LEMMA ShapeRoomy ==
  ASSUME NEW cf \in Config, Sound(cf), NEW q, NEW h, NEW r, Shape(cf, q, h, r)
  PROVE  Roomy(cf, q)
<1>1. cf.queue \in Nat /\ h \in 1..(cf.queue - 1) /\ r \in 2..cf.queue
  BY SoundBasics, ShapeBounds
<1>2. h \in 1..cf.queue /\ r \in 1..cf.queue
  BY <1>1
<1> QED BY <1>2 DEF Roomy

LEMMA RoomyNotFull ==
  ASSUME NEW cf \in Config, Sound(cf), NEW q, DOMAIN q = 1..cf.queue, Roomy(cf, q)
  PROVE  ~Full(q)
BY ShapeFound DEF Roomy

(* A state whose queue has room has its header in the queue. *)
LEMMA IsRoomy ==
  ASSUME NEW cf \in Config, Sound(cf), NEW t, NEW w, DOMAIN w.ws.q = 1..cf.queue,
         NEW s, NEW h, NEW r, NEW S, Is(cf, t, w, s, h, r, S), ~Full(w.ws.q)
  PROVE  h < cf.queue /\ Shape(cf, w.ws.q, h, r)
<1>1. cf.queue \in Nat /\ h \in 1..(cf.queue + 1)
  BY SoundBasics, IsBounds
<1>2. ~ (h >= cf.queue)
  BY IsBounds, SpentFound
<1>3. h < cf.queue
  BY <1>1, <1>2
<1> QED BY <1>3, IsBounds

-----------------------------------------------------------------------------
(* Stacks                                                                    *)
-----------------------------------------------------------------------------

LEMMA StackTop ==
  /\ \A a : Head(<<a>>) = a /\ Tail(<<a>>) = <<>> /\ <<a>> # <<>>
  /\ \A a, b : Head(<<a, b>>) = a /\ Tail(<<a, b>>) = <<b>> /\ <<a, b>> # <<>>
  /\ \A a, b, c :
       Head(<<a, b, c>>) = a /\ Tail(<<a, b, c>>) = <<b, c>> /\ <<a, b, c>> # <<>>
  /\ \A a, b, c, e :
       Head(<<a, b, c, e>>) = a /\ Tail(<<a, b, c, e>>) = <<b, c, e>> /\ <<a, b, c, e>> # <<>>
OBVIOUS

LEMMA StackPush ==
  /\ \A a : <<a>> \o <<>> = <<a>>
  /\ \A a, b : <<a>> \o <<b>> = <<a, b>> /\ <<a, b>> \o <<>> = <<a, b>>
  /\ \A a, b, c : <<a>> \o <<b, c>> = <<a, b, c>> /\ <<a, b, c>> \o <<>> = <<a, b, c>>
  /\ \A a, b, c, e :
       <<a>> \o <<b, c, e>> = <<a, b, c, e>> /\ <<a, b, c, e>> \o <<>> = <<a, b, c, e>>
<1>1. ASSUME NEW a, NEW b PROVE <<a>> \o <<b>> = <<a, b>>
  <2> DEFINE S == {a, b}
             x == <<a>> \o <<b>>
  <2>1. <<a>> \in Seq(S) /\ <<b>> \in Seq(S) /\ <<a, b>> \in Seq(S)
    OBVIOUS
  <2>2. Len(<<a>>) = 1 /\ Len(<<b>>) = 1 /\ Len(<<a, b>>) = 2
    OBVIOUS
  <2>3. x \in Seq(S) /\ Len(x) = 2
        /\ \A i \in 1..2 : x[i] = IF i <= 1 THEN <<a>>[i] ELSE <<b>>[i - 1]
    BY <2>1, <2>2, ConcatProperties
  <2> HIDE DEF x
  <2>4. \A i \in 1..Len(x) : x[i] = <<a, b>>[i]
    BY <2>3
  <2>5. x = <<a, b>>
    BY <2>1, <2>2, <2>3, <2>4, SeqEqual
  <2> QED BY <2>5 DEF x
<1>2. ASSUME NEW a, NEW b, NEW c PROVE <<a>> \o <<b, c>> = <<a, b, c>>
  <2> DEFINE S == {a, b, c}
             x == <<a>> \o <<b, c>>
  <2>1. <<a>> \in Seq(S) /\ <<b, c>> \in Seq(S) /\ <<a, b, c>> \in Seq(S)
    OBVIOUS
  <2>2. Len(<<a>>) = 1 /\ Len(<<b, c>>) = 2 /\ Len(<<a, b, c>>) = 3
    OBVIOUS
  <2>3. x \in Seq(S) /\ Len(x) = 3
        /\ \A i \in 1..3 : x[i] = IF i <= 1 THEN <<a>>[i] ELSE <<b, c>>[i - 1]
    BY <2>1, <2>2, ConcatProperties
  <2> HIDE DEF x
  <2>4. \A i \in 1..Len(x) : x[i] = <<a, b, c>>[i]
    BY <2>3
  <2>5. x = <<a, b, c>>
    BY <2>1, <2>2, <2>3, <2>4, SeqEqual
  <2> QED BY <2>5 DEF x
<1>3. ASSUME NEW a, NEW b, NEW c, NEW e PROVE <<a>> \o <<b, c, e>> = <<a, b, c, e>>
  <2> DEFINE S == {a, b, c, e}
             x == <<a>> \o <<b, c, e>>
  <2>1. <<a>> \in Seq(S) /\ <<b, c, e>> \in Seq(S) /\ <<a, b, c, e>> \in Seq(S)
    OBVIOUS
  <2>2. Len(<<a>>) = 1 /\ Len(<<b, c, e>>) = 3 /\ Len(<<a, b, c, e>>) = 4
    OBVIOUS
  <2>3. x \in Seq(S) /\ Len(x) = 4
        /\ \A i \in 1..4 : x[i] = IF i <= 1 THEN <<a>>[i] ELSE <<b, c, e>>[i - 1]
    BY <2>1, <2>2, ConcatProperties
  <2> HIDE DEF x
  <2>4. \A i \in 1..Len(x) : x[i] = <<a, b, c, e>>[i]
    BY <2>3
  <2>5. x = <<a, b, c, e>>
    BY <2>1, <2>2, <2>3, <2>4, SeqEqual
  <2> QED BY <2>5 DEF x
<1>4. \A a : <<a>> \o <<>> = <<a>>
  OBVIOUS
<1>5. \A a, b : <<a, b>> \o <<>> = <<a, b>>
  OBVIOUS
<1>6. \A a, b, c : <<a, b, c>> \o <<>> = <<a, b, c>>
  OBVIOUS
<1>7. \A a, b, c, e : <<a, b, c, e>> \o <<>> = <<a, b, c, e>>
  OBVIOUS
<1> QED BY <1>1, <1>2, <1>3, <1>4, <1>5, <1>6, <1>7

-----------------------------------------------------------------------------
(* Types                                                                     *)
-----------------------------------------------------------------------------

CellOf(n) == [bits : SUBSET {1, 2, 4}, body : {Blank, Mixed} \cup (1..n) \cup Block]
SpaceOf(n) == [sig : BOOLEAN, valid : BOOLEAN, invalid : BOOLEAN, q : [1..n -> CellOf(n)]]
AreaOf(n) == [data : Image, ws : SpaceOf(n)]
MemoryOf(n) ==
  [ws : SpaceOf(n), h : 1..n, r : 1..n, off : 0..n, hd : 1..n, rc : 1..n,
   buf : AreaOf(n), sbuf : AreaOf(n)]

Marked(c, bit) == [bits |-> c.bits \cup {bit}, body |-> c.body]

(* The two work spaces differ in their queues only. *)
SameHeader(x, y) == x.sig = y.sig /\ x.valid = y.valid /\ x.invalid = y.invalid

LEMMA TypeParts ==
  /\ TypeOK <=>
       /\ config \in Configs
       /\ target \in [Block \ {WorkBlk} -> Image]
       /\ work \in AreaOf(config.queue) /\ spare \in AreaOf(config.queue)
       /\ half \in BOOLEAN /\ applied \in BOOLEAN
       /\ d \in MemoryOf(config.queue)
       /\ calls \in 0..config.calls /\ crashes \in 0..config.crashes
       /\ fails \in 0..config.fails
  /\ TypeOK' <=>
       /\ config' \in Configs
       /\ target' \in [Block \ {WorkBlk} -> Image]
       /\ work' \in AreaOf(config'.queue) /\ spare' \in AreaOf(config'.queue)
       /\ half' \in BOOLEAN /\ applied' \in BOOLEAN
       /\ d' \in MemoryOf(config'.queue)
       /\ calls' \in 0..config'.calls /\ crashes' \in 0..config'.crashes
       /\ fails' \in 0..config'.fails
BY Zenon DEF TypeOK, AreaOf, SpaceOf, CellOf, MemoryOf, Area, Space, Cell, Cells, QueueSize

LEMMA SpaceFields ==
  ASSUME NEW n, NEW ws \in SpaceOf(n)
  PROVE  /\ ws.sig \in BOOLEAN /\ ws.valid \in BOOLEAN /\ ws.invalid \in BOOLEAN
         /\ ws.q \in [1..n -> CellOf(n)] /\ DOMAIN ws.q = 1..n
         /\ \A i \in 1..n : ws.q[i] \in CellOf(n)
BY DEF SpaceOf

LEMMA AreaFields ==
  ASSUME NEW n, NEW w \in AreaOf(n)
  PROVE  /\ w.data \in Image /\ w.ws \in SpaceOf(n) /\ DOMAIN w.ws.q = 1..n
         /\ \A i \in 1..n : w.ws.q[i] \in CellOf(n)
BY SpaceFields DEF AreaOf

LEMMA MemoryFields ==
  ASSUME NEW n, NEW m \in MemoryOf(n)
  PROVE  /\ m.ws \in SpaceOf(n) /\ m.h \in 1..n /\ m.r \in 1..n /\ m.off \in 0..n
         /\ m.hd \in 1..n /\ m.rc \in 1..n /\ m.buf \in AreaOf(n) /\ m.sbuf \in AreaOf(n)
         /\ DOMAIN m.ws.q = 1..n /\ \A i \in 1..n : m.ws.q[i] \in CellOf(n)
BY SpaceFields DEF MemoryOf

LEMMA SpaceEqual ==
  ASSUME NEW n, NEW x \in SpaceOf(n), NEW y \in SpaceOf(n), SameHeader(x, y), x.q = y.q
  PROVE  x = y
BY DEF SpaceOf, SameHeader

LEMMA AreaEqual ==
  ASSUME NEW n, NEW x \in AreaOf(n), NEW y \in AreaOf(n), x.data = y.data, x.ws = y.ws
  PROVE  x = y
BY DEF AreaOf

LEMMA MarkedFields ==
  ASSUME NEW c, NEW bit
  PROVE  Marked(c, bit).bits = c.bits \cup {bit} /\ Marked(c, bit).body = c.body
BY DEF Marked

LEMMA MarkedCell ==
  ASSUME NEW n, NEW c \in CellOf(n), NEW bit \in {1, 2, 4}
  PROVE  /\ Marked(c, bit) \in CellOf(n)
         /\ Marked(c, bit).bits = c.bits \cup {bit} /\ Marked(c, bit).body = c.body
         /\ [c EXCEPT !.bits = @ \cup {bit}] = Marked(c, bit)
BY DEF CellOf, Marked

LEMMA SetCell ==
  ASSUME NEW n, NEW ws \in SpaceOf(n), NEW i \in 1..n, NEW c \in CellOf(n)
  PROVE  LET u == [ws EXCEPT !.q[i] = c] IN
         /\ u \in SpaceOf(n) /\ SameHeader(u, ws)
         /\ u.q = Put(ws.q, i, c)
BY DEF SpaceOf, SameHeader, Put

LEMMA SetAreaCell ==
  ASSUME NEW n, NEW w \in AreaOf(n), NEW i \in 1..n, NEW c \in CellOf(n)
  PROVE  LET u == [w EXCEPT !.ws.q[i] = c] IN
         /\ u \in AreaOf(n) /\ u.data = w.data
         /\ u.ws \in SpaceOf(n) /\ SameHeader(u.ws, w.ws)
         /\ u.ws.q = Put(w.ws.q, i, c)
<1> USE DEF Put
<1> DEFINE v == [w.ws EXCEPT !.q[i] = c]
           u == [w EXCEPT !.ws.q[i] = c]
<1>1. w.ws \in SpaceOf(n)
  BY AreaFields
<1>2. v \in SpaceOf(n) /\ SameHeader(v, w.ws) /\ v.q = [w.ws.q EXCEPT ![i] = c]
  BY <1>1, SetCell
<1>3. u = [w EXCEPT !.ws = v]
  OBVIOUS
<1> HIDE DEF v
<1>4. u \in AreaOf(n) /\ u.data = w.data /\ u.ws = v
  BY <1>2, <1>3 DEF AreaOf
<1> QED BY <1>2, <1>4

LEMMA SetMemoryCell ==
  ASSUME NEW n, NEW m \in MemoryOf(n), NEW i \in 1..n, NEW c \in CellOf(n)
  PROVE  LET u == [m EXCEPT !.ws.q[i] = c] IN
         /\ u \in MemoryOf(n) /\ u.h = m.h /\ u.r = m.r /\ u.off = m.off /\ u.hd = m.hd
         /\ u.rc = m.rc /\ u.buf = m.buf /\ u.sbuf = m.sbuf
         /\ u.ws \in SpaceOf(n) /\ SameHeader(u.ws, m.ws)
         /\ u.ws.q = Put(m.ws.q, i, c)
<1> USE DEF Put
<1> DEFINE v == [m.ws EXCEPT !.q[i] = c]
           u == [m EXCEPT !.ws.q[i] = c]
<1>1. m.ws \in SpaceOf(n)
  BY MemoryFields
<1>2. v \in SpaceOf(n) /\ SameHeader(v, m.ws) /\ v.q = [m.ws.q EXCEPT ![i] = c]
  BY <1>1, SetCell
<1>3. u = [m EXCEPT !.ws = v]
  OBVIOUS
<1> HIDE DEF v
<1>4. /\ u \in MemoryOf(n) /\ u.ws = v /\ u.h = m.h /\ u.r = m.r /\ u.off = m.off /\ u.hd = m.hd
      /\ u.rc = m.rc /\ u.buf = m.buf /\ u.sbuf = m.sbuf
  BY <1>2, <1>3 DEF MemoryOf
<1> QED BY <1>2, <1>4

PutCell(x, i, c) == [x EXCEPT !.ws.q[i] = c]

LEMMA AreaCell ==
  ASSUME NEW n, NEW w, NEW i, NEW c, w \in AreaOf(n), i \in 1..n, c \in CellOf(n)
  PROVE  /\ PutCell(w, i, c) \in AreaOf(n) /\ PutCell(w, i, c).data = w.data
         /\ PutCell(w, i, c).ws \in SpaceOf(n) /\ SameHeader(PutCell(w, i, c).ws, w.ws)
         /\ PutCell(w, i, c).ws.q = Put(w.ws.q, i, c)
         /\ PutCell(w, i, c).ws.q[i] = c
<1> USE DEF Put
<1>1. i \in DOMAIN w.ws.q
  BY AreaFields
<1> QED BY <1>1, SetAreaCell DEF PutCell

LEMMA MemoryCell ==
  ASSUME NEW n, NEW m, NEW i, NEW c, m \in MemoryOf(n), i \in 1..n, c \in CellOf(n)
  PROVE  LET u == PutCell(m, i, c) IN
         /\ u \in MemoryOf(n) /\ u.h = m.h /\ u.r = m.r /\ u.off = m.off /\ u.hd = m.hd
         /\ u.rc = m.rc /\ u.buf = m.buf /\ u.sbuf = m.sbuf
         /\ u.ws \in SpaceOf(n) /\ SameHeader(u.ws, m.ws)
         /\ u.ws.q = Put(m.ws.q, i, c)
BY SetMemoryCell DEF PutCell, Put

LEMMA AreaMark ==
  ASSUME NEW n, NEW w, NEW i, NEW bit, w \in AreaOf(n), i \in 1..n, bit \in {1, 2, 4}
  PROVE  LET u == FtwUpdateFvState(w, i, bit) IN
         /\ u \in AreaOf(n) /\ u.data = w.data
         /\ u.ws \in SpaceOf(n) /\ SameHeader(u.ws, w.ws)
         /\ u.ws.q = Put(w.ws.q, i, Marked(w.ws.q[i], bit))
         /\ u.ws.q[i] = Marked(w.ws.q[i], bit)
<1>1. w.ws.q[i] \in CellOf(n) /\ i \in DOMAIN w.ws.q
  BY AreaFields
<1> DEFINE x == w.ws.q[i]
           c == Marked(w.ws.q[i], bit)
<1>2. /\ c \in CellOf(n) /\ c.bits = w.ws.q[i].bits \cup {bit} /\ c.body = w.ws.q[i].body
      /\ [w.ws.q[i] EXCEPT !.bits = @ \cup {bit}] = c
  <2>1. x \in CellOf(n)
    BY <1>1
  <2> HIDE DEF x
  <2>2. [x EXCEPT !.bits = @ \cup {bit}] = Marked(x, bit)
    BY <2>1, MarkedCell
  <2>3. Marked(x, bit) \in CellOf(n) /\ Marked(x, bit).bits = x.bits \cup {bit} /\ Marked(x, bit).body = x.body
    BY <2>1, MarkedCell
  <2> QED BY <2>2, <2>3 DEF x
<1>3. FtwUpdateFvState(w, i, bit) = [w EXCEPT !.ws.q[i] = c]
  BY <1>2, Zenon DEF FtwUpdateFvState
<1> HIDE DEF c
<1>4. LET u == [w EXCEPT !.ws.q[i] = c] IN
         /\ u \in AreaOf(n) /\ u.data = w.data
         /\ u.ws \in SpaceOf(n) /\ SameHeader(u.ws, w.ws)
         /\ u.ws.q = Put(w.ws.q, i, c)
  BY <1>2, SetAreaCell
<1>5. Put(w.ws.q, i, c)[i] = c
  BY AreaFields, PutFacts
<1> QED BY <1>2, <1>3, <1>4, <1>5 DEF c

LEMMA MemoryMark ==
  ASSUME NEW n, NEW m, NEW i, NEW bit, m \in MemoryOf(n), i \in 1..n, bit \in {1, 2, 4}
  PROVE  LET u == FtwUpdateFvState(m, i, bit) IN
         /\ u \in MemoryOf(n) /\ u.h = m.h /\ u.r = m.r /\ u.off = m.off /\ u.hd = m.hd
         /\ u.rc = m.rc /\ u.buf = m.buf /\ u.sbuf = m.sbuf
         /\ u.ws \in SpaceOf(n) /\ SameHeader(u.ws, m.ws)
         /\ u.ws.q = Put(m.ws.q, i, Marked(m.ws.q[i], bit))
<1>1. m.ws.q[i] \in CellOf(n) /\ i \in DOMAIN m.ws.q
  BY MemoryFields
<1> DEFINE x == m.ws.q[i]
           c == Marked(m.ws.q[i], bit)
<1>2. /\ c \in CellOf(n)
      /\ [m.ws.q[i] EXCEPT !.bits = @ \cup {bit}] = c
  <2>1. x \in CellOf(n)
    BY <1>1
  <2> HIDE DEF x
  <2>2. [x EXCEPT !.bits = @ \cup {bit}] = Marked(x, bit)
    BY <2>1, MarkedCell
  <2>3. Marked(x, bit) \in CellOf(n) /\ Marked(x, bit).bits = x.bits \cup {bit} /\ Marked(x, bit).body = x.body
    BY <2>1, MarkedCell
  <2> QED BY <2>2, <2>3 DEF x
<1>3. FtwUpdateFvState(m, i, bit) = [m EXCEPT !.ws.q[i] = c]
  BY <1>2, Zenon DEF FtwUpdateFvState
<1> HIDE DEF c
<1>4. LET u == [m EXCEPT !.ws.q[i] = c] IN
         /\ u \in MemoryOf(n) /\ u.h = m.h /\ u.r = m.r /\ u.off = m.off /\ u.hd = m.hd
         /\ u.rc = m.rc /\ u.buf = m.buf /\ u.sbuf = m.sbuf
         /\ u.ws \in SpaceOf(n) /\ SameHeader(u.ws, m.ws)
         /\ u.ws.q = Put(m.ws.q, i, c)
  BY <1>2, SetMemoryCell
<1> QED BY <1>3, <1>4 DEF c

LEMMA Basics ==
  ASSUME TypeOK, Sound(config)
  PROVE  /\ config \in Config /\ config.queue \in Nat /\ 2 <= config.queue
         /\ config.queue < AllOnes /\ AllOnes \in Nat
         /\ Records(config) \in 1..(config.queue - 1) /\ ~config.split
         /\ work \in AreaOf(config.queue) /\ spare \in AreaOf(config.queue)
         /\ work.ws \in SpaceOf(config.queue) /\ spare.ws \in SpaceOf(config.queue)
         /\ d \in MemoryOf(config.queue) /\ d.ws \in SpaceOf(config.queue)
         /\ DOMAIN work.ws.q = 1..config.queue /\ DOMAIN spare.ws.q = 1..config.queue
         /\ DOMAIN d.ws.q = 1..config.queue
<1>1. config \in Configs /\ config \in Config
  BY ConfigAssumption DEF TypeOK
<1>2. /\ work \in AreaOf(config.queue) /\ spare \in AreaOf(config.queue)
      /\ d \in MemoryOf(config.queue)
  BY TypeParts
<1> QED BY <1>1, <1>2, SoundBasics, AreaFields, MemoryFields

LEMMA ErasedFacts ==
  ASSUME config \in Config, Sound(config)
  PROVE  /\ Erased \in AreaOf(config.queue) /\ NoData \in MemoryOf(config.queue)
         /\ Erased.ws.q = Erasure(config) /\ ~IsValidWorkSpace(Erased.ws)
         /\ BlankSpace \in SpaceOf(config.queue) /\ Unused(config, Erased)
         /\ BlankSpace.q = Erasure(config) /\ ~BlankSpace.sig /\ Erased.data = Lost
<1>1. config.queue \in Nat /\ 2 <= config.queue
  BY SoundBasics
<1>2. BlankCell \in CellOf(config.queue)
  BY DEF BlankCell, CellOf
<1>3. BlankQueue \in [1..config.queue -> CellOf(config.queue)] /\ BlankQueue = Erasure(config)
  BY <1>2 DEF BlankQueue, Erasure, Cells, QueueSize
<1>4. /\ BlankSpace \in SpaceOf(config.queue) /\ BlankSpace.q = Erasure(config)
      /\ ~BlankSpace.sig /\ ~BlankSpace.valid /\ ~BlankSpace.invalid
  BY <1>3 DEF BlankSpace, SpaceOf
<1>5. Erased \in AreaOf(config.queue) /\ Erased.ws = BlankSpace /\ Erased.data = Lost
  BY <1>4 DEF Erased, AreaOf, Image
<1>6. NoData \in MemoryOf(config.queue)
  BY <1>1, <1>4, <1>5 DEF NoData, MemoryOf
<1> QED BY <1>4, <1>5, <1>6 DEF IsValidWorkSpace, Unused

(* What a step that changes only the spare block keeps. *)
LEMMA SpareOnly ==
  ASSUME target' = target, work' = work, d' = d, config' = config, stk' = stk
  PROVE  /\ Old => Old'
         /\ Buffered => Buffered'
         /\ Loaded({"vacant"}) => Loaded({"vacant"})'
         /\ Flash(Settled) => Flash(Settled)'
         /\ FlashAt(d.h, d.r, {"open"}) => FlashAt(d.h, d.r, {"open"})'
         /\ Near(d.ws.q, work.ws.q, d.h) => Near(d.ws.q, work.ws.q, d.h)'
<1>1. Old => Old'
  <2>1. Flash({"torn"}) => Flash({"torn"})'
    BY SomeSpare DEF Flash
  <2> QED BY <2>1 DEF Old
<1>2. Buffered => Buffered'
  BY DEF Buffered, Emptied, Fresh
<1>3. Loaded({"vacant"}) => Loaded({"vacant"})'
  BY IsSpare DEF Loaded, FlashAt, QueueSize
<1>4. Flash(Settled) => Flash(Settled)'
  BY SomeSpare DEF Flash, Settled
<1>5. FlashAt(d.h, d.r, {"open"}) => FlashAt(d.h, d.r, {"open"})'
  BY IsSpare DEF FlashAt
<1> QED BY <1>1, <1>2, <1>3, <1>4, <1>5

LEMMA EraseSpareStep ==
  ASSUME TypeOK, FInv, Sound(config), FtwEraseSpareBlock
  PROVE  TypeOK' /\ FInv'
<1>1. /\ config \in Config /\ ~config.split /\ work \in AreaOf(config.queue)
      /\ Erased \in AreaOf(config.queue) /\ ~IsValidWorkSpace(Erased.ws)
  BY Basics, ErasedFacts
<1>2. /\ spare' = Erased /\ half' = FALSE /\ stk' = stk
      /\ target' = target /\ work' = work /\ d' = d /\ op' = op /\ status' = status
      /\ applied' = applied /\ config' = config /\ calls' = calls /\ crashes' = crashes
      /\ fails' = fails
  BY <1>1 DEF FtwEraseSpareBlock, EraseStep, EraseEnds, Goto, bounds
<1>3. \/ pc = "rc_erase" /\ pc' = "rc_copy"
      \/ pc = "rc_clear" /\ pc' = "rc_restore"
      \/ pc = "w_erase" /\ pc' = "w_copy"
      \/ pc = "w_clear" /\ pc' = "w_restore"
  BY <1>1 DEF FtwEraseSpareBlock, EraseEnds, Goto, AfterErase
<1>4. TypeOK'
  BY <1>1, <1>2, TypeParts, Zenon
<1>5. Position(pc, stk, op.f)' /\ Called' /\ Progress'
  BY <1>2, <1>3 DEF FInv, Position, Called, Progress, Late
<1>6. pc' # "refresh" /\ Flushing' /\ Allocating' /\ Restarting' /\ Starting' /\ Answered'
  BY <1>3 DEF Flushing, Allocating, Restarting, Starting, Answered
<1>7. Reclaiming'
  BY <1>1, <1>2, <1>3, SpareOnly DEF FInv, Reclaiming
<1>8. Writing'
  BY <1>1, <1>2, <1>3, SpareOnly DEF FInv, Writing
<1> QED BY <1>2, <1>4, <1>5, <1>6, <1>7, <1>8 DEF FInv

LEMMA SetValid ==
  ASSUME NEW n, NEW w \in AreaOf(n)
  PROVE  LET u == [w EXCEPT !.ws.valid = TRUE] IN
         /\ u \in AreaOf(n) /\ u.data = w.data /\ u.ws \in SpaceOf(n)
         /\ u.ws.valid /\ u.ws.sig = w.ws.sig /\ u.ws.invalid = w.ws.invalid /\ u.ws.q = w.ws.q
<1> DEFINE v == [w.ws EXCEPT !.valid = TRUE]
           u == [w EXCEPT !.ws.valid = TRUE]
<1>1. w.ws \in SpaceOf(n)
  BY AreaFields
<1>2. v \in SpaceOf(n) /\ v.valid /\ v.sig = w.ws.sig /\ v.invalid = w.ws.invalid /\ v.q = w.ws.q
  BY <1>1 DEF SpaceOf
<1>3. u = [w EXCEPT !.ws = v]
  OBVIOUS
<1> HIDE DEF v
<1>4. u \in AreaOf(n) /\ u.data = w.data /\ u.ws = v
  BY <1>2, <1>3 DEF AreaOf
<1> QED BY <1>2, <1>4

LEMMA SetInvalid ==
  ASSUME NEW n, NEW w \in AreaOf(n)
  PROVE  LET u == [w EXCEPT !.ws.invalid = TRUE] IN
         /\ u \in AreaOf(n) /\ u.data = w.data /\ u.ws \in SpaceOf(n)
         /\ u.ws.invalid /\ u.ws.sig = w.ws.sig /\ u.ws.valid = w.ws.valid /\ u.ws.q = w.ws.q
<1> DEFINE v == [w.ws EXCEPT !.invalid = TRUE]
           u == [w EXCEPT !.ws.invalid = TRUE]
<1>1. w.ws \in SpaceOf(n)
  BY AreaFields
<1>2. v \in SpaceOf(n) /\ v.invalid /\ v.sig = w.ws.sig /\ v.valid = w.ws.valid /\ v.q = w.ws.q
  BY <1>1 DEF SpaceOf
<1>3. u = [w EXCEPT !.ws = v]
  OBVIOUS
<1> HIDE DEF v
<1>4. u \in AreaOf(n) /\ u.data = w.data /\ u.ws = v
  BY <1>2, <1>3 DEF AreaOf
<1> QED BY <1>2, <1>4

LEMMA SetMemorySpace ==
  ASSUME NEW n, NEW m \in MemoryOf(n), NEW v \in SpaceOf(n)
  PROVE  LET u == [m EXCEPT !.ws = v] IN
         /\ u \in MemoryOf(n) /\ u.ws = v /\ u.h = m.h /\ u.r = m.r /\ u.off = m.off
         /\ u.hd = m.hd /\ u.rc = m.rc /\ u.buf = m.buf /\ u.sbuf = m.sbuf
BY DEF MemoryOf

LEMMA SetMemoryInvalid ==
  ASSUME NEW n, NEW m \in MemoryOf(n)
  PROVE  LET u == [m EXCEPT !.ws.invalid = TRUE] IN
         /\ u \in MemoryOf(n) /\ u.h = m.h /\ u.r = m.r /\ u.off = m.off /\ u.hd = m.hd
         /\ u.rc = m.rc /\ u.buf = m.buf /\ u.sbuf = m.sbuf
         /\ u.ws.sig = m.ws.sig /\ u.ws.q = m.ws.q
<1> DEFINE v == [m.ws EXCEPT !.invalid = TRUE]
           u == [m EXCEPT !.ws.invalid = TRUE]
<1>1. m.ws \in SpaceOf(n)
  BY MemoryFields
<1>2. v \in SpaceOf(n) /\ v.sig = m.ws.sig /\ v.q = m.ws.q
  BY <1>1 DEF SpaceOf
<1>3. u = [m EXCEPT !.ws = v]
  OBVIOUS
<1> HIDE DEF v
<1>4. /\ u \in MemoryOf(n) /\ u.ws = v /\ u.h = m.h /\ u.r = m.r /\ u.off = m.off
      /\ u.hd = m.hd /\ u.rc = m.rc /\ u.buf = m.buf /\ u.sbuf = m.sbuf
  BY <1>2, <1>3 DEF MemoryOf
<1> QED BY <1>2, <1>4

LEMMA PushTop ==
  ASSUME NEW S, NEW a \in S, NEW s \in Seq(S)
  PROVE  /\ Head(<<a>> \o s) = a /\ Tail(<<a>> \o s) = s /\ <<a>> \o s # <<>>
         /\ <<a>> \o s \in Seq(S)
<1> DEFINE x == <<a>> \o s
<1>1. <<a>> \in Seq(S) /\ Len(<<a>>) = 1 /\ <<a>>[1] = a /\ Len(s) \in Nat
  OBVIOUS
<1>2. /\ x \in Seq(S) /\ Len(x) = 1 + Len(s)
      /\ \A i \in 1..(1 + Len(s)) : x[i] = IF i <= 1 THEN <<a>>[i] ELSE s[i - 1]
  BY <1>1, ConcatProperties
<1>3. x # <<>> /\ x[1] = a /\ \A i \in 1..Len(s) : x[i + 1] = s[i]
  BY <1>1, <1>2
<1> HIDE DEF x
<1>4. Head(x) = a /\ Tail(x) \in Seq(S) /\ Len(Tail(x)) = Len(s)
      /\ \A i \in 1..Len(s) : Tail(x)[i] = x[i + 1]
  BY <1>1, <1>2, <1>3
<1> DEFINE y == Tail(x)
<1>5. y \in Seq(S) /\ Len(y) = Len(s) /\ \A i \in 1..Len(y) : y[i] = s[i]
  BY <1>3, <1>4
<1> HIDE DEF y
<1>6. y = s
  BY <1>5, SeqEqual
<1> QED BY <1>2, <1>3, <1>4, <1>6 DEF x, y

(* The labels callers resume at. *)
Labels ==
  {"i_valid", "i_first", "i_last", "i_tail", "i_restart", "i_abort", "i_done", "a_check",
   "w_start", "w_check", "w_clear", "s_check", "s_clear", "b_check", "l_check", "l_abort",
   "refresh", "reread", "rc_clear", "t_dest"}

LEMMA StackSeq ==
  ASSUME NEW f, NEW s
  PROVE  /\ FullStk(f, s) => s \in Seq(Labels)
         /\ ReclaimStk(f, s) => s \in Seq(Labels)
         /\ RecordStk(f, s) => s \in Seq(Labels)
<1>1. ASSUME NEW S, NEW a \in S, NEW b \in S, NEW c \in S
      PROVE  <<a>> \in Seq(S) /\ <<a, b>> \in Seq(S) /\ <<a, b, c>> \in Seq(S)
  OBVIOUS
<1>2. \A a, b, c \in Labels :
        <<a>> \in Seq(Labels) /\ <<a, b>> \in Seq(Labels) /\ <<a, b, c>> \in Seq(Labels)
  BY <1>1
<1>3. /\ "i_valid" \in Labels /\ "i_first" \in Labels /\ "i_restart" \in Labels
      /\ "i_abort" \in Labels /\ "i_done" \in Labels /\ "a_check" \in Labels
      /\ "w_start" \in Labels /\ "w_clear" \in Labels /\ "s_check" \in Labels
      /\ "s_clear" \in Labels /\ "b_check" \in Labels /\ "l_check" \in Labels
      /\ "reread" \in Labels
  BY DEF Labels
<1>4. FullStk(f, s) => s \in Seq(Labels)
  BY <1>2, <1>3 DEF FullStk
<1>5. ReclaimStk(f, s) => s \in Seq(Labels)
  BY <1>2, <1>3 DEF ReclaimStk
<1>6. RecordStk(f, s) => s \in Seq(Labels)
  BY <1>2, <1>3 DEF RecordStk
<1> QED BY <1>4, <1>5, <1>6

(* Where a reclaim returns to. *)
LEMMA ReclaimReturn ==
  ASSUME NEW f, NEW s, ReclaimStk(f, s)
  PROVE  /\ s # <<>>
         /\ \/ Head(s) = "reread" /\ FullStk(f, Tail(s)) /\ s \notin {<<"i_first">>, <<"i_restart">>}
            \/ f = "init" /\ s = <<"i_first">> /\ Head(s) = "i_first" /\ Tail(s) = <<>>
            \/ f = "init" /\ s = <<"i_restart">> /\ Head(s) = "i_restart" /\ Tail(s) = <<>>
<1>1. CASE f = "init" /\ s = <<"reread", "i_valid">>
  BY <1>1, StackTop DEF FullStk
<1>2. CASE f = "init" /\ s = <<"reread", "i_first">>
  BY <1>2, StackTop DEF FullStk
<1>3. CASE f = "init" /\ s = <<"reread", "b_check", "i_done">>
  BY <1>3, StackTop DEF FullStk
<1>4. CASE f = "init" /\ s = <<"i_first">>
  BY <1>4, StackTop DEF FullStk
<1>5. CASE f = "init" /\ s = <<"i_restart">>
  BY <1>5, StackTop DEF FullStk
<1>6. CASE f = "allocate" /\ s = <<"reread", "a_check">>
  BY <1>6, StackTop DEF FullStk
<1>7. CASE f = "write" /\ s = <<"reread", "w_start">>
  BY <1>7, StackTop DEF FullStk
<1>8. CASE f = "restart" /\ s = <<"reread", "s_check">>
  BY <1>8, StackTop DEF FullStk
<1>9. CASE f = "abort" /\ s = <<"reread", "b_check">>
  BY <1>9, StackTop DEF FullStk
<1>10. CASE f = "last" /\ s = <<"reread", "l_check">>
  BY <1>10, StackTop DEF FullStk
<1> QED BY <1>1, <1>2, <1>3, <1>4, <1>5, <1>6, <1>7, <1>8, <1>9, <1>10 DEF ReclaimStk

(* What a reclaim starts from. *)
LEMMA OldFacts ==
  ASSUME TypeOK, Sound(config), Old
  PROVE  /\ Homes(target, work)
         /\ Stuffed(config, target, work) \/ Roomy(config, work.ws.q)
<1>1. config \in Config /\ DOMAIN work.ws.q = 1..config.queue
  BY Basics
<1>2. ASSUME Flash({"torn"}) PROVE Homes(target, work) /\ Roomy(config, work.ws.q)
  <2>1. PICK h \in 1..(config.queue + 1), r \in 2..(config.queue + 2) :
            Is(config, target, work, spare, h, r, {"torn"})
    BY <1>2 DEF Flash, Some
  <2>2. Homes(target, work) /\ Torn(config, work.ws.q, h, r)
    BY <2>1 DEF Is
  <2>3. Shape(config, work.ws.q, h, r)
    BY <2>2 DEF Shape, Torn
  <2> QED BY <1>1, <2>2, <2>3, ShapeRoomy
<1>3. ASSUME Unused(config, work) PROVE Roomy(config, work.ws.q)
  <2>1. Shape(config, Erasure(config), 1, 2)
    BY <1>1, BlankShape DEF Erasure
  <2> QED BY <1>1, <1>3, <2>1, ShapeRoomy DEF Unused
<1>4. Stuffed(config, target, work) => Homes(target, work)
  BY DEF Stuffed
<1> QED BY <1>2, <1>3, <1>4 DEF Old

LEMMA ReclaimCopyStep ==
  ASSUME TypeOK, FInv, Sound(config), ReclaimCopy
  PROVE  TypeOK' /\ FInv'
<1>1. d.buf \in AreaOf(config.queue)
  BY Basics, MemoryFields
<1>2. /\ spare' = d.buf /\ half' = half /\ stk' = stk /\ pc = "rc_copy" /\ pc' = "rc_valid"
      /\ target' = target /\ work' = work /\ d' = d /\ op' = op /\ status' = status
      /\ applied' = applied /\ config' = config /\ calls' = calls /\ crashes' = crashes
      /\ fails' = fails
  BY DEF ReclaimCopy, Goto, bounds
<1>3. TypeOK'
  BY <1>1, <1>2, TypeParts, Zenon
<1>4. Position(pc, stk, op.f)' /\ Called' /\ Progress'
  BY <1>2 DEF FInv, Position, Called, Progress, Late
<1>5. /\ pc' # "refresh" /\ Flushing' /\ Allocating' /\ Writing' /\ Restarting' /\ Starting'
      /\ Answered'
  BY <1>2 DEF Flushing, Allocating, Writing, Restarting, Starting, Answered
<1>6. Reclaiming'
  BY <1>2, SpareOnly DEF FInv, Reclaiming
<1> QED BY <1>2, <1>3, <1>4, <1>5, <1>6 DEF FInv

LEMMA ReclaimSetSpareValidStep ==
  ASSUME TypeOK, FInv, Sound(config), ReclaimSetSpareValid
  PROVE  TypeOK' /\ FInv'
<1>1. /\ half' = half /\ stk' = stk /\ pc = "rc_valid" /\ pc' = "rc_invalid"
      /\ target' = target /\ work' = work /\ d' = d /\ op' = op /\ status' = status
      /\ applied' = applied /\ config' = config /\ calls' = calls /\ crashes' = crashes
      /\ fails' = fails
  BY DEF ReclaimSetSpareValid, Goto, bounds
<1>2. /\ spare' \in AreaOf(config.queue) /\ spare'.data = spare.data
      /\ spare'.ws.valid /\ spare'.ws.sig = spare.ws.sig /\ spare'.ws.invalid = spare.ws.invalid
      /\ spare'.ws.q = spare.ws.q
  BY Basics, SetValid DEF ReclaimSetSpareValid
<1>3. TypeOK'
  BY <1>1, <1>2, TypeParts, Zenon
<1>4. Position(pc, stk, op.f)' /\ Called' /\ Progress'
  BY <1>1 DEF FInv, Position, Called, Progress, Late
<1>5. /\ pc' # "refresh" /\ Flushing' /\ Allocating' /\ Writing' /\ Restarting' /\ Starting'
      /\ Answered'
  BY <1>1 DEF Flushing, Allocating, Writing, Restarting, Starting, Answered
<1>6. Old /\ Buffered /\ spare = d.buf
  BY <1>1 DEF FInv, Reclaiming
<1>7. spare'.data = work'.data /\ Fresh(spare.ws)' /\ spare'.ws.valid
  BY <1>1, <1>2, <1>6 DEF Buffered, Fresh
<1>8. Reclaiming'
  BY <1>1, <1>6, <1>7, SpareOnly DEF Reclaiming
<1> QED BY <1>1, <1>3, <1>4, <1>5, <1>8 DEF FInv

LEMMA ReclaimWorkSpaceStep ==
  ASSUME TypeOK, FInv, Sound(config), FtwReclaimWorkSpace
  PROVE  TypeOK' /\ FInv'
<1> DEFINE q == IF pc = "reclaim" THEN Kept(d.ws.q) ELSE BlankQueue
           new == [d.ws EXCEPT !.q = q]
           buf == [data |-> work.data, ws |-> [new EXCEPT !.valid = FALSE, !.invalid = FALSE]]
<1>1. /\ half' = half /\ stk' = stk /\ pc \in {"reclaim", "reclaim_fresh"} /\ pc' = "rc_erase"
      /\ target' = target /\ work' = work /\ spare' = spare /\ op' = op /\ status' = status
      /\ applied' = applied /\ config' = config /\ calls' = calls /\ crashes' = crashes
      /\ fails' = fails
  BY DEF FtwReclaimWorkSpace, Goto, bounds, flash
<1>2. /\ config \in Config /\ config.queue \in Nat /\ 2 <= config.queue
      /\ d \in MemoryOf(config.queue) /\ d.ws \in SpaceOf(config.queue)
      /\ work \in AreaOf(config.queue) /\ spare \in AreaOf(config.queue)
      /\ work.data \in Image /\ DOMAIN work.ws.q = 1..config.queue
      /\ Erasure(config) \in [1..config.queue -> CellOf(config.queue)]
      /\ BlankQueue = Erasure(config)
  BY Basics, AreaFields, ErasedFacts, SpaceFields DEF BlankSpace, Erasure, BlankQueue, Cells, QueueSize
<1>3. Old
  BY <1>1 DEF FInv, Reclaiming
<1>4. pc = "reclaim" => Kept(d.ws.q) = Erasure(config) /\ work.ws.sig /\ d.ws = work.ws
  <2> SUFFICES ASSUME pc = "reclaim"
               PROVE  Kept(d.ws.q) = Erasure(config) /\ work.ws.sig /\ d.ws = work.ws
    OBVIOUS
  <2>1. d.ws = work.ws /\ stk # <<"i_first">>
    BY DEF FInv, Reclaiming, Position
  <2>2. CASE Flash({"torn"})
    <3>1. PICK h, r : Torn(config, work.ws.q, h, r) /\ IsValidWorkSpace(work.ws)
      BY <2>2 DEF Flash, Some, Is
    <3>2. Kept(work.ws.q) = Erasure(config)
      BY <1>2, <3>1, TornKept DEF Erasure
    <3> QED BY <2>1, <3>1, <3>2 DEF IsValidWorkSpace
  <2>3. CASE Stuffed(config, target, work)
    <3>1. Kept(work.ws.q) = Erasure(config)
      BY <1>2, <2>3, SpentFound DEF Stuffed, Erasure
    <3> QED BY <2>1, <2>3, <3>1 DEF Stuffed
  <2> QED BY <1>3, <2>1, <2>2, <2>3 DEF Old
<1>5. q = Erasure(config) /\ d.ws.sig
  BY <1>1, <1>2, <1>4 DEF FInv, Reclaiming
<1>6. new \in SpaceOf(config.queue) /\ new.q = Erasure(config) /\ new.sig
  <2> HIDE DEF q
  <2> QED BY <1>2, <1>5 DEF SpaceOf
<1>7. /\ buf \in AreaOf(config.queue) /\ buf.data = work.data
      /\ buf.ws.q = Erasure(config) /\ buf.ws.sig /\ ~buf.ws.valid /\ ~buf.ws.invalid
  <2> HIDE DEF new
  <2> DEFINE v == [new EXCEPT !.valid = FALSE, !.invalid = FALSE]
  <2>1. /\ v \in SpaceOf(config.queue)
        /\ v.q = Erasure(config) /\ v.sig /\ ~v.valid /\ ~v.invalid
    BY <1>6 DEF SpaceOf
  <2>2. buf = [data |-> work.data, ws |-> v]
    OBVIOUS
  <2> HIDE DEF v
  <2> QED BY <1>2, <2>1, <2>2 DEF AreaOf
<1>8. FtwGetLastWriteHeader(q) = 1 /\ FtwGetLastWriteRecord(q, 1) = 2
  <2>1. Shape(config, Erasure(config), 1, 2) /\ DOMAIN Erasure(config) = 1..config.queue
    BY <1>2, BlankShape DEF Erasure
  <2> HIDE DEF q
  <2> QED BY <1>2, <1>5, <2>1, ShapeFound
<1>9. d' = [d EXCEPT !.ws = new, !.h = 1, !.r = 2, !.buf = buf, !.sbuf = spare]
  <2>1. d' = [d EXCEPT !.ws = new, !.h = FtwGetLastWriteHeader(q),
                       !.r = FtwGetLastWriteRecord(q, FtwGetLastWriteHeader(q)),
                       !.buf = buf, !.sbuf = spare]
    BY Zenon DEF FtwReclaimWorkSpace
  <2> HIDE DEF q, new, buf
  <2> QED BY <1>8, <2>1
<1> HIDE DEF q, new, buf
<1>10. /\ d' \in MemoryOf(config.queue) /\ d'.ws = new /\ d'.h = 1 /\ d'.r = 2 /\ d'.buf = buf
  <2> DEFINE x == 1
             y == 2
  <2>1. x \in 1..config.queue /\ y \in 1..config.queue
    BY <1>2
  <2>2. d' = [d EXCEPT !.ws = new, !.h = x, !.r = y, !.buf = buf, !.sbuf = spare]
    BY <1>9
  <2> HIDE DEF x, y
  <2>3. /\ d' \in MemoryOf(config.queue) /\ d'.ws = new /\ d'.h = x /\ d'.r = y /\ d'.buf = buf
    <3>1. /\ d \in MemoryOf(config.queue) /\ new \in SpaceOf(config.queue)
          /\ buf \in AreaOf(config.queue) /\ spare \in AreaOf(config.queue)
      BY <1>2, <1>6, <1>7
    <3>2. PICK v : v = new
      OBVIOUS
    <3>3. PICK b : b = buf
      OBVIOUS
    <3>4. d' = [d EXCEPT !.ws = v, !.h = x, !.r = y, !.buf = b, !.sbuf = spare]
      BY <2>2, <3>2, <3>3
    <3>5. v \in SpaceOf(config.queue) /\ b \in AreaOf(config.queue)
      BY <3>1, <3>2, <3>3
    <3>6. /\ d' \in MemoryOf(config.queue) /\ d'.ws = v /\ d'.h = x /\ d'.r = y /\ d'.buf = b
      BY <3>1, <3>4, <3>5, <2>1 DEF MemoryOf
    <3> QED BY <3>2, <3>3, <3>6
  <2> QED BY <2>3 DEF x, y
<1>11. TypeOK'
  BY <1>1, <1>10, TypeParts, Zenon
<1>12. Position(pc, stk, op.f)' /\ Called' /\ Progress'
  BY <1>1 DEF FInv, Position, ReclaimStk, Called, Progress, Late
<1>13. /\ pc' # "refresh" /\ Flushing' /\ Allocating' /\ Writing' /\ Restarting' /\ Starting'
       /\ Answered'
  BY <1>1 DEF Flushing, Allocating, Writing, Restarting, Starting, Answered
<1>14. Buffered'
  BY <1>1, <1>6, <1>7, <1>10 DEF Buffered, Emptied, Fresh
<1>15. Old' /\ (stk' = <<"i_first">> => ~IsValidWorkSpace(spare.ws)')
  <2>1. Flash({"torn"}) => Flash({"torn"})'
    BY <1>1 DEF Flash
  <2>2. Old'
    BY <1>1, <1>3, <2>1 DEF Old
  <2>3. stk = <<"i_first">> => pc = "reclaim_fresh"
    BY <1>1 DEF FInv, Position
  <2> QED BY <1>1, <2>2, <2>3 DEF FInv, Reclaiming
<1>16. Reclaiming'
  BY <1>1, <1>14, <1>15 DEF Reclaiming
<1> QED BY <1>1, <1>11, <1>12, <1>13, <1>16 DEF FInv

LEMMA ReclaimSetWorkInvalidStep ==
  ASSUME TypeOK, FInv, Sound(config), ReclaimSetWorkInvalid
  PROVE  TypeOK' /\ FInv'
<1>1. /\ half' = half /\ pc = "rc_invalid" /\ pc' = "f_spare"
      /\ target' = target /\ spare' = spare /\ op' = op /\ status' = status
      /\ applied' = applied /\ config' = config /\ calls' = calls /\ crashes' = crashes
      /\ fails' = fails
  BY DEF ReclaimSetWorkInvalid, Call, bounds
<1>2. /\ config \in Config /\ work \in AreaOf(config.queue) /\ d \in MemoryOf(config.queue)
      /\ spare \in AreaOf(config.queue)
  BY Basics
<1>3. /\ work' \in AreaOf(config.queue) /\ work'.data = work.data /\ work'.ws.invalid
      /\ work'.ws.sig = work.ws.sig /\ work'.ws.q = work.ws.q
  BY <1>2, SetInvalid DEF ReclaimSetWorkInvalid
<1>4. /\ d' \in MemoryOf(config.queue) /\ d'.h = d.h /\ d'.r = d.r
      /\ d'.ws.sig = d.ws.sig /\ d'.ws.q = d.ws.q
  BY <1>2, SetMemoryInvalid DEF ReclaimSetWorkInvalid
<1>5. ReclaimStk(op.f, stk) /\ stk \in Seq(Labels)
  BY <1>1, StackSeq DEF FInv, Position
<1>6. /\ stk' = <<"rc_clear">> \o stk /\ stk' # <<>> /\ Head(stk') = "rc_clear"
      /\ Tail(stk') = stk
  <2>1. stk' = <<"rc_clear">> \o stk /\ "rc_clear" \in Labels
    BY DEF ReclaimSetWorkInvalid, Call, Labels
  <2> QED BY <1>5, <2>1, PushTop
<1>7. TypeOK'
  BY <1>1, <1>3, <1>4, TypeParts, Zenon
<1>8. Position(pc, stk, op.f)'
  BY <1>1, <1>5, <1>6 DEF Position, FlushStk
<1>9. Called' /\ Progress'
  BY <1>1, <1>5, <1>6 DEF FInv, Called, Progress, Late, ReclaimStk
<1>10. /\ pc' # "refresh" /\ Reclaiming' /\ Allocating' /\ Writing' /\ Restarting' /\ Starting'
       /\ Answered'
  BY <1>1 DEF Reclaiming, Allocating, Writing, Restarting, Starting, Answered
<1>11. /\ Old /\ Buffered /\ spare.data = work.data /\ Fresh(spare.ws) /\ spare.ws.valid
  BY <1>1 DEF FInv, Reclaiming
<1>12. Homes(target, work) /\ (Stuffed(config, target, work) \/ Roomy(config, work.ws.q))
  BY <1>11, OldFacts
<1>13. SpareGood(config, target, work, spare)'
  <2>1. Holds(work.data, WorkBlk) /\ Others(target, work, WorkBlk)
    BY <1>12, BlockAssumption DEF Homes, Others, Home
  <2>2. Others(target, work', WorkBlk)
    BY <2>1, OthersWork
  <2> QED BY <1>1, <1>11, <2>1, <2>2 DEF SpareGood, Fresh, IsValidWorkSpace
<1>14. FlushesReclaim' /\ ~FlushesRecord'
  BY <1>6 DEF FlushesReclaim, FlushesRecord
<1>15. FlushSource'
  BY <1>1, <1>4, <1>11, <1>13, <1>14 DEF FlushSource, Buffered, Emptied, Fresh
<1>16. ~IsValidWorkSpace(work.ws)'
  BY <1>3 DEF IsValidWorkSpace
<1>17. \/ Stuffed(config, target, work)' /\ work'.data = spare'.data
       \/ Roomy(config, work.ws.q)'
  <2>1. Homes(target, work')
    BY <1>3, <1>12, HomesData
  <2> QED BY <1>1, <1>3, <1>11, <1>12, <2>1 DEF Stuffed
<1>18. Flushing'
  BY <1>1, <1>14, <1>15, <1>16, <1>17 DEF Flushing
<1> QED BY <1>1, <1>7, <1>8, <1>9, <1>10, <1>18 DEF FInv

LEMMA ReclaimRestoreStep ==
  ASSUME TypeOK, FInv, Sound(config), ReclaimRestore
  PROVE  TypeOK' /\ FInv'
<1>1. /\ half' = half /\ pc = "rc_restore" /\ pc' = Head(stk) /\ stk' = Tail(stk)
      /\ target' = target /\ work' = work /\ spare' = d.sbuf /\ op' = op /\ status' = status
      /\ applied' = applied /\ config' = config /\ calls' = calls /\ crashes' = crashes
      /\ fails' = fails /\ d' = d
  BY DEF ReclaimRestore, Return, bounds
<1>2. d.sbuf \in AreaOf(config.queue)
  BY Basics, MemoryFields
<1>3. TypeOK'
  BY <1>1, <1>2, TypeParts, Zenon
<1>4. /\ pc' \in {"reread", "i_first", "i_restart"}
      /\ pc' = "reread" => FullStk(op.f, stk')
      /\ pc' # "reread" => stk' = <<>> /\ op.f = "init"
  <2>1. ReclaimStk(op.f, stk)
    BY <1>1 DEF FInv, Position
  <2> QED BY <1>1, <2>1, ReclaimReturn
<1>5. Position(pc, stk, op.f)'
  BY <1>1, <1>4 DEF Position
<1>6. Called' /\ Progress'
  <2>1. op.f = "write" => stk' = <<"w_start">>
    BY <1>1, StackTop DEF FInv, Position, ReclaimStk
  <2>2. op.f = "write" => ~applied
    BY <1>1, StackTop DEF FInv, Position, ReclaimStk, Progress, Late
  <2>3. op.f = "write" => pc' = "reread" /\ Head(stk') # "t_dest"
    BY <1>4, <2>1, StackTop
  <2>4. Progress'
    BY <1>1, <2>2, <2>3 DEF Progress, Late
  <2> QED BY <1>1, <2>4 DEF FInv, Called
<1>7. d.h = 1 /\ d.r = 2 /\ Loaded({"vacant"})
  BY <1>1 DEF FInv, Reclaiming
<1>8. /\ d'.ws = work'.ws /\ d'.h < QueueSize' /\ FlashAt(1, 2, {"vacant"})'
      /\ \A S : "vacant" \in S => Is(config', target', work', spare', d'.h, d'.r, S)
  <2>1. Is(config, target, work, d.sbuf, 1, 2, {"vacant"})
    BY <1>7, IsSpare DEF Loaded, FlashAt
  <2>2. \A S : "vacant" \in S => Is(config, target, work, d.sbuf, 1, 2, S)
    BY <2>1, IsMore
  <2> QED BY <1>1, <1>7, <2>1, <2>2 DEF FlashAt, Loaded, QueueSize
<1>9. Loaded(Every)' /\ Loaded({"vacant", "tidy", "pending"})'
  BY <1>8 DEF Loaded, FlashAt, Every
<1>10. /\ pc' # "refresh" /\ Flushing' /\ Allocating' /\ Writing' /\ Restarting' /\ Answered'
  BY <1>4 DEF Flushing, Allocating, Writing, Restarting, Answered
<1>11. Starting'
  BY <1>4, <1>9 DEF Starting
<1>12. Reclaiming'
  BY <1>4, <1>8 DEF Reclaiming
<1> QED BY <1>1, <1>3, <1>5, <1>6, <1>10, <1>11, <1>12 DEF FInv

LEMMA FlushSetSpareValidStep ==
  ASSUME TypeOK, FInv, Sound(config), FlushSetSpareValid
  PROVE  TypeOK' /\ FInv'
<1>1. /\ half' = half /\ stk' = stk /\ pc = "f_spare" /\ pc' = "f_invalid"
      /\ target' = target /\ work' = work /\ d' = d /\ op' = op /\ status' = status
      /\ applied' = applied /\ config' = config /\ calls' = calls /\ crashes' = crashes
      /\ fails' = fails
  BY DEF FlushSetSpareValid, Goto, bounds
<1>2. /\ spare' \in AreaOf(config.queue) /\ spare'.data = spare.data
      /\ spare'.ws \in SpaceOf(config.queue)
      /\ spare'.ws.valid /\ spare'.ws.sig = spare.ws.sig /\ spare'.ws.invalid = spare.ws.invalid
      /\ spare'.ws.q = spare.ws.q
  BY Basics, SetValid DEF FlushSetSpareValid
<1>3. spare \in AreaOf(config.queue) /\ spare.ws \in SpaceOf(config.queue)
  BY Basics
<1>4. spare.ws.valid = TRUE /\ spare'.ws.valid = TRUE
  <2>1. spare.ws.valid
    BY <1>1 DEF FInv, Flushing, FlushSource, SpareGood, IsValidWorkSpace
  <2> QED BY <1>2, <1>3, <2>1, SpaceFields
<1>5. spare' = spare
  <2>1. spare'.ws = spare.ws
    BY <1>2, <1>3, <1>4, SpaceEqual DEF SameHeader
  <2> QED BY <1>2, <1>3, <2>1, AreaEqual
<1>6. TypeOK'
  BY <1>1, <1>2, TypeParts, Zenon
<1>7. Position(pc, stk, op.f)' /\ Called' /\ Progress'
  BY <1>1 DEF FInv, Position, Called, Progress, Late
<1>8. /\ pc' # "refresh" /\ Reclaiming' /\ Allocating' /\ Writing' /\ Restarting' /\ Starting'
      /\ Answered'
  BY <1>1 DEF Reclaiming, Allocating, Writing, Restarting, Starting, Answered
<1>9. Flushing'
  BY <1>1, <1>5 DEF FInv, Flushing, FlushSource, FlushesRecord, FlushesReclaim, FlashAt, Emptied
<1> QED BY <1>1, <1>6, <1>7, <1>8, <1>9 DEF FInv

(* The copy of the spare block, with an erased state, that is flushed. *)
LEMMA FlatCopy ==
  ASSUME NEW n, NEW s \in AreaOf(n), NEW u,
         u = [s EXCEPT !.ws.sig = TRUE, !.ws.valid = FALSE, !.ws.invalid = FALSE]
  PROVE  u \in AreaOf(n) /\ Flat(u, s)
<1> DEFINE v == [s.ws EXCEPT !.sig = TRUE, !.valid = FALSE, !.invalid = FALSE]
<1>1. s.ws \in SpaceOf(n)
  BY AreaFields
<1>2. v \in SpaceOf(n) /\ v.sig /\ ~v.valid /\ ~v.invalid /\ v.q = s.ws.q
  BY <1>1 DEF SpaceOf
<1>3. u = [s EXCEPT !.ws = v]
  OBVIOUS
<1>4. PICK x : x = v
  OBVIOUS
<1> HIDE DEF v
<1>5. u \in AreaOf(n) /\ u.data = s.data /\ u.ws = x
  BY <1>2, <1>3, <1>4 DEF AreaOf
<1> QED BY <1>2, <1>4, <1>5 DEF Flat

LEMMA SetMemoryValid ==
  ASSUME NEW n, NEW m \in MemoryOf(n)
  PROVE  LET u == [m EXCEPT !.ws.valid = TRUE, !.ws.invalid = FALSE] IN
         /\ u \in MemoryOf(n) /\ u.h = m.h /\ u.r = m.r
         /\ u.ws.sig = m.ws.sig /\ u.ws.valid = TRUE /\ u.ws.invalid = FALSE /\ u.ws.q = m.ws.q
<1> DEFINE u == [m EXCEPT !.ws.valid = TRUE, !.ws.invalid = FALSE]
<1>1. PICK v : v = [m.ws EXCEPT !.valid = TRUE, !.invalid = FALSE]
  OBVIOUS
<1>2. m.ws \in SpaceOf(n)
  BY MemoryFields
<1>3. /\ v \in SpaceOf(n) /\ v.sig = m.ws.sig /\ v.q = m.ws.q
      /\ v.valid = TRUE /\ v.invalid = FALSE
  BY <1>1, <1>2 DEF SpaceOf
<1>4. u = [m EXCEPT !.ws = v]
  BY <1>1
<1>5. u \in MemoryOf(n) /\ u.ws = v /\ u.h = m.h /\ u.r = m.r
  BY <1>3, <1>4 DEF MemoryOf
<1> QED BY <1>3, <1>5

LEMMA FlushSetWorkInvalidStep ==
  ASSUME TypeOK, FInv, Sound(config), FlushSetWorkInvalid
  PROVE  TypeOK' /\ FInv'
<1>1. /\ half' = half /\ stk' = stk /\ pc = "f_invalid" /\ pc' = "f_erase"
      /\ target' = target /\ spare' = spare /\ op' = op /\ status' = status
      /\ applied' = applied /\ config' = config /\ calls' = calls /\ crashes' = crashes
      /\ fails' = fails
  BY DEF FlushSetWorkInvalid, Goto, bounds
<1>2. /\ config \in Config /\ work \in AreaOf(config.queue) /\ d \in MemoryOf(config.queue)
      /\ spare \in AreaOf(config.queue)
  BY Basics
<1>3. /\ work' \in AreaOf(config.queue) /\ work'.data = work.data /\ work'.ws.invalid
      /\ work'.ws.sig = work.ws.sig /\ work'.ws.q = work.ws.q
  BY <1>2, SetInvalid DEF FlushSetWorkInvalid
<1>4. PICK b : b = [spare EXCEPT !.ws.sig = TRUE, !.ws.valid = FALSE, !.ws.invalid = FALSE]
  OBVIOUS
<1>5. b \in AreaOf(config.queue) /\ Flat(b, spare)
  BY <1>2, <1>4, FlatCopy
<1>6. d' = [d EXCEPT !.buf = b, !.ws.invalid = TRUE]
  BY <1>4 DEF FlushSetWorkInvalid
<1>7. /\ d' \in MemoryOf(config.queue) /\ d'.h = d.h /\ d'.r = d.r /\ d'.buf = b
      /\ d'.ws.sig = d.ws.sig /\ d'.ws.q = d.ws.q
  <2>1. PICK v : v = [d.ws EXCEPT !.invalid = TRUE]
    OBVIOUS
  <2>2. d.ws \in SpaceOf(config.queue)
    BY Basics
  <2>3. v \in SpaceOf(config.queue) /\ v.sig = d.ws.sig /\ v.q = d.ws.q
    BY <2>1, <2>2 DEF SpaceOf
  <2>4. d' = [d EXCEPT !.buf = b, !.ws = v]
    BY <1>6, <2>1
  <2>5. d' \in MemoryOf(config.queue) /\ d'.ws = v /\ d'.h = d.h /\ d'.r = d.r /\ d'.buf = b
    BY <1>2, <1>5, <2>3, <2>4 DEF MemoryOf
  <2> QED BY <2>3, <2>5
<1>8. TypeOK'
  BY <1>1, <1>3, <1>7, TypeParts, Zenon
<1>9. Position(pc, stk, op.f)' /\ Called' /\ Progress'
  BY <1>1 DEF FInv, Position, Called, Progress, Late
<1>10. /\ pc' # "refresh" /\ Reclaiming' /\ Allocating' /\ Writing' /\ Restarting' /\ Starting'
       /\ Answered'
  BY <1>1 DEF Reclaiming, Allocating, Writing, Restarting, Starting, Answered
<1>11. FlushSource'
  <2>1. FlushSource
    BY <1>1 DEF FInv, Flushing
  <2>2. Others(target, work', WorkBlk) <=> Others(target, work, WorkBlk)
    BY OthersWork
  <2> QED BY <1>1, <1>7, <2>1, <2>2
          DEF FlushSource, FlushesRecord, FlushesReclaim, Emptied, SpareGood, Backup, Near
<1>12. ~IsValidWorkSpace(work.ws)'
  BY <1>3 DEF IsValidWorkSpace
<1>13. \/ Stuffed(config, target, work)' /\ work'.data = spare'.data
       \/ Roomy(config, work.ws.q)'
  <2>1. CASE FlushesRecord
    <3>1. Open(config, work.ws.q, d.h, d.r, Spared)
      BY <1>1, <2>1 DEF FInv, Flushing, FlashAt, Is, Pend
    <3>2. Shape(config, work.ws.q, d.h, d.r)
      BY <3>1 DEF Shape, Open, OpenHeader
    <3> QED BY <1>1, <1>2, <1>3, <3>2, ShapeRoomy
  <2>2. CASE ~FlushesRecord
    <3>1. \/ Stuffed(config, target, work) /\ work.data = spare.data
          \/ Roomy(config, work.ws.q)
      BY <1>1, <2>2 DEF FInv, Flushing
    <3>2. Homes(target, work') <=> Homes(target, work)
      BY <1>3, HomesData
    <3> QED BY <1>1, <1>3, <3>1, <3>2 DEF Stuffed
  <2> QED BY <2>1, <2>2
<1>14. Flat(d.buf, spare)'
  BY <1>1, <1>5, <1>7 DEF Flat
<1>15. Flushing'
  BY <1>1, <1>11, <1>12, <1>13, <1>14 DEF Flushing
<1> QED BY <1>1, <1>8, <1>9, <1>10, <1>15 DEF FInv

LEMMA FlushEraseStep ==
  ASSUME TypeOK, FInv, Sound(config), FlushErase
  PROVE  TypeOK' /\ FInv'
<1>1. config \in Config /\ ~config.split /\ Erased \in AreaOf(config.queue)
  BY Basics, ErasedFacts
<1>2. /\ work' = Erased /\ half' = FALSE /\ stk' = stk /\ pc = "f_erase" /\ pc' = "f_copy"
      /\ target' = target /\ spare' = spare /\ d' = d /\ op' = op /\ status' = status
      /\ applied' = applied /\ config' = config /\ calls' = calls /\ crashes' = crashes
      /\ fails' = fails
  BY <1>1 DEF FlushErase, EraseStep, EraseEnds, Goto, bounds
<1>3. TypeOK'
  BY <1>1, <1>2, TypeParts, Zenon
<1>4. Position(pc, stk, op.f)' /\ Called' /\ Progress'
  BY <1>2 DEF FInv, Position, Called, Progress, Late
<1>5. /\ pc' # "refresh" /\ Reclaiming' /\ Allocating' /\ Writing' /\ Restarting' /\ Starting'
      /\ Answered'
  BY <1>2 DEF Reclaiming, Allocating, Writing, Restarting, Starting, Answered
<1>6. FlushSource'
  <2>1. FlushSource
    BY <1>2 DEF FInv, Flushing
  <2>2. Others(target, work', WorkBlk) <=> Others(target, work, WorkBlk)
    BY OthersWork
  <2> QED BY <1>2, <2>1, <2>2
          DEF FlushSource, FlushesRecord, FlushesReclaim, Emptied, SpareGood, Backup, Near
<1>7. work' = Erased'
  BY <1>2 DEF Erased, BlankSpace, BlankQueue, Cells, QueueSize
<1>8. Flushing'
  BY <1>2, <1>6, <1>7 DEF FInv, Flushing
<1> QED BY <1>2, <1>3, <1>4, <1>5, <1>8 DEF FInv

LEMMA FlushCopyStep ==
  ASSUME TypeOK, FInv, Sound(config), FlushCopy
  PROVE  TypeOK' /\ FInv'
<1>1. d.buf \in AreaOf(config.queue)
  BY Basics, MemoryFields
<1>2. /\ work' = d.buf /\ half' = half /\ stk' = stk /\ pc = "f_copy" /\ pc' = "f_valid"
      /\ target' = target /\ spare' = spare /\ d' = d /\ op' = op /\ status' = status
      /\ applied' = applied /\ config' = config /\ calls' = calls /\ crashes' = crashes
      /\ fails' = fails
  BY DEF FlushCopy, Goto, bounds
<1>3. TypeOK'
  BY <1>1, <1>2, TypeParts, Zenon
<1>4. Position(pc, stk, op.f)' /\ Called' /\ Progress'
  BY <1>2 DEF FInv, Position, Called, Progress, Late
<1>5. /\ pc' # "refresh" /\ Reclaiming' /\ Allocating' /\ Writing' /\ Restarting' /\ Starting'
      /\ Answered'
  BY <1>2 DEF Reclaiming, Allocating, Writing, Restarting, Starting, Answered
<1>6. FlushSource'
  <2>1. FlushSource
    BY <1>2 DEF FInv, Flushing
  <2>2. Others(target, work', WorkBlk) <=> Others(target, work, WorkBlk)
    BY OthersWork
  <2> QED BY <1>2, <2>1, <2>2
          DEF FlushSource, FlushesRecord, FlushesReclaim, Emptied, SpareGood, Backup, Near
<1>7. Flushing'
  BY <1>2, <1>6 DEF FInv, Flushing
<1> QED BY <1>2, <1>3, <1>4, <1>5, <1>7 DEF FInv

LEMMA StackEqual ==
  /\ \A a, b : <<a>> = <<b>> <=> a = b
  /\ \A a, b, c : <<a>> # <<b, c>>
  /\ \A a, b, c, e : <<a, b>> = <<c, e>> <=> a = c /\ b = e
  /\ \A a, b, c, e : <<a>> # <<b, c, e>>
  /\ \A a, b, c, e, g : <<a, b>> # <<c, e, g>>
OBVIOUS

(* Where a refresh returns to. *)
LEMMA FullReturn ==
  ASSUME NEW f, NEW s, FullStk(f, s)
  PROVE  \/ f = "init" /\ s = <<"i_valid">> /\ Head(s) = "i_valid" /\ Tail(s) = <<>>
         \/ f = "init" /\ s = <<"i_first">> /\ Head(s) = "i_first" /\ Tail(s) = <<>>
         \/ f = "init" /\ s = <<"b_check", "i_done">> /\ Head(s) = "b_check" /\ Tail(s) = <<"i_done">>
         \/ f = "allocate" /\ s = <<"a_check">> /\ Head(s) = "a_check" /\ Tail(s) = <<>>
         \/ f = "write" /\ s = <<"w_start">> /\ Head(s) = "w_start" /\ Tail(s) = <<>>
         \/ f = "restart" /\ s = <<"s_check">> /\ Head(s) = "s_check" /\ Tail(s) = <<>>
         \/ f = "abort" /\ s = <<"b_check">> /\ Head(s) = "b_check" /\ Tail(s) = <<>>
         \/ f = "last" /\ s = <<"l_check">> /\ Head(s) = "l_check" /\ Tail(s) = <<>>
<1>1. CASE f = "init" /\ s = <<"i_valid">>
  BY <1>1, StackTop
<1>2. CASE f = "init" /\ s = <<"i_first">>
  BY <1>2, StackTop
<1>3. CASE f = "init" /\ s = <<"b_check", "i_done">>
  BY <1>3, StackTop
<1>4. CASE f = "allocate" /\ s = <<"a_check">>
  BY <1>4, StackTop
<1>5. CASE f = "write" /\ s = <<"w_start">>
  BY <1>5, StackTop
<1>6. CASE f = "restart" /\ s = <<"s_check">>
  BY <1>6, StackTop
<1>7. CASE f = "abort" /\ s = <<"b_check">>
  BY <1>7, StackTop
<1>8. CASE f = "last" /\ s = <<"l_check">>
  BY <1>8, StackTop
<1> QED BY <1>1, <1>2, <1>3, <1>4, <1>5, <1>6, <1>7, <1>8 DEF FullStk

(* Where a refresh that does not reclaim returns to. *)
LEMMA RoomReturn ==
  ASSUME NEW f, NEW s, RoomStk(f, s)
  PROVE  \/ f = "init" /\ s = <<"b_check", "refresh", "i_first">> /\ Head(s) = "b_check" /\ Tail(s) = <<"refresh", "i_first">>
         \/ f = "init" /\ s = <<"b_check", "i_last">> /\ Head(s) = "b_check" /\ Tail(s) = <<"i_last">>
         \/ f = "init" /\ s = <<"b_check", "i_tail">> /\ Head(s) = "b_check" /\ Tail(s) = <<"i_tail">>
         \/ f = "init" /\ s = <<"s_check", "i_abort">> /\ Head(s) = "s_check" /\ Tail(s) = <<"i_abort">>
         \/ f = "write" /\ s = <<"a_check", "w_check">> /\ Head(s) = "a_check" /\ Tail(s) = <<"w_check">>
         \/ f = "last" /\ s = <<"b_check", "l_abort">> /\ Head(s) = "b_check" /\ Tail(s) = <<"l_abort">>
<1>1. CASE f = "init" /\ s = <<"b_check", "refresh", "i_first">>
  BY <1>1, StackTop
<1>2. CASE f = "init" /\ s = <<"b_check", "i_last">>
  BY <1>2, StackTop
<1>3. CASE f = "init" /\ s = <<"b_check", "i_tail">>
  BY <1>3, StackTop
<1>4. CASE f = "init" /\ s = <<"s_check", "i_abort">>
  BY <1>4, StackTop
<1>5. CASE f = "write" /\ s = <<"a_check", "w_check">>
  BY <1>5, StackTop
<1>6. CASE f = "last" /\ s = <<"b_check", "l_abort">>
  BY <1>6, StackTop
<1> QED BY <1>1, <1>2, <1>3, <1>4, <1>5, <1>6 DEF RoomStk

(* A refresh that finds the queue full calls a reclaim. *)
LEMMA FullPush ==
  ASSUME NEW f, NEW s, FullStk(f, s)
  PROVE  /\ ReclaimStk(f, <<"reread">> \o s)
         /\ <<"reread">> \o s \notin {<<"i_first">>, <<"i_restart">>}
         /\ Head(<<"reread">> \o s) = "reread" /\ <<"reread">> \o s # <<>>
         /\ s = <<"i_valid">> => <<"reread">> \o s = <<"reread", "i_valid">>
<1>1. CASE f = "init" /\ s = <<"i_valid">>
  <2>1. <<"reread">> \o s = <<"reread", "i_valid">>
    BY <1>1, StackPush
  <2> QED BY <1>1, <2>1, StackTop, StackEqual DEF ReclaimStk
<1>2. CASE f = "init" /\ s = <<"i_first">>
  <2>1. <<"reread">> \o s = <<"reread", "i_first">>
    BY <1>2, StackPush
  <2> QED BY <1>2, <2>1, StackTop, StackEqual DEF ReclaimStk
<1>3. CASE f = "init" /\ s = <<"b_check", "i_done">>
  <2>1. <<"reread">> \o s = <<"reread", "b_check", "i_done">>
    BY <1>3, StackPush
  <2> QED BY <1>3, <2>1, StackTop, StackEqual DEF ReclaimStk
<1>4. CASE f = "allocate" /\ s = <<"a_check">>
  <2>1. <<"reread">> \o s = <<"reread", "a_check">>
    BY <1>4, StackPush
  <2> QED BY <1>4, <2>1, StackTop, StackEqual DEF ReclaimStk
<1>5. CASE f = "write" /\ s = <<"w_start">>
  <2>1. <<"reread">> \o s = <<"reread", "w_start">>
    BY <1>5, StackPush
  <2> QED BY <1>5, <2>1, StackTop, StackEqual DEF ReclaimStk
<1>6. CASE f = "restart" /\ s = <<"s_check">>
  <2>1. <<"reread">> \o s = <<"reread", "s_check">>
    BY <1>6, StackPush
  <2> QED BY <1>6, <2>1, StackTop, StackEqual DEF ReclaimStk
<1>7. CASE f = "abort" /\ s = <<"b_check">>
  <2>1. <<"reread">> \o s = <<"reread", "b_check">>
    BY <1>7, StackPush
  <2> QED BY <1>7, <2>1, StackTop, StackEqual DEF ReclaimStk
<1>8. CASE f = "last" /\ s = <<"l_check">>
  <2>1. <<"reread">> \o s = <<"reread", "l_check">>
    BY <1>8, StackPush
  <2> QED BY <1>8, <2>1, StackTop, StackEqual DEF ReclaimStk
<1> QED BY <1>1, <1>2, <1>3, <1>4, <1>5, <1>6, <1>7, <1>8 DEF FullStk

(* Where the flush of the working block returns to. *)
LEMMA FlushReturn ==
  ASSUME NEW f, NEW s, FlushStk(f, s)
  PROVE  /\ s # <<>>
         /\ \/ Head(s) = "rc_clear" /\ ReclaimStk(f, Tail(s))
            \/ Head(s) = "t_dest" /\ RecordStk(f, Tail(s))
            \/ /\ f = "init" /\ Head(s) = "refresh"
               /\ Tail(s) = <<"b_check", "refresh", "i_first">>
<1>1. CASE f = "init" /\ s = <<"refresh", "b_check", "refresh", "i_first">>
  BY <1>1, StackTop
<1> QED BY <1>1 DEF FlushStk

LEMMA FlushSetWorkValidStep ==
  ASSUME TypeOK, FInv, Sound(config), FlushSetWorkValid
  PROVE  TypeOK' /\ FInv'
<1>1. /\ half' = half /\ pc = "f_valid" /\ pc' = Head(stk) /\ stk' = Tail(stk)
      /\ target' = target /\ spare' = spare /\ op' = op /\ status' = status
      /\ applied' = applied /\ config' = config /\ calls' = calls /\ crashes' = crashes
      /\ fails' = fails
  BY DEF FlushSetWorkValid, Return, bounds
<1>2. /\ config \in Config /\ work \in AreaOf(config.queue) /\ d \in MemoryOf(config.queue)
      /\ spare \in AreaOf(config.queue) /\ DOMAIN spare.ws.q = 1..config.queue
      /\ d.ws \in SpaceOf(config.queue) /\ config.queue \in Nat /\ 2 <= config.queue
  BY Basics
<1>3. FlushSource /\ Flat(work, spare)
  BY <1>1 DEF FInv, Flushing
<1>4. /\ work' \in AreaOf(config.queue) /\ work'.data = spare.data
      /\ work'.ws \in SpaceOf(config.queue)
      /\ work'.ws.sig /\ work'.ws.valid /\ ~work'.ws.invalid /\ work'.ws.q = spare.ws.q
  BY <1>2, <1>3, SetValid DEF FlushSetWorkValid, Flat
<1>5. /\ d' \in MemoryOf(config.queue) /\ d'.h = d.h /\ d'.r = d.r
      /\ d'.ws.sig = d.ws.sig /\ d'.ws.valid = TRUE /\ d'.ws.invalid = FALSE /\ d'.ws.q = d.ws.q
  BY <1>2, SetMemoryValid DEF FlushSetWorkValid
<1>6. TypeOK'
  BY <1>1, <1>4, <1>5, TypeParts, Zenon
<1>7. /\ IsValidWorkSpace(work'.ws) /\ Homes(target, work')
      /\ Holds(spare.data, WorkBlk) /\ Others(target, work', WorkBlk)
  <2>1. Holds(spare.data, WorkBlk) /\ Others(target, work, WorkBlk)
    BY <1>3 DEF FlushSource, SpareGood
  <2>2. Others(target, work', WorkBlk)
    BY <2>1, OthersWork
  <2>3. Home(target, work', WorkBlk) = spare.data
    BY <1>4 DEF Home
  <2>4. Homes(target, work')
    BY <2>1, <2>2, <2>3, HomesOthers, BlockAssumption
  <2> QED BY <1>4, <2>1, <2>2, <2>4 DEF IsValidWorkSpace
<1>8. ASSUME spare.ws.q = Erasure(config)
      PROVE  Is(config, target, work', spare, 1, 2, {"vacant"})
  <2>1. Vacant(config, Erasure(config), 1, 2)
    BY <1>2, BlankShape DEF Erasure
  <2> QED BY <1>4, <1>7, <1>8, <2>1 DEF Is
<1>9. ASSUME NEW h, NEW r, Backup(config, spare, h, r)
      PROVE  /\ Is(config, target, work', spare, h, r, {"pending"})
             /\ work'.ws.q[r].body = WorkBlk
  <2>1. Open(config, work'.ws.q, h, r, Spared) /\ work'.ws.q[r].body = WorkBlk
    BY <1>4, <1>9 DEF Backup
  <2>2. Copy(work'.ws, spare.ws, r)
    BY <1>3, <1>4, <2>1 DEF Copy, FlushSource, SpareGood, Open
  <2>3. Pend(config, target, work', spare, h, r)
    BY <1>7, <2>1, <2>2 DEF Pend
  <2> QED BY <1>7, <2>1, <2>3 DEF Is
<1>10. stk # <<>> /\ FlushStk(op.f, stk)
  BY <1>1, FlushReturn DEF FInv, Position
<1>11. Called' /\ half' = FALSE
  BY <1>1 DEF FInv, Called
<1>12. CASE Head(stk) = "rc_clear" /\ ReclaimStk(op.f, Tail(stk))
  <2>1. Position(pc, stk, op.f)'
    BY <1>1, <1>12 DEF Position
  <2>2. Progress'
    <3>1. stk' # <<>> /\ Head(stk') # "t_dest"
      BY <1>1, <1>12, ReclaimReturn
    <3> QED BY <1>1, <1>10, <1>12, <3>1 DEF FInv, Progress, Late
  <2>3. Emptied /\ spare.ws.q = Erasure(config)
    BY <1>3, <1>10, <1>12 DEF FlushSource, FlushesReclaim
  <2>4. d'.ws = work'.ws
    <3>1. d'.ws \in SpaceOf(config.queue) /\ d'.ws.sig \in BOOLEAN
      BY <1>5, MemoryFields, SpaceFields
    <3>2. /\ work'.ws.sig \in BOOLEAN /\ work'.ws.valid \in BOOLEAN /\ work'.ws.invalid \in BOOLEAN
      BY <1>4, SpaceFields
    <3>3. SameHeader(d'.ws, work'.ws)
      BY <1>4, <1>5, <2>3, <3>1, <3>2 DEF SameHeader, Emptied
    <3>4. d'.ws.q = work'.ws.q
      BY <1>4, <1>5, <2>3 DEF Emptied
    <3> QED BY <1>4, <3>1, <3>3, <3>4, SpaceEqual
  <2>5. d'.h = 1 /\ d'.r = 2
    BY <1>5, <2>3 DEF Emptied
  <2>6. Loaded({"vacant"})'
    BY <1>1, <1>2, <1>8, <2>3, <2>4, <2>5 DEF Loaded, FlashAt, QueueSize
  <2>7. /\ pc' # "refresh" /\ Flushing' /\ Allocating' /\ Writing' /\ Restarting' /\ Starting'
        /\ Answered'
    BY <1>1, <1>12 DEF Flushing, Allocating, Writing, Restarting, Starting, Answered
  <2>8. Reclaiming'
    BY <1>1, <1>12, <2>5, <2>6 DEF Reclaiming
  <2> QED BY <1>6, <1>11, <2>1, <2>2, <2>7, <2>8 DEF FInv
<1>13. CASE Head(stk) = "t_dest" /\ RecordStk(op.f, Tail(stk))
  <2>1. Position(pc, stk, op.f)'
    BY <1>1, <1>13 DEF Position
  <2>2. Progress'
    BY <1>1, <1>10, <1>13 DEF FInv, Progress, Late
  <2>3. Backup(config, spare, d.h, d.r) /\ Near(d.ws.q, spare.ws.q, d.h)
    BY <1>3, <1>10, <1>13 DEF FlushSource, FlushesRecord
  <2>4. /\ Is(config, target, work', spare, d'.h, d'.r, {"pending"})
        /\ work'.ws.q[d'.r].body = WorkBlk
    BY <1>5, <1>9, <2>3
  <2>5. Near(d.ws.q, work.ws.q, d.h)'
    BY <1>4, <1>5, <2>3 DEF Near
  <2>6. d'.ws.q[d'.r].body = WorkBlk
    <3>1. OpenHeader(config, spare.ws.q, d.h) /\ d.r \in (d.h + 1)..(d.h + Records(config))
      BY <2>3 DEF Backup, Open
    <3>2. d.h \in 1..(config.queue - 1) /\ d.h + Records(config) <= config.queue
      BY <1>2, <3>1, OpenBounds
    <3>3. Records(config) \in Nat
      BY Basics
    <3>4. d.r \in 1..config.queue /\ d.r # d.h
      BY <1>2, <3>1, <3>2, <3>3
    <3>5. d.ws.q[d.r] = spare.ws.q[d.r]
      BY <1>2, <2>3, <3>4 DEF Near
    <3> QED BY <1>5, <2>3, <3>5 DEF Backup
  <2>7. Home(target, work, Record.body)' = spare'.data
    BY <1>1, <1>4, <2>6 DEF Home, Record
  <2>8. /\ pc' # "refresh" /\ Flushing' /\ Allocating' /\ Reclaiming' /\ Restarting' /\ Starting'
        /\ Answered'
    BY <1>1, <1>13 DEF Flushing, Allocating, Reclaiming, Restarting, Starting, Answered
  <2>9. Writing'
    BY <1>1, <1>13, <2>4, <2>5, <2>7 DEF Writing, FlashAt
  <2> QED BY <1>6, <1>11, <2>1, <2>2, <2>8, <2>9 DEF FInv
<1>14. CASE /\ op.f = "init" /\ Head(stk) = "refresh"
            /\ Tail(stk) = <<"b_check", "refresh", "i_first">>
  <2>1. Position(pc, stk, op.f)' /\ Progress'
    BY <1>1, <1>14 DEF Position, RoomStk, Progress
  <2>2. Flushed'
    <3>1. CASE spare.ws.q = Erasure(config)
      BY <1>1, <1>8, <3>1 DEF Flushed
    <3>2. CASE \E h, r \in 1..config.queue : Backup(config, spare, h, r)
      <4>1. PICK h \in 1..config.queue, r \in 1..config.queue : Backup(config, spare, h, r)
        BY <3>2
      <4>2. /\ Is(config, target, work', spare, h, r, {"pending"})
            /\ work'.ws.q[r].body = WorkBlk
        BY <1>9, <4>1
      <4> QED BY <1>1, <1>4, <4>1, <4>2 DEF Flushed, Cells, QueueSize
    <3> QED BY <1>3, <3>1, <3>2 DEF FlushSource, SpareGood
  <2>3. Refreshing'
    BY <1>1, <1>14, <2>2, StackEqual DEF Refreshing
  <2>4. /\ Reclaiming' /\ Flushing' /\ Allocating' /\ Writing' /\ Restarting' /\ Starting'
        /\ Answered'
    BY <1>1, <1>14 DEF Reclaiming, Flushing, Allocating, Writing, Restarting, Starting, Answered
  <2> QED BY <1>6, <1>11, <2>1, <2>3, <2>4 DEF FInv
<1> QED BY <1>10, <1>12, <1>13, <1>14, FlushReturn

(* A queue in one of the states has room, or none and nothing pending. *)
LEMMA SomeRoomy ==
  ASSUME NEW cf \in Config, Sound(cf), NEW t, NEW w, NEW s, NEW S, Some(cf, t, w, s, S)
  PROVE  \/ Roomy(cf, w.ws.q)
         \/ "vacant" \in S /\ Stuffed(cf, t, w) /\ IsValidWorkSpace(w.ws)
<1>1. PICK h \in 1..(cf.queue + 1), r \in 2..(cf.queue + 2) : Is(cf, t, w, s, h, r, S)
  BY DEF Some
<1>2. cf.queue \in Nat
  BY SoundBasics
<1>3. CASE h < cf.queue
  <2>1. Shape(cf, w.ws.q, h, r)
    BY <1>1, <1>3, IsBounds
  <2> QED BY <2>1, ShapeRoomy
<1>4. CASE h >= cf.queue
  <2>1. "vacant" \in S /\ Homes(t, w) /\ Spent(cf, w.ws.q) /\ IsValidWorkSpace(w.ws)
    BY <1>1, <1>4, IsBounds
  <2> QED BY <2>1 DEF Stuffed, IsValidWorkSpace
<1> QED BY <1>2, <1>3, <1>4

LEMMA ErasureRoomy ==
  ASSUME NEW cf \in Config, Sound(cf)
  PROVE  Roomy(cf, Erasure(cf))
<1>1. Shape(cf, Erasure(cf), 1, 2)
  BY BlankShape DEF Erasure
<1> QED BY <1>1, ShapeRoomy

(* Memory agrees with flash when the work space was read. *)
LEMMA ReadSpace ==
  ASSUME TypeOK, Sound(config), Roomy(config, work.ws.q),
         d' = [d EXCEPT !.ws = work.ws, !.h = FtwGetLastWriteHeader(work.ws.q),
                        !.r = FtwGetLastWriteRecord(work.ws.q, FtwGetLastWriteHeader(work.ws.q))]
  PROVE  /\ d' \in MemoryOf(config.queue) /\ d'.ws = work.ws /\ d'.hd = d.hd /\ d'.rc = d.rc
         /\ \A h, r, S : Is(config, target, work, spare, h, r, S) =>
              h = d'.h /\ r = d'.r /\ h < config.queue
<1>1. /\ config \in Config /\ config.queue \in Nat /\ DOMAIN work.ws.q = 1..config.queue
      /\ d \in MemoryOf(config.queue) /\ work.ws \in SpaceOf(config.queue)
  BY Basics
<1>2. PICK x \in 1..config.queue, y \in 1..config.queue : Shape(config, work.ws.q, x, y)
  BY DEF Roomy
<1>3. /\ FtwGetLastWriteHeader(work.ws.q) = x /\ FtwGetLastWriteRecord(work.ws.q, x) = y
      /\ ~Full(work.ws.q)
  BY <1>1, <1>2, ShapeFound
<1>4. d' = [d EXCEPT !.ws = work.ws, !.h = x, !.r = y]
  BY <1>3
<1>5. PICK v : v = work.ws
  OBVIOUS
<1>6. /\ d' \in MemoryOf(config.queue) /\ d'.ws = v /\ d'.hd = d.hd /\ d'.rc = d.rc
      /\ d'.h = x /\ d'.r = y
  BY <1>1, <1>2, <1>4, <1>5 DEF MemoryOf
<1>7. ASSUME NEW h, NEW r, NEW S, Is(config, target, work, spare, h, r, S)
      PROVE  h = x /\ r = y /\ h < config.queue
  <2>1. h < config.queue /\ Shape(config, work.ws.q, h, r)
    BY <1>1, <1>3, <1>7, IsRoomy
  <2>2. FtwGetLastWriteHeader(work.ws.q) = h /\ FtwGetLastWriteRecord(work.ws.q, h) = r
    BY <1>1, <2>1, ShapeFound
  <2> QED BY <1>3, <2>1, <2>2
<1> QED BY <1>5, <1>6, <1>7

(* A refresh finds room, or a queue without room and nothing pending. *)
LEMMA RefreshRoomy ==
  ASSUME TypeOK, Sound(config), Refreshing, FullStk(op.f, stk) \/ RoomStk(op.f, stk)
  PROVE  \/ Roomy(config, work.ws.q)
         \/ /\ Stuffed(config, target, work) /\ FullStk(op.f, stk)
            /\ IsValidWorkSpace(work.ws) \/ stk = <<"i_valid">>
<1>1. config \in Config /\ config.queue \in Nat
  BY Basics
<1>2. \A S : Flash(S) => \/ Roomy(config, work.ws.q)
                         \/ "vacant" \in S /\ Stuffed(config, target, work)
                            /\ IsValidWorkSpace(work.ws)
  BY <1>1, SomeRoomy DEF Flash
<1>3. CASE stk = <<"i_valid">> /\ FullStk(op.f, stk)
  <2>1. CASE Flash(Every)
    BY <1>2, <1>3, <2>1
  <2>2. CASE FromSpare(config, target, work, spare)
    BY <2>2 DEF FromSpare
  <2>3. CASE Stale(config, target, work)
    BY <1>3, <2>3 DEF Stale
  <2>4. CASE Never(config, target, work, spare)
    BY <1>1, <2>4, ErasureRoomy DEF Never, Unused
  <2> QED BY <1>3, <2>1, <2>2, <2>3, <2>4 DEF Refreshing, Durable, Flash
<1>4. CASE stk # <<"i_valid">> /\ FullStk(op.f, stk)
  <2>1. Flash(Every) \/ Flash(Settled) \/ Flash(Serving(fails))
    BY <1>4 DEF FullStk, Refreshing
  <2> QED BY <1>2, <1>4, <2>1
<1>5. CASE stk = <<"b_check", "refresh", "i_first">>
  <2>1. Flushed
    BY <1>5 DEF Refreshing
  <2>2. CASE Is(config, target, work, spare, 1, 2, {"vacant"})
    <3>1. 1 < config.queue
      BY Basics
    <3> QED BY <1>1, <2>2, <3>1, IsBounds, ShapeRoomy
  <2>3. CASE \E h, r \in Cells : Is(config, target, work, spare, h, r, {"pending"})
    <3>1. Flash({"pending"})
      BY <1>1, <2>3, IsSome DEF Flash
    <3> QED BY <1>2, <3>1
  <2> QED BY <2>1, <2>2, <2>3 DEF Flushed
<1>6. CASE stk = <<"a_check", "w_check">>
  <2>1. d.hd < config.queue /\ Is(config, target, work, spare, d.hd, d.rc, {"vacant"})
    BY <1>6 DEF Refreshing, FlashAt, QueueSize
  <2> QED BY <1>1, <2>1, IsBounds, ShapeRoomy
<1>7. CASE RoomStk(op.f, stk) /\ stk # <<"b_check", "refresh", "i_first">>
           /\ stk # <<"a_check", "w_check">>
  <2>1. \/ Flash({"torn", "open"}) \/ Flash({"written"}) \/ Flash({"pending"})
        \/ Flash(Serving(fails) \cap {"tidy", "written"})
    BY <1>7 DEF RoomStk, Refreshing
  <2> QED BY <1>2, <2>1
<1> QED BY <1>3, <1>4, <1>5, <1>6, <1>7

LEMMA WorkSpaceRefreshStep ==
  ASSUME TypeOK, FInv, Sound(config), WorkSpaceRefresh
  PROVE  TypeOK' /\ FInv'
<1>1. /\ half' = half /\ pc = "refresh"
      /\ target' = target /\ work' = work /\ spare' = spare /\ op' = op /\ status' = status
      /\ applied' = applied /\ config' = config /\ calls' = calls /\ crashes' = crashes
      /\ fails' = fails
  BY DEF WorkSpaceRefresh, bounds, flash
<1>2. /\ config \in Config /\ d \in MemoryOf(config.queue) /\ work.ws \in SpaceOf(config.queue)
      /\ DOMAIN work.ws.q = 1..config.queue
  BY Basics
<1>3. Refreshing /\ (FullStk(op.f, stk) \/ RoomStk(op.f, stk))
  BY <1>1 DEF FInv, Position
<1>4. Called' /\ half' = FALSE
  BY <1>1 DEF FInv, Called
<1>5. op.f = "write" => ~applied
  <2>1. op.f = "write" => Head(stk) # "t_dest"
    BY <1>3, StackTop DEF FullStk, RoomStk
  <2> QED BY <1>1, <2>1 DEF FInv, Progress, Late
<1>6. CASE Full(work.ws.q)
  <2>1. d' = [d EXCEPT !.ws = work.ws] /\ pc' = "reclaim" /\ stk' = <<"reread">> \o stk
    BY <1>6 DEF WorkSpaceRefresh, Call
  <2>2. d' \in MemoryOf(config.queue) /\ d'.ws = work.ws
    BY <1>2, <2>1, SetMemorySpace
  <2>3. TypeOK'
    BY <1>1, <2>2, TypeParts, Zenon
  <2>4. /\ Stuffed(config, target, work) /\ FullStk(op.f, stk)
        /\ IsValidWorkSpace(work.ws) \/ stk = <<"i_valid">>
    BY <1>2, <1>3, <1>6, RefreshRoomy, RoomyNotFull
  <2>5. /\ ReclaimStk(op.f, stk') /\ stk' \notin {<<"i_first">>, <<"i_restart">>}
        /\ Head(stk') = "reread" /\ stk' # <<>>
        /\ stk = <<"i_valid">> => stk' = <<"reread", "i_valid">>
    BY <2>1, <2>4, FullPush
  <2>6. Position(pc, stk, op.f)' /\ Progress'
    BY <1>1, <1>5, <2>1, <2>5 DEF Position, Progress, Late
  <2>7. Old'
    BY <1>1, <2>4, <2>5 DEF Old
  <2>8. Reclaiming'
    BY <1>1, <2>1, <2>2, <2>7 DEF Reclaiming
  <2>9. /\ pc' # "refresh" /\ Flushing' /\ Allocating' /\ Writing' /\ Restarting' /\ Starting'
        /\ Answered'
    BY <2>1 DEF Flushing, Allocating, Writing, Restarting, Starting, Answered
  <2> QED BY <1>4, <2>3, <2>6, <2>8, <2>9 DEF FInv
<1>7. CASE ~Full(work.ws.q)
  <2>1. /\ pc' = Head(stk) /\ stk' = Tail(stk)
        /\ d' = [d EXCEPT !.ws = work.ws, !.h = FtwGetLastWriteHeader(work.ws.q),
                   !.r = FtwGetLastWriteRecord(work.ws.q, FtwGetLastWriteHeader(work.ws.q))]
    BY <1>7 DEF WorkSpaceRefresh, Return
  <2>2. Roomy(config, work.ws.q)
    BY <1>2, <1>3, <1>7, RefreshRoomy, SpentFound DEF Stuffed
  <2>3. /\ d' \in MemoryOf(config.queue) /\ d'.ws = work.ws /\ d'.hd = d.hd /\ d'.rc = d.rc
        /\ \A h, r, S : Is(config, target, work, spare, h, r, S) =>
             h = d'.h /\ r = d'.r /\ h < config.queue
    BY <2>1, <2>2, ReadSpace
  <2>4. TypeOK'
    BY <1>1, <2>3, TypeParts, Zenon
  <2>5. \A h, r, S : Is(config, target, work, spare, h, r, S) =>
          d'.ws = work'.ws /\ d'.h < QueueSize' /\ Is(config', target', work', spare', d'.h, d'.r, S)
    BY <1>1, <2>3 DEF QueueSize
  <2>6. \A S : Some(config, target, work, spare, S) =>
          d'.ws = work'.ws /\ d'.h < QueueSize' /\ Is(config', target', work', spare', d'.h, d'.r, S)
    BY <2>5 DEF Some
  <2>7. CASE FullStk(op.f, stk)
    <3>1. Position(pc, stk, op.f)'
      BY <1>1, <2>1, <2>7, FullReturn, Zenon DEF Position
    <3>2. /\ Progress'
      <4>1. op.f = "write" => pc' = "w_start" /\ stk' = <<>>
        BY <2>1, <2>7, FullReturn
      <4> QED BY <1>1, <1>5, <4>1 DEF Progress, Late
    <3>3. /\ pc' = "i_valid" => stk = <<"i_valid">>
          /\ pc' = "i_first" => stk = <<"i_first">>
          /\ pc' = "b_check" =>
               \/ stk = <<"b_check">> /\ stk' = <<>>
               \/ stk = <<"b_check", "i_done">> /\ stk' = <<"i_done">>
          /\ pc' = "a_check" => stk = <<"a_check">> /\ stk' = <<>>
          /\ pc' = "w_start" => stk = <<"w_start">>
          /\ pc' = "s_check" => stk = <<"s_check">> /\ stk' = <<>>
          /\ pc' = "l_check" => stk = <<"l_check">>
          /\ pc' \in {"i_valid", "i_first", "b_check", "a_check", "w_start", "s_check", "l_check"}
      BY <2>1, <2>7, FullReturn
    <3>4. /\ pc' # "refresh" /\ Reclaiming' /\ Flushing' /\ Answered'
      BY <3>3 DEF Reclaiming, Flushing, Answered
    <3>5. Starting'
      <4>1. ASSUME pc' = "i_valid"
            PROVE  Loaded(Every)' \/ FromSpare(config, target, work, spare)' \/ Never(config, target, work, spare)'
        <5>1. Durable(config, target, work, spare)
          BY <1>3, <3>3, <4>1 DEF Refreshing
        <5>2. ~Stale(config, target, work)
          BY <1>2, <1>7, SpentFound DEF Stale, Stuffed
        <5> QED BY <1>1, <2>6, <5>1, <5>2 DEF Durable, Loaded, FlashAt
      <4>2. ASSUME pc' = "i_first" PROVE Loaded(Every)'
        BY <1>3, <2>6, <3>3, <4>2 DEF Refreshing, Flash, Loaded, FlashAt
      <4> QED BY <1>1, <2>3, <3>3, <4>1, <4>2 DEF Starting
    <3>6. Restarting'
      <4>1. ASSUME pc' = "b_check" PROVE Loaded(Settled)'
        BY <1>3, <2>6, <3>3, <4>1 DEF Refreshing, Flash, Loaded, FlashAt
      <4>2. ASSUME pc' \in {"s_check", "l_check"} PROVE Loaded(Serving(fails))'
        BY <1>1, <1>3, <2>6, <3>3, <4>2 DEF Refreshing, Flash, Loaded, FlashAt
      <4> QED BY <3>3, <4>1, <4>2, StackEqual, StackTop DEF Restarting
    <3>7. Allocating'
      <4>1. ASSUME pc' = "a_check" PROVE Loaded(Serving(fails))'
        BY <1>1, <1>3, <2>6, <3>3, <4>1 DEF Refreshing, Flash, Loaded, FlashAt
      <4> QED BY <3>3, <4>1, StackTop DEF Allocating, Nested
    <3>8. Writing'
      <4>1. ASSUME pc' = "w_start" PROVE Loaded(Serving(fails))'
        BY <1>1, <1>3, <2>6, <3>3, <4>1 DEF Refreshing, Flash, Loaded, FlashAt
      <4> QED BY <3>3, <4>1 DEF Writing
    <3> QED BY <1>4, <2>4, <3>1, <3>2, <3>4, <3>5, <3>6, <3>7, <3>8 DEF FInv
  <2>8. CASE RoomStk(op.f, stk)
    <3>1. Position(pc, stk, op.f)'
      BY <1>1, <2>1, <2>8, RoomReturn, Zenon DEF Position
    <3>2. Progress'
      <4>1. op.f = "write" => pc' = "a_check" /\ stk' = <<"w_check">>
        BY <2>1, <2>8, RoomReturn
      <4> QED BY <1>1, <1>5, <4>1, StackTop DEF Progress, Late
    <3>3. /\ pc' = "b_check" =>
               \/ stk = <<"b_check", "refresh", "i_first">> /\ stk' = <<"refresh", "i_first">>
               \/ stk = <<"b_check", "i_last">> /\ stk' = <<"i_last">>
               \/ stk = <<"b_check", "i_tail">> /\ stk' = <<"i_tail">>
               \/ stk = <<"b_check", "l_abort">> /\ stk' = <<"l_abort">>
          /\ pc' = "a_check" => stk = <<"a_check", "w_check">> /\ stk' = <<"w_check">>
          /\ pc' = "s_check" => stk = <<"s_check", "i_abort">> /\ stk' = <<"i_abort">>
          /\ pc' \in {"b_check", "a_check", "s_check"}
      BY <2>1, <2>8, RoomReturn
    <3>4. /\ pc' # "refresh" /\ Reclaiming' /\ Flushing' /\ Answered' /\ Writing' /\ Starting'
      BY <3>3 DEF Reclaiming, Flushing, Answered, Writing, Starting
    <3>5. Allocating'
      <4>1. ASSUME pc' = "a_check"
            PROVE  Loaded({"vacant"})' /\ d'.hd = d'.h /\ d'.rc = d'.r /\ Records(config') = 1
        <5>1. Is(config, target, work, spare, d.hd, d.rc, {"vacant"}) /\ Records(config) = 1
          BY <1>3, <3>3, <4>1 DEF Refreshing, FlashAt
        <5>2. d.hd = d'.h /\ d.rc = d'.r
          BY <2>3, <5>1
        <5> QED BY <1>1, <2>3, <2>5, <5>1, <5>2 DEF Loaded, FlashAt
      <4> QED BY <3>3, <4>1, StackTop DEF Allocating, Nested
    <3>6. Restarting'
      <4>1. ASSUME pc' = "b_check", stk = <<"b_check", "refresh", "i_first">>
            PROVE  \/ Loaded({"vacant"})'
                   \/ Loaded({"pending"})' /\ Record'.body = WorkBlk /\ work'.data = spare'.data
        <5>1. Flushed
          BY <1>3, <4>1 DEF Refreshing
        <5>2. CASE Is(config, target, work, spare, 1, 2, {"vacant"})
          BY <2>5, <5>2 DEF Loaded, FlashAt
        <5>3. CASE \E h, r \in Cells :
                     /\ Is(config, target, work, spare, h, r, {"pending"})
                     /\ work.ws.q[r].body = WorkBlk /\ work.data = spare.data
          <6>1. PICK h, r : /\ Is(config, target, work, spare, h, r, {"pending"})
                            /\ work.ws.q[r].body = WorkBlk /\ work.data = spare.data
            BY <5>3
          <6>2. r = d'.r
            BY <2>3, <6>1
          <6>3. Loaded({"pending"})'
            BY <2>5, <6>1 DEF Loaded, FlashAt
          <6>4. Record'.body = WorkBlk
            BY <2>3, <6>1, <6>2 DEF Record
          <6> QED BY <1>1, <6>1, <6>3, <6>4
        <5> QED BY <5>1, <5>2, <5>3 DEF Flushed
      <4>2. ASSUME pc' = "b_check", stk = <<"b_check", "i_last">> PROVE Loaded({"torn", "open"})'
        BY <1>3, <2>6, <4>2 DEF Refreshing, Flash, Loaded, FlashAt
      <4>3. ASSUME pc' = "b_check", stk = <<"b_check", "i_tail">> PROVE Loaded({"written"})'
        BY <1>3, <2>6, <4>3 DEF Refreshing, Flash, Loaded, FlashAt
      <4>4. ASSUME pc' = "b_check", stk = <<"b_check", "l_abort">>
            PROVE  Loaded(Serving(fails) \cap {"tidy", "written"})'
        BY <1>1, <1>3, <2>6, <4>4 DEF Refreshing, Flash, Loaded, FlashAt
      <4>5. ASSUME pc' = "s_check" PROVE Loaded({"pending"})'
        BY <1>3, <2>6, <3>3, <4>5 DEF Refreshing, Flash, Loaded, FlashAt
      <4> QED BY <3>3, <4>1, <4>2, <4>3, <4>4, <4>5, StackEqual, StackTop DEF Restarting
    <3> QED BY <1>4, <2>4, <3>1, <3>2, <3>4, <3>5, <3>6 DEF FInv
  <2> QED BY <1>3, <2>7, <2>8
<1> QED BY <1>6, <1>7

LEMMA RereadStep ==
  ASSUME TypeOK, FInv, Sound(config), Reread
  PROVE  TypeOK' /\ FInv'
<1>1. /\ half' = half /\ pc = "reread" /\ pc' = Head(stk) /\ stk' = Tail(stk)
      /\ target' = target /\ work' = work /\ spare' = spare /\ op' = op /\ status' = status
      /\ applied' = applied /\ config' = config /\ calls' = calls /\ crashes' = crashes
      /\ fails' = fails
      /\ d' = [d EXCEPT !.ws = work.ws, !.h = FtwGetLastWriteHeader(work.ws.q),
                 !.r = FtwGetLastWriteRecord(work.ws.q, FtwGetLastWriteHeader(work.ws.q))]
  BY DEF Reread, Return, bounds, flash
<1>2. config \in Config /\ 1 < config.queue /\ config.queue \in Nat
  BY Basics
<1>3. Is(config, target, work, spare, 1, 2, {"vacant"}) /\ FullStk(op.f, stk)
  BY <1>1 DEF FInv, Reclaiming, FlashAt, Position
<1>4. Roomy(config, work.ws.q)
  BY <1>2, <1>3, IsBounds, ShapeRoomy
<1>5. /\ d' \in MemoryOf(config.queue) /\ d'.ws = work.ws /\ d'.h = 1 /\ d'.r = 2
  BY <1>1, <1>3, <1>4, ReadSpace
<1>6. TypeOK'
  BY <1>1, <1>5, TypeParts, Zenon
<1>7. \A S : "vacant" \in S => d'.ws = work'.ws /\ d'.h < QueueSize' /\ Is(config', target', work', spare', d'.h, d'.r, S)
  BY <1>1, <1>2, <1>3, <1>5, IsMore DEF QueueSize
<1>8. Loaded(Every)' /\ Loaded(Settled)' /\ Loaded(Serving(fails))'
  BY <1>7 DEF Loaded, FlashAt, Every, Settled, Serving
<1>9. Called' /\ half' = FALSE
  BY <1>1 DEF FInv, Called
<1>10. Position(pc, stk, op.f)'
  BY <1>1, <1>3, FullReturn, Zenon DEF Position
<1>11. Progress'
  <2>1. op.f = "write" => pc' = "w_start" /\ stk' = <<>> /\ Head(stk) # "t_dest"
    BY <1>1, <1>3, FullReturn
  <2> QED BY <1>1, <2>1 DEF FInv, Progress, Late
<1>12. /\ pc' = "b_check" => stk' = <<>> \/ stk' = <<"i_done">>
       /\ pc' = "a_check" => stk' = <<>>
       /\ pc' = "s_check" => stk' = <<>>
       /\ pc' \in {"i_valid", "i_first", "b_check", "a_check", "w_start", "s_check", "l_check"}
  BY <1>1, <1>3, FullReturn
<1>13. /\ pc' # "refresh" /\ Reclaiming' /\ Flushing' /\ Answered'
  BY <1>12 DEF Reclaiming, Flushing, Answered
<1>14. Starting'
  BY <1>1, <1>5, <1>8, <1>12 DEF Starting
<1>15. Restarting'
  BY <1>8, <1>12, StackEqual, StackTop DEF Restarting
<1>16. Allocating' /\ Writing'
  BY <1>8, <1>12, StackTop DEF Allocating, Nested, Writing
<1> QED BY <1>6, <1>9, <1>10, <1>11, <1>13, <1>14, <1>15, <1>16 DEF FInv

(* A service returns to its caller. *)
LEMMA Idle ==
  ASSUME TypeOK, Sound(config), Called, config' = config, op' = op,
         pc' = "idle", stk' = <<>>, half' = FALSE, Flash(Serving(fails))', Answered'
  PROVE  FInv'
<1>1. Position(pc, stk, op.f)' /\ Called' /\ Progress'
  BY DEF Position, Called, Progress
<1>2. /\ pc' # "refresh" /\ Reclaiming' /\ Flushing' /\ Allocating' /\ Writing' /\ Restarting'
  BY DEF Reclaiming, Flushing, Allocating, Writing, Restarting
<1>3. Starting'
  BY DEF Starting
<1> QED BY <1>1, <1>2, <1>3 DEF FInv

LEMMA LoadedFlash ==
  ASSUME TypeOK, Sound(config), NEW S, Is(config, target, work, spare, d.h, d.r, S)
  PROVE  /\ Some(config, target, work, spare, S)
         /\ \A T : S \subseteq T => Some(config, target, work, spare, T)
<1>1. Some(config, target, work, spare, S)
  BY Basics, IsSome
<1> QED BY <1>1, SomeMore

(* What the last header says of the state. *)
LEMMA HeaderBits ==
  ASSUME NEW cf \in Config, Sound(cf), NEW t, NEW w, DOMAIN w.ws.q = 1..cf.queue, NEW s, NEW h, NEW r, NEW S,
         Is(cf, t, w, s, h, r, S), h < cf.queue
  PROVE  /\ h \in 1..(cf.queue - 1) /\ r \in 2..cf.queue /\ r # h
         /\ \/ "vacant" \in S /\ Is(cf, t, w, s, h, r, {"vacant"})
               /\ w.ws.q[h] = BlankCell /\ w.ws.q[r] = BlankCell /\ r = h + 1
            \/ "vacant" \notin S /\ HEADER_ALLOCATED \in w.ws.q[h].bits
            \/ /\ HEADER_ALLOCATED \in w.ws.q[h].bits
               /\ Is(cf, t, w, s, h, r, S \ {"vacant"})
<1>1. cf.queue \in Nat /\ h \in 1..(cf.queue - 1) /\ r \in 2..cf.queue /\ h < r
  BY SoundBasics, IsBounds, ShapeBounds
<1>2. CASE "vacant" \in S /\ Homes(t, w) /\ Vacant(cf, w.ws.q, h, r)
  <2>1. w.ws.q[h] = BlankCell /\ w.ws.q[r] = BlankCell /\ r = h + 1
    BY <1>1, <1>2 DEF Vacant, Clean
  <2>2. Is(cf, t, w, s, h, r, {"vacant"})
    BY <1>2 DEF Is
  <2> QED BY <1>1, <1>2, <2>1, <2>2
<1>3. CASE ~("vacant" \in S /\ Homes(t, w) /\ Vacant(cf, w.ws.q, h, r))
  <2>1. HEADER_ALLOCATED \in w.ws.q[h].bits
    BY <1>3 DEF Is, Torn, Open, OpenHeader, Written, Pend
  <2>2. Is(cf, t, w, s, h, r, S \ {"vacant"})
    BY <1>3 DEF Is
  <2> QED BY <1>1, <2>1, <2>2
<1> QED BY <1>2, <1>3

LEMMA AllocateCheckStep ==
  ASSUME TypeOK, FInv, Sound(config), AllocateCheck
  PROVE  TypeOK' /\ FInv'
<1>1. /\ half' = half /\ pc = "a_check" /\ target' = target /\ work' = work /\ spare' = spare
      /\ op' = op /\ applied' = applied /\ config' = config /\ calls' = calls
      /\ crashes' = crashes /\ fails' = fails
  BY DEF AllocateCheck, bounds, flash
<1>2. /\ config \in Config /\ config.queue \in Nat /\ 2 <= config.queue
      /\ config.queue < AllOnes /\ AllOnes \in Nat
      /\ d \in MemoryOf(config.queue) /\ DOMAIN work.ws.q = 1..config.queue
      /\ Records(config) \in 1..(config.queue - 1) /\ QueueSize = config.queue
  BY Basics DEF QueueSize
<1>3. NoData \in MemoryOf(config.queue)
  BY <1>2, ErasedFacts
<1>4. Loaded(IF stk = <<>> THEN Serving(fails) ELSE {"vacant"}) /\ Nested /\ Called
  BY <1>1 DEF FInv, Allocating
<1>5. \/ op.f = "allocate" /\ stk = <<>>
      \/ op.f = "write" /\ stk = <<"w_check">> /\ Number = 1 /\ Records(config) = 1
  BY <1>1, <1>4 DEF FInv, Position, Number, Nested
<1>6. WriteTotalSize(1) = 2
  BY <1>2 DEF WriteTotalSize
<1>7. /\ d.ws = work.ws /\ d.h < config.queue
      /\ FlashAt(d.h, d.r, IF stk = <<>> THEN Serving(fails) ELSE {"vacant"})
  BY <1>2, <1>4 DEF Loaded
<1>8. ASSUME stk = <<>>, NEW s, s # "SUCCESS", Finish(s, d)
      PROVE  TypeOK' /\ FInv'
  <2>1. status' = s /\ pc' = "idle" /\ stk' = <<>> /\ d' = NoData
    BY <1>8 DEF Finish, Goto
  <2>2. TypeOK'
    BY <1>1, <1>3, <2>1, TypeParts, Zenon
  <2>3. Flash(Serving(fails))'
    BY <1>1, <1>7, <1>8, LoadedFlash DEF FlashAt, Flash
  <2>4. Answered'
    BY <1>1, <1>5, <1>8, <2>1, StackTop DEF Answered
  <2> QED BY <1>1, <1>4, <2>1, <2>2, <2>3, <2>4, Idle DEF FInv
<1>9. stk # <<>> => Header.bits = {}
  <2> SUFFICES ASSUME stk # <<>> PROVE Header.bits = {}
    OBVIOUS
  <2>1. Is(config, target, work, spare, d.h, d.r, {"vacant"})
    BY <1>7 DEF FlashAt
  <2>2. Vacant(config, work.ws.q, d.h, d.r)
    BY <2>1 DEF Is
  <2>3. d.h \in 1..config.queue
    BY <1>2, MemoryFields
  <2>4. work.ws.q[d.h] = BlankCell
    BY <1>2, <2>2, <2>3 DEF Vacant, Clean
  <2> QED BY <1>7, <2>4, BlankFacts DEF Header
<1>10. CASE WriteTotalSize(Number) > QueueSize /\ Finish("BUFFER_TOO_SMALL", d)
  <2>1. stk = <<>>
    BY <1>2, <1>5, <1>6, <1>10
  <2> QED BY <1>8, <1>10, <2>1
<1>11. CASE /\ WriteTotalSize(Number) <= QueueSize
            /\ Header.bits \cap {HEADER_ALLOCATED, WRITES_ALLOCATED} # {}
            /\ Finish("ACCESS_DENIED", d)
  BY <1>8, <1>9, <1>11
<1>12. CASE /\ WriteTotalSize(Number) <= QueueSize
            /\ Header.bits \cap {HEADER_ALLOCATED, WRITES_ALLOCATED} = {}
            /\ d' = [d EXCEPT !.off = d.h]
            /\ \/ d.h - 1 + WriteTotalSize(Number) > QueueSize /\ Call("reclaim", <<"a_header">>)
               \/ d.h - 1 + WriteTotalSize(Number) <= QueueSize /\ Goto("a_header")
            /\ status' = status
  <2>1. Is(config, target, work, spare, d.h, d.r, {"vacant"})
    BY <1>2, <1>7, <1>12, HeaderBits DEF Header, FlashAt
  <2>2. Shape(config, work.ws.q, d.h, d.r)
    BY <1>2, <1>7, <2>1, IsBounds
  <2>3. d.h \in 1..(config.queue - 1) /\ d.h + Records(config) <= config.queue
    BY <1>2, <2>2, ShapeBounds
  <2>4. Number = Records(config)
    <3>1. CASE op.f = "allocate"
      <4>1. PICK n \in config.writes : op = [f |-> "allocate", n |-> n]
        BY <1>4, <3>1 DEF Called
      <4>2. Number = n
        BY <4>1 DEF Number
      <4>3. n \in Nat
        BY <1>2, <4>1 DEF Config
      <4>4. n # Records(config) => n >= config.queue /\ n # AllOnes
        BY <1>2, <4>1, SoundBasics DEF Uniform
      <4>5. n # AllOnes => WriteTotalSize(n) = 1 + n
        BY DEF WriteTotalSize
      <4> QED BY <1>2, <1>12, <4>2, <4>3, <4>4, <4>5
    <3> QED BY <1>5, <3>1
  <2>5. WriteTotalSize(Number) = 1 + Records(config)
    BY <1>2, <2>4 DEF WriteTotalSize
  <2>6. pc' = "a_header" /\ stk' = stk
    BY <1>2, <1>12, <2>3, <2>5 DEF Goto
  <2>7. /\ d' \in MemoryOf(config.queue) /\ d'.ws = d.ws /\ d'.h = d.h /\ d'.r = d.r /\ d'.off = d.h
        /\ d'.hd = d.hd /\ d'.rc = d.rc
    <3>1. d.h \in 0..config.queue
      BY <1>2, <2>3
    <3> QED BY <1>2, <1>12, <3>1 DEF MemoryOf
  <2>8. TypeOK'
    BY <1>1, <2>7, TypeParts, Zenon
  <2>9. Position(pc, stk, op.f)' /\ Called' /\ Progress'
    BY <1>1, <1>4, <1>5, <2>6 DEF FInv, Position, Called, Progress, Late
  <2>10. /\ pc' # "refresh" /\ Reclaiming' /\ Flushing' /\ Writing' /\ Restarting' /\ Starting'
         /\ Answered'
    BY <2>6 DEF Reclaiming, Flushing, Writing, Restarting, Starting, Answered
  <2>11. Loaded({"vacant"})'
    BY <1>1, <1>2, <1>7, <2>1, <2>7 DEF Loaded, FlashAt, QueueSize
  <2>12. Nested' /\ Number' = Records(config')
    BY <1>1, <1>4, <2>4, <2>6, <2>7 DEF Nested, Number
  <2>13. Allocating'
    BY <2>6, <2>7, <2>11, <2>12 DEF Allocating
  <2> QED BY <1>1, <2>8, <2>9, <2>10, <2>13 DEF FInv
<1> QED BY <1>10, <1>11, <1>12 DEF AllocateCheck

(* Programming an erased cell writes it. *)
LEMMA ProgramBlank ==
  ASSUME NEW n, NEW c \in CellOf(n)
  PROVE  Program(BlankCell, c) = c
<1>1. BlankCell.bits = {} /\ BlankCell.body = Blank
  BY BlankFacts
<1>2. Program(BlankCell, c) = [bits |-> c.bits, body |-> c.body]
  BY <1>1 DEF Program
<1> QED BY <1>2 DEF CellOf

LEMMA AllocateHeaderStep ==
  ASSUME TypeOK, FInv, Sound(config), AllocateHeader
  PROVE  TypeOK' /\ FInv'
<1>1. /\ half' = half /\ pc = "a_header" /\ pc' = "a_writes" /\ stk' = stk
      /\ target' = target /\ spare' = spare /\ status' = status
      /\ op' = op /\ applied' = applied /\ config' = config /\ calls' = calls
      /\ crashes' = crashes /\ fails' = fails
  BY DEF AllocateHeader, Goto, bounds
<1>2. /\ config \in Config /\ config.queue \in Nat /\ 2 <= config.queue
      /\ d \in MemoryOf(config.queue) /\ DOMAIN work.ws.q = 1..config.queue
      /\ work \in AreaOf(config.queue) /\ DOMAIN d.ws.q = 1..config.queue
      /\ Records(config) \in 1..(config.queue - 1)
  BY Basics
<1>3. /\ d.off = d.h /\ Number = Records(config) /\ Nested
      /\ d.ws = work.ws /\ d.h < config.queue
      /\ IsValidWorkSpace(work.ws) /\ Homes(target, work) /\ Vacant(config, work.ws.q, d.h, d.r)
  BY <1>1 DEF FInv, Allocating, Loaded, FlashAt, Is, QueueSize
<1>4. PICK c : c = [bits |-> {HEADER_ALLOCATED}, body |-> Number]
  OBVIOUS
<1>5. /\ c \in CellOf(config.queue) /\ c.bits = {HEADER_ALLOCATED} /\ c.body = Records(config)
      /\ c.bits = {1}
  BY <1>2, <1>3, <1>4 DEF CellOf, HEADER_ALLOCATED
<1>6. d.h \in 1..config.queue /\ work.ws.q[d.h] = BlankCell /\ d.r = d.h + 1
  <2>1. d.h \in 1..config.queue
    BY <1>2, MemoryFields
  <2> QED BY <1>2, <1>3, <2>1 DEF Vacant, Clean
<1>7. work' = [work EXCEPT !.ws.q[d.h] = c]
  <2>1. Program(BlankCell, c) = c
    BY <1>5, ProgramBlank
  <2>2. work' = [work EXCEPT !.ws.q[d.off] = Program(work.ws.q[d.off], c)]
    BY <1>4, Zenon DEF AllocateHeader
  <2>3. Program(work.ws.q[d.off], c) = c
    BY <1>3, <1>6, <2>1
  <2> QED BY <1>3, <2>2, <2>3
<1>8. d' = [d EXCEPT !.ws.q[d.h] = c]
  BY <1>4, Zenon DEF AllocateHeader
<1>9. /\ work' \in AreaOf(config.queue) /\ work'.data = work.data
      /\ work'.ws \in SpaceOf(config.queue) /\ SameHeader(work'.ws, work.ws)
      /\ work'.ws.q = Put(work.ws.q, d.h, c)
  <2>1. work' = PutCell(work, d.h, c)
    BY <1>7 DEF PutCell
  <2> QED BY <1>2, <1>5, <1>6, <2>1, AreaCell
<1>10. /\ d' \in MemoryOf(config.queue) /\ d'.h = d.h /\ d'.r = d.r /\ d'.off = d.off
       /\ d'.hd = d.hd /\ d'.rc = d.rc
       /\ d'.ws \in SpaceOf(config.queue) /\ SameHeader(d'.ws, d.ws)
       /\ d'.ws.q = Put(d.ws.q, d.h, c)
  <2>1. d' = PutCell(d, d.h, c)
    BY <1>8 DEF PutCell
  <2> QED BY <1>2, <1>5, <1>6, <2>1, MemoryCell
<1>11. d'.ws = work'.ws
  <2>1. SameHeader(d'.ws, work'.ws) /\ d'.ws.q = work'.ws.q
    BY <1>3, <1>9, <1>10 DEF SameHeader
  <2> QED BY <1>9, <1>10, <2>1, SpaceEqual
<1>12. TypeOK'
  BY <1>1, <1>9, <1>10, TypeParts, Zenon
<1>13. Position(pc, stk, op.f)' /\ Called' /\ Progress'
  BY <1>1 DEF FInv, Position, Called, Progress, Late
<1>14. /\ pc' # "refresh" /\ Reclaiming' /\ Flushing' /\ Writing' /\ Restarting' /\ Starting'
       /\ Answered'
  BY <1>1 DEF Reclaiming, Flushing, Writing, Restarting, Starting, Answered
<1>15. /\ Open(config, work'.ws.q, d.h, d.r, {}) /\ work'.ws.q[d.r] = BlankCell
       /\ work'.ws.q[d.h] = c
  <2>1. WRITES_COMPLETED \notin c.bits /\ HEADER_ALLOCATED \in c.bits
    BY <1>5 DEF WRITES_COMPLETED, HEADER_ALLOCATED
  <2>2. Open(config, work'.ws.q, d.h, d.r, {}) /\ work'.ws.q[d.r] = BlankCell
    BY <1>2, <1>3, <1>5, <1>9, <2>1, HeaderWritten
  <2> QED BY <1>2, <1>6, <1>9, <2>2, PutFacts
<1>16. Homes(target, work') /\ IsValidWorkSpace(work'.ws)
  BY <1>3, <1>9, HomesData DEF SameHeader, IsValidWorkSpace
<1>17. Is(config, target, work', spare, d.h, d.r, {"tidy"})
  BY <1>15, <1>16 DEF Is, Tidy
<1>18. Loaded({"tidy"})'
  BY <1>1, <1>3, <1>10, <1>11, <1>17 DEF Loaded, FlashAt, QueueSize
<1>19. Nested' /\ Number' = Number
  BY <1>1, <1>3, <1>10 DEF Nested, Number
<1>20. Allocating'
  BY <1>1, <1>3, <1>4, <1>6, <1>10, <1>15, <1>18, <1>19 DEF Allocating
<1> QED BY <1>1, <1>12, <1>13, <1>14, <1>20 DEF FInv

LEMMA AllocateWritesStep ==
  ASSUME TypeOK, FInv, Sound(config), AllocateWrites
  PROVE  TypeOK' /\ FInv'
<1>1. /\ half' = half /\ pc = "a_writes" /\ work' = FtwUpdateFvState(work, d.off, WRITES_ALLOCATED)
      /\ target' = target /\ spare' = spare /\ Finish("SUCCESS", d)
      /\ op' = op /\ applied' = applied /\ config' = config /\ calls' = calls
      /\ crashes' = crashes /\ fails' = fails
  BY DEF AllocateWrites, bounds
<1>2. /\ config \in Config /\ config.queue \in Nat /\ 2 <= config.queue
      /\ d \in MemoryOf(config.queue) /\ DOMAIN work.ws.q = 1..config.queue
      /\ work \in AreaOf(config.queue) /\ QueueSize = config.queue
  BY Basics DEF QueueSize
<1>3. /\ d.off = d.h /\ Number = Records(config) /\ Nested
      /\ d.ws = work.ws /\ d.h < config.queue /\ d.r = d.h + 1 /\ work.ws.q[d.r] = BlankCell
      /\ work.ws.q[d.h] = [bits |-> {HEADER_ALLOCATED}, body |-> Number]
      /\ IsValidWorkSpace(work.ws) /\ Homes(target, work) /\ Open(config, work.ws.q, d.h, d.r, {})
  BY <1>1, <1>2 DEF FInv, Allocating, Loaded, FlashAt, Is
<1>4. d.h \in 1..config.queue
  BY <1>2, MemoryFields
<1>5. PICK c : c = Marked(work.ws.q[d.h], WRITES_ALLOCATED)
  OBVIOUS
<1>6. /\ work' \in AreaOf(config.queue) /\ work'.data = work.data
      /\ work'.ws \in SpaceOf(config.queue) /\ SameHeader(work'.ws, work.ws)
      /\ work'.ws.q = Put(work.ws.q, d.h, c) /\ work'.ws.q[d.h] = c
  <2>1. WRITES_ALLOCATED \in {1, 2, 4}
    BY DEF WRITES_ALLOCATED
  <2>3. work' = FtwUpdateFvState(work, d.h, WRITES_ALLOCATED)
    BY <1>1, <1>3
  <2> QED BY <1>2, <1>4, <1>5, <2>1, <2>3, AreaMark
<1>7. /\ c = [bits |-> {HEADER_ALLOCATED, WRITES_ALLOCATED}, body |-> Number]
      /\ c.body = work.ws.q[d.h].body /\ HEADER_ALLOCATED \in c.bits /\ WRITES_COMPLETED \notin c.bits
  <2>1. work.ws.q[d.h].bits = {HEADER_ALLOCATED} /\ work.ws.q[d.h].body = Number
    BY <1>3
  <2>2. {HEADER_ALLOCATED} \cup {WRITES_ALLOCATED} = {HEADER_ALLOCATED, WRITES_ALLOCATED}
    OBVIOUS
  <2>3. c = [bits |-> {HEADER_ALLOCATED, WRITES_ALLOCATED}, body |-> Number]
    BY <1>5, <2>1, <2>2 DEF Marked
  <2> QED BY <2>1, <2>3 DEF HEADER_ALLOCATED, WRITES_ALLOCATED, WRITES_COMPLETED
<1>8. Open(config, work'.ws.q, d.h, d.r, {}) /\ work'.ws.q[d.r] = BlankCell
  BY <1>2, <1>3, <1>6, <1>7, HeaderKept
<1>9. Homes(target, work') /\ IsValidWorkSpace(work'.ws)
  BY <1>3, <1>6, HomesData DEF SameHeader, IsValidWorkSpace
<1>10. Is(config, target, work', spare, d.h, d.r, {"tidy"})
  BY <1>8, <1>9 DEF Is, Tidy
<1>11. CASE op.f = "allocate" /\ stk = <<>>
  <2>1. status' = "SUCCESS" /\ pc' = "idle" /\ stk' = <<>> /\ d' = NoData
    BY <1>1, <1>11 DEF Finish, Goto
  <2>2. TypeOK'
    <3>1. NoData \in MemoryOf(config.queue)
      BY <1>2, ErasedFacts
    <3> QED BY <1>1, <1>6, <2>1, <3>1, TypeParts, Zenon
  <2>3. Flash(Serving(fails))'
    <3>1. Is(config, target, work', spare, d.h, d.r, Serving(fails'))
      BY <1>10, IsMore DEF Serving
    <3>2. Some(config, target, work', spare, Serving(fails'))
      BY <1>2, <3>1, IsSome
    <3> QED BY <1>1, <3>2 DEF Flash
  <2>4. Answered'
    <3>1. work'.ws.q[d.h] = [bits |-> {HEADER_ALLOCATED, WRITES_ALLOCATED}, body |-> op'.n]
      BY <1>1, <1>6, <1>7, <1>11 DEF Number
    <3>2. Is(config', target', work', spare', d.h, d.h + 1, {"tidy"})
      BY <1>1, <1>3, <1>10
    <3>3. PICK h : h = d.h
      OBVIOUS
    <3>4. h \in Cells' /\ h < QueueSize'
      BY <1>1, <1>3, <1>4, <3>3 DEF Cells, QueueSize
    <3>5. FlashAt(h, h + 1, {"tidy"})'
      BY <3>2, <3>3 DEF FlashAt
    <3> QED BY <1>1, <1>11, <3>1, <3>3, <3>4, <3>5 DEF Answered
  <2> QED BY <1>1, <2>1, <2>2, <2>3, <2>4, Idle DEF FInv
<1>12. CASE op.f = "write" /\ stk = <<"w_check">>
  <2>1. status' = "SUCCESS" /\ pc' = "w_check" /\ stk' = <<>> /\ d' = d
    BY <1>1, <1>12, StackTop DEF Finish, Return
  <2>2. TypeOK'
    BY <1>1, <1>2, <1>6, <2>1, TypeParts, Zenon
  <2>3. Position(pc, stk, op.f)' /\ Called' /\ Progress'
    BY <1>1, <1>12, <2>1, StackTop DEF FInv, Position, Called, Progress, Late
  <2>4. /\ pc' # "refresh" /\ Reclaiming' /\ Flushing' /\ Allocating' /\ Restarting' /\ Starting'
        /\ Answered'
    BY <2>1 DEF Reclaiming, Flushing, Allocating, Restarting, Starting, Answered
  <2>5. Near(d.ws.q, work.ws.q, d.h)'
    <3>1. Near(work.ws.q, work'.ws.q, d.h)
      <4>1. \A i \in DOMAIN work'.ws.q \ {d.h} : work.ws.q[i] = work'.ws.q[i]
        BY <1>2, <1>4, <1>6, PutFacts
      <4>2. WRITES_COMPLETED \notin work.ws.q[d.h].bits
        BY <1>3 DEF Open, OpenHeader
      <4> QED BY <1>6, <1>7, <4>1, <4>2 DEF Near
    <3> QED BY <1>3, <2>1, <3>1
  <2>6. Is(config, target, work', spare, d.h, d.r, Serving(fails) \ {"vacant"})
    BY <1>10, IsMore DEF Serving
  <2>7. Writing'
    BY <1>1, <1>3, <1>12, <2>1, <2>5, <2>6 DEF Writing, Nested, FlashAt
  <2> QED BY <1>1, <2>1, <2>2, <2>3, <2>4, <2>7 DEF FInv
<1> QED BY <1>1, <1>11, <1>12 DEF FInv, Position

(* Where FtwWriteRecord returns to. *)
LEMMA RecordReturn ==
  ASSUME NEW f, NEW s, RecordStk(f, s)
  PROVE  \/ f = "init" /\ Head(s) = "s_clear" /\ Tail(s) = <<"i_abort">>
         \/ f = "write" /\ Head(s) = "w_clear" /\ Tail(s) = <<>>
         \/ f = "restart" /\ Head(s) = "s_clear" /\ Tail(s) = <<>>
<1>1. CASE f = "init" /\ s = <<"s_clear", "i_abort">>
  BY <1>1, StackTop
<1>2. CASE f = "write" /\ s = <<"w_clear">>
  BY <1>2, StackTop
<1>3. CASE f = "restart" /\ s = <<"s_clear">>
  BY <1>3, StackTop
<1> QED BY <1>1, <1>2, <1>3 DEF RecordStk

(* The record, or the last header, is complete. *)
LEMMA RecordOver ==
  ASSUME TypeOK, Sound(config), FInv, pc \in {"t_dest", "t_done"},
         pc' = Head(stk), stk' = Tail(stk), half' = half, op' = op, applied' = applied,
         config' = config, fails' = fails, Flash(Settled)'
  PROVE  FInv'
<1>1. RecordStk(op.f, stk)
  BY DEF FInv, Position
<1>2. \/ op.f = "init" /\ pc' = "s_clear" /\ stk' = <<"i_abort">>
      \/ op.f = "write" /\ pc' = "w_clear" /\ stk' = <<>>
      \/ op.f = "restart" /\ pc' = "s_clear" /\ stk' = <<>>
  BY <1>1, RecordReturn
<1>3. Position(pc, stk, op.f)'
  BY <1>2 DEF Position
<1>4. Called' /\ Progress'
  BY <1>2 DEF FInv, Called, Progress, Late
<1>5. /\ pc' # "refresh" /\ Reclaiming' /\ Flushing' /\ Allocating' /\ Restarting' /\ Starting'
      /\ Answered'
  BY <1>2 DEF Reclaiming, Flushing, Allocating, Restarting, Starting, Answered
<1>6. Writing'
  BY <1>2 DEF Writing
<1> QED BY <1>3, <1>4, <1>5, <1>6 DEF FInv

(* The pending write the record in memory stands for. *)
LEMMA PendingFacts ==
  ASSUME TypeOK, Sound(config), FlashAt(d.h, d.r, {"pending"}), Near(d.ws.q, work.ws.q, d.h)
  PROVE  /\ d.h \in 1..(config.queue - 1) /\ d.h \in 1..config.queue
         /\ d.r \in 1..config.queue /\ d.r # d.h
         /\ Open(config, work.ws.q, d.h, d.r, Spared)
         /\ Record = work.ws.q[d.r] /\ Record.body \in config.targets /\ Record.body \in Block
         /\ Record.bits = Spared
         /\ IsValidWorkSpace(work.ws)
         /\ Holds(spare.data, Record.body) /\ Others(target, work, Record.body)
         /\ Record.body = WorkBlk => Copy(work.ws, spare.ws, d.r)
         /\ NumberOfWrites(d.ws.q[d.h]) = Records(config)
<1>1. /\ config \in Config /\ config.queue \in Nat /\ DOMAIN work.ws.q = 1..config.queue
      /\ Records(config) \in 1..(config.queue - 1)
  BY Basics
<1>2. IsValidWorkSpace(work.ws) /\ Pend(config, target, work, spare, d.h, d.r)
  BY DEF FlashAt, Is
<1>3. Open(config, work.ws.q, d.h, d.r, Spared)
  BY <1>2 DEF Pend
<1>4. /\ d.h \in 1..(config.queue - 1) /\ d.h \in 1..config.queue
      /\ d.h + Records(config) <= config.queue /\ d.r \in (d.h + 1)..(d.h + Records(config))
  BY <1>1, <1>3, OpenBounds DEF Open
<1>5. d.r \in 1..config.queue /\ d.r # d.h
  BY <1>1, <1>4
<1>6. Record = work.ws.q[d.r]
  BY <1>1, <1>5 DEF Near, Record
<1>7. work.ws.q[d.r].body \in config.targets /\ work.ws.q[d.r].bits = Spared
  BY <1>3 DEF Open, Spared
<1>8. config.targets \subseteq Block
  BY <1>1 DEF Config
<1>9. NumberOfWrites(d.ws.q[d.h]) = Records(config)
  <2>1. d.ws.q[d.h].body = Records(config)
    BY <1>3 DEF Near, Open, OpenHeader
  <2> QED BY <1>1, <2>1 DEF NumberOfWrites
<1> QED BY <1>2, <1>3, <1>4, <1>5, <1>6, <1>7, <1>8, <1>9 DEF Pend

LEMMA WriteRecordStartStep ==
  ASSUME TypeOK, FInv, Sound(config), WriteRecordStart
  PROVE  TypeOK' /\ FInv'
<1>1. /\ half' = half /\ pc = "t_start" /\ work' = work /\ op' = op /\ status' = status
      /\ applied' = applied /\ config' = config /\ calls' = calls /\ crashes' = crashes
      /\ fails' = fails
  BY DEF WriteRecordStart, bounds
<1>2. /\ config \in Config /\ config.queue \in Nat /\ spare \in AreaOf(config.queue)
      /\ d \in MemoryOf(config.queue) /\ target \in [Block \ {WorkBlk} -> Image]
      /\ work \in AreaOf(config.queue)
      /\ DOMAIN work.ws.q = 1..config.queue /\ DOMAIN spare.ws.q = 1..config.queue
  BY Basics DEF TypeOK
<1>3. FlashAt(d.h, d.r, {"pending"}) /\ Near(d.ws.q, work.ws.q, d.h) /\ RecordStk(op.f, stk)
  BY <1>1 DEF FInv, Writing, Position
<1>4. /\ d.r \in 1..config.queue /\ Open(config, work.ws.q, d.h, d.r, Spared)
      /\ Record = work.ws.q[d.r] /\ Record.bits = Spared
      /\ IsValidWorkSpace(work.ws) /\ Record.body \in Block
      /\ Holds(spare.data, Record.body) /\ Others(target, work, Record.body)
      /\ Record.body = WorkBlk => Copy(work.ws, spare.ws, d.r)
  BY <1>3, PendingFacts
<1>5. Called'
  BY <1>1 DEF FInv, Called
<1>6. CASE Record.body = WorkBlk
  <2>1. /\ spare' = FtwUpdateFvState(spare, d.r, SPARE_COMPLETED) /\ pc' = "f_spare"
        /\ stk' = <<"t_dest">> \o stk /\ target' = target /\ d' = d
    BY <1>6 DEF WriteRecordStart, Call
  <2>2. /\ spare' \in AreaOf(config.queue) /\ spare'.data = spare.data
        /\ spare'.ws \in SpaceOf(config.queue) /\ SameHeader(spare'.ws, spare.ws)
        /\ spare'.ws.q = Put(spare.ws.q, d.r, Marked(spare.ws.q[d.r], SPARE_COMPLETED))
        /\ spare'.ws.q[d.r] = Marked(spare.ws.q[d.r], SPARE_COMPLETED)
    <3>1. SPARE_COMPLETED \in {1, 2, 4}
      BY DEF SPARE_COMPLETED
    <3> QED BY <1>2, <1>4, <2>1, <3>1, AreaMark
  <2>3. TypeOK'
    BY <1>1, <2>1, <2>2, TypeParts, Zenon
  <2>4. /\ IsValidWorkSpace(spare.ws) /\ spare.ws.q[d.r].body = work.ws.q[d.r].body
        /\ spare.ws.q[d.r].bits \in {{}, Spared}
        /\ \A i \in 1..config.queue \ {d.r} : spare.ws.q[i] = work.ws.q[i]
    BY <1>2, <1>4, <1>6 DEF Copy
  <2>5. spare'.ws.q[d.r].bits = Spared /\ spare'.ws.q[d.r].body = work.ws.q[d.r].body
    <3>1. PICK x : x = spare.ws.q[d.r]
      OBVIOUS
    <3>2. spare'.ws.q[d.r] = Marked(x, SPARE_COMPLETED)
      BY <2>2, <3>1
    <3>3. x.bits \cup {SPARE_COMPLETED} = Spared
      BY <2>4, <3>1 DEF Spared
    <3>4. Marked(x, SPARE_COMPLETED).bits = Spared /\ Marked(x, SPARE_COMPLETED).body = x.body
      BY <3>3, MarkedFields
    <3> QED BY <2>4, <3>1, <3>2, <3>4
  <2>6. spare'.ws.q = work.ws.q
    <3>1. /\ spare'.ws.q \in [1..config.queue -> CellOf(config.queue)]
          /\ work.ws.q \in [1..config.queue -> CellOf(config.queue)]
      BY <1>2, <2>2, AreaFields, SpaceFields
    <3>2. \A i \in 1..config.queue \ {d.r} : spare'.ws.q[i] = work.ws.q[i]
      BY <1>2, <1>4, <2>2, <2>4, PutFacts
    <3>3. spare'.ws.q[d.r] = work.ws.q[d.r]
      <4>1. PICK x : x = spare'.ws.q[d.r]
        OBVIOUS
      <4>2. PICK y : y = work.ws.q[d.r]
        OBVIOUS
      <4>3. x \in CellOf(config.queue) /\ y \in CellOf(config.queue)
        BY <1>4, <3>1, <4>1, <4>2
      <4>4. x.bits = y.bits /\ x.body = y.body
        BY <1>4, <2>5, <4>1, <4>2
      <4>5. x = y
        BY <4>3, <4>4 DEF CellOf
      <4> QED BY <4>1, <4>2, <4>5
    <3>4. PICK x : x = spare'.ws.q
      OBVIOUS
    <3>5. PICK y : y = work.ws.q
      OBVIOUS
    <3>6. x \in [1..config.queue -> CellOf(config.queue)]
      BY <3>1, <3>4
    <3>7. y \in [1..config.queue -> CellOf(config.queue)]
      BY <3>1, <3>5
    <3>8. \A i \in 1..config.queue \ {d.r} : x[i] = y[i]
      BY <3>2, <3>4, <3>5
    <3>9. x[d.r] = y[d.r]
      BY <3>3, <3>4, <3>5
    <3>10. \A i \in 1..config.queue : x[i] = y[i]
      BY <3>8, <3>9
    <3>11. x = [i \in 1..config.queue |-> x[i]]
      BY <3>6
    <3>12. y = [i \in 1..config.queue |-> y[i]]
      BY <3>7
    <3>13. [i \in 1..config.queue |-> x[i]] = [i \in 1..config.queue |-> y[i]]
      BY <3>10, Zenon
    <3>14. x = y
      BY <3>11, <3>12, <3>13, Zenon
    <3> QED BY <3>4, <3>5, <3>14
  <2>7. IsValidWorkSpace(spare'.ws)
    BY <2>2, <2>4 DEF IsValidWorkSpace, SameHeader
  <2>8. /\ Head(stk') = "t_dest" /\ Tail(stk') = stk /\ stk' # <<>>
    <3>1. stk \in Seq(Labels) /\ "t_dest" \in Labels
      BY <1>3, StackSeq DEF Labels
    <3> QED BY <2>1, <3>1, PushTop
  <2>9. Position(pc, stk, op.f)'
    BY <1>1, <1>3, <2>1, <2>8 DEF Position, FlushStk
  <2>10. Progress'
    BY <1>1, <2>1, <2>8 DEF FInv, Progress, Late
  <2>11. Backup(config, spare', d.h, d.r)
    BY <1>4, <1>6, <2>6 DEF Backup
  <2>12. SpareGood(config, target, work, spare')
    <3>1. d.h \in 1..config.queue /\ d.r \in 1..config.queue
      BY <1>2, MemoryFields
    <3> QED BY <1>4, <1>6, <2>2, <2>7, <2>11, <3>1 DEF SpareGood
  <2>13. FlushesRecord' /\ ~FlushesReclaim'
    BY <2>8 DEF FlushesRecord, FlushesReclaim
  <2>14. FlushSource'
    BY <1>1, <1>3, <2>1, <2>6, <2>11, <2>12, <2>13 DEF FlushSource
  <2>15. FlashAt(d.h, d.r, {"pending"})'
    <3>1. Copy(work.ws, spare'.ws, d.r)
      BY <2>5, <2>6, <2>7 DEF Copy
    <3>2. Pend(config, target, work, spare', d.h, d.r)
      BY <1>4, <2>2, <3>1 DEF Pend
    <3> QED BY <1>1, <1>4, <2>1, <3>2 DEF FlashAt, Is
  <2>16. Flushing'
    BY <1>1, <1>3, <2>1, <2>13, <2>14, <2>15 DEF Flushing
  <2>17. /\ pc' # "refresh" /\ Reclaiming' /\ Allocating' /\ Writing' /\ Restarting' /\ Starting'
         /\ Answered'
    BY <2>1 DEF Reclaiming, Allocating, Writing, Restarting, Starting, Answered
  <2> QED BY <1>1, <1>5, <2>3, <2>9, <2>10, <2>16, <2>17 DEF FInv
<1>7. CASE Record.body # WorkBlk
  <2>1. /\ d' = [d EXCEPT !.buf = spare] /\ target' = [target EXCEPT ![Record.body] = Lost]
        /\ pc' = "t_copy" /\ stk' = stk /\ spare' = spare
    BY <1>7 DEF WriteRecordStart, Goto
  <2>2. /\ d' \in MemoryOf(config.queue) /\ d'.ws = d.ws /\ d'.h = d.h /\ d'.r = d.r
        /\ d'.buf = spare
    BY <1>2, <2>1 DEF MemoryOf
  <2>3. target' \in [Block \ {WorkBlk} -> Image]
    BY <1>2, <2>1 DEF Image
  <2>4. TypeOK'
    BY <1>1, <2>1, <2>2, <2>3, TypeParts, Zenon
  <2>5. Position(pc, stk, op.f)' /\ Progress'
    BY <1>1, <2>1 DEF FInv, Position, Progress, Late
  <2>6. Others(target', work, Record.body)
    BY <1>2, <1>4, <2>1 DEF Others, Home
  <2>7. FlashAt(d.h, d.r, {"pending"})'
    <3>1. Pend(config, target', work, spare, d.h, d.r)
      BY <1>4, <1>7, <2>6 DEF Pend
    <3> QED BY <1>1, <1>4, <2>1, <2>2, <3>1 DEF FlashAt, Is
  <2>8. /\ pc' # "refresh" /\ Reclaiming' /\ Allocating' /\ Flushing' /\ Restarting' /\ Starting'
        /\ Answered'
    BY <2>1 DEF Reclaiming, Allocating, Flushing, Restarting, Starting, Answered
  <2>9. Writing'
    BY <1>1, <1>3, <1>7, <2>1, <2>2, <2>7 DEF Writing, Near, Record
  <2> QED BY <1>1, <1>5, <2>4, <2>5, <2>8, <2>9 DEF FInv
<1> QED BY <1>6, <1>7

LEMMA FlushTargetStep ==
  ASSUME TypeOK, FInv, Sound(config), FlushSpareBlockToTargetBlock
  PROVE  TypeOK' /\ FInv'
<1>1. /\ half' = half /\ pc = "t_copy" /\ work' = work /\ op' = op /\ status' = status
      /\ applied' = applied /\ config' = config /\ calls' = calls /\ crashes' = crashes
      /\ fails' = fails /\ spare' = spare /\ d' = d /\ pc' = "t_dest" /\ stk' = stk
      /\ target' = [target EXCEPT ![Record.body] = d.buf.data]
  BY DEF FlushSpareBlockToTargetBlock, Goto, bounds
<1>2. /\ config \in Config /\ d.buf \in AreaOf(config.queue)
      /\ target \in [Block \ {WorkBlk} -> Image] /\ d.buf.data \in Image
  BY Basics, MemoryFields, AreaFields DEF TypeOK
<1>3. /\ FlashAt(d.h, d.r, {"pending"}) /\ Near(d.ws.q, work.ws.q, d.h)
      /\ Record.body # WorkBlk /\ d.buf.data = spare.data
  BY <1>1 DEF FInv, Writing
<1>4. /\ Open(config, work.ws.q, d.h, d.r, Spared)
      /\ Record = work.ws.q[d.r] /\ IsValidWorkSpace(work.ws) /\ Record.body \in Block
      /\ Holds(spare.data, Record.body) /\ Others(target, work, Record.body)
  BY <1>3, PendingFacts
<1>5. target' \in [Block \ {WorkBlk} -> Image]
  BY <1>1, <1>2
<1>6. TypeOK'
  BY <1>1, <1>5, TypeParts, Zenon
<1>7. Position(pc, stk, op.f)' /\ Called' /\ Progress'
  BY <1>1 DEF FInv, Position, Called, Progress, Late
<1>8. Others(target', work, Record.body) /\ Home(target', work, Record.body) = spare.data
  BY <1>1, <1>2, <1>3, <1>4 DEF Others, Home
<1>9. FlashAt(d.h, d.r, {"pending"})'
  <2>1. Pend(config, target', work, spare, d.h, d.r)
    BY <1>3, <1>4, <1>8 DEF Pend
  <2> QED BY <1>1, <1>4, <2>1 DEF FlashAt, Is
<1>10. /\ pc' # "refresh" /\ Reclaiming' /\ Allocating' /\ Flushing' /\ Restarting' /\ Starting'
       /\ Answered'
  BY <1>1 DEF Reclaiming, Allocating, Flushing, Restarting, Starting, Answered
<1>11. Writing'
  BY <1>1, <1>3, <1>8, <1>9 DEF Writing, Near, Record
<1> QED BY <1>1, <1>6, <1>7, <1>10, <1>11 DEF FInv

LEMMA WriteRecordDestStep ==
  ASSUME TypeOK, FInv, Sound(config), WriteRecordDest
  PROVE  TypeOK' /\ FInv'
<1>1. /\ half' = half /\ pc = "t_dest" /\ target' = target /\ spare' = spare /\ op' = op
      /\ status' = status /\ applied' = applied /\ config' = config /\ calls' = calls
      /\ crashes' = crashes /\ fails' = fails
      /\ work' = FtwUpdateFvState(work, d.r, DEST_COMPLETED)
  BY DEF WriteRecordDest, bounds
<1>2. /\ config \in Config /\ config.queue \in Nat
      /\ d \in MemoryOf(config.queue) /\ work \in AreaOf(config.queue)
      /\ DOMAIN work.ws.q = 1..config.queue /\ DOMAIN d.ws.q = 1..config.queue
  BY Basics
<1>3. /\ FlashAt(d.h, d.r, {"pending"}) /\ Near(d.ws.q, work.ws.q, d.h)
      /\ RecordStk(op.f, stk) /\ Home(target, work, Record.body) = spare.data
  BY <1>1 DEF FInv, Writing, Position
<1>4. /\ d.h \in 1..config.queue /\ d.r \in 1..config.queue /\ d.r # d.h
      /\ Open(config, work.ws.q, d.h, d.r, Spared)
      /\ Record = work.ws.q[d.r] /\ Record.bits = Spared
      /\ IsValidWorkSpace(work.ws) /\ Record.body \in Block
      /\ Holds(spare.data, Record.body) /\ Others(target, work, Record.body)
      /\ NumberOfWrites(d.ws.q[d.h]) = Records(config)
  BY <1>3, PendingFacts
<1>5. PICK c : c = Marked(work.ws.q[d.r], DEST_COMPLETED)
  OBVIOUS
<1>6. DEST_COMPLETED \in {1, 2, 4}
  BY DEF DEST_COMPLETED
<1>7. c.bits = Finished
  BY <1>4, <1>5, MarkedFields DEF Spared, Finished
<1>8. /\ work' \in AreaOf(config.queue) /\ work'.data = work.data
      /\ SameHeader(work'.ws, work.ws)
      /\ work'.ws.q = Put(work.ws.q, d.r, c)
  BY <1>1, <1>2, <1>4, <1>5, <1>6, AreaMark
<1>9. /\ d' \in MemoryOf(config.queue) /\ d'.h = d.h /\ d'.r = d.r
      /\ d'.ws.q = Put(d.ws.q, d.r, c)
  <2>1. d' = FtwUpdateFvState(d, d.r, DEST_COMPLETED)
    BY DEF WriteRecordDest, FtwUpdateFvState
  <2>2. d.ws.q[d.r] = work.ws.q[d.r]
    BY <1>4 DEF Record
  <2> QED BY <1>2, <1>4, <1>5, <1>6, <2>1, <2>2, MemoryMark
<1>10. TypeOK'
  BY <1>1, <1>8, <1>9, TypeParts, Zenon
<1>12. Homes(target, work') /\ IsValidWorkSpace(work'.ws)
  <2>1. Homes(target, work)
    BY <1>3, <1>4, HomesOthers
  <2> QED BY <1>4, <1>8, <2>1, HomesData DEF SameHeader, IsValidWorkSpace
<1>13. CASE IsLastRecordOfWrites(d.ws.q, d.h, d.r)
  <2>1. d.r = d.h + Records(config)
    BY <1>4, <1>13 DEF IsLastRecordOfWrites
  <2>2. Written(config, work'.ws.q, d.h, d.r)
    BY <1>2, <1>4, <1>7, <1>8, <2>1, RecordFinished
  <2>3. FlashAt(d.h, d.r, {"written"})'
    BY <1>1, <1>9, <1>12, <2>2 DEF FlashAt, Is
  <2>4. pc' = "t_done" /\ stk' = stk
    BY <1>13 DEF WriteRecordDest, Goto
  <2>5. Near(d.ws.q, work.ws.q, d.h)'
    <3>1. /\ d'.ws.q[d.r] = c /\ work'.ws.q[d.r] = c
          /\ DOMAIN work'.ws.q = 1..config.queue
          /\ \A j \in 1..config.queue \ {d.r} : work'.ws.q[j] = work.ws.q[j]
          /\ \A j \in 1..config.queue \ {d.r} : d'.ws.q[j] = d.ws.q[j]
      BY <1>2, <1>4, <1>8, <1>9, PutFacts
    <3> QED BY <1>2, <1>3, <1>4, <1>9, <3>1, SMTT(30) DEF Near
  <2>6. Position(pc, stk, op.f)' /\ Called' /\ Progress'
    BY <1>1, <1>3, <2>4 DEF FInv, Position, Called, Progress, Late
  <2>7. /\ pc' # "refresh" /\ Reclaiming' /\ Allocating' /\ Flushing' /\ Restarting' /\ Starting'
        /\ Answered'
    BY <2>4 DEF Reclaiming, Allocating, Flushing, Restarting, Starting, Answered
  <2>8. Writing'
    BY <2>3, <2>4, <2>5 DEF Writing
  <2> QED BY <1>1, <1>10, <2>6, <2>7, <2>8 DEF FInv
<1>14. CASE ~IsLastRecordOfWrites(d.ws.q, d.h, d.r)
  <2>1. d.r # d.h + Records(config)
    BY <1>4, <1>14 DEF IsLastRecordOfWrites
  <2>2. Open(config, work'.ws.q, d.h, d.r + 1, {}) /\ work'.ws.q[d.r + 1] = BlankCell
    BY <1>2, <1>4, <1>7, <1>8, <2>1, RecordFinished
  <2>3. Is(config, target, work', spare, d.h, d.r + 1, Settled)
    BY <1>12, <2>2 DEF Is, Tidy, Settled
  <2>4. Flash(Settled)'
    <3>1. Some(config, target, work', spare, Settled)
      BY <1>2, <2>3, IsSome
    <3> QED BY <1>1, <3>1 DEF Flash
  <2>5. pc' = Head(stk) /\ stk' = Tail(stk)
    BY <1>14 DEF WriteRecordDest, Return
  <2> QED BY <1>1, <1>10, <2>4, <2>5, RecordOver
<1> QED BY <1>13, <1>14

LEMMA WriteRecordDoneStep ==
  ASSUME TypeOK, FInv, Sound(config), WriteRecordDone
  PROVE  TypeOK' /\ FInv'
<1>1. /\ half' = half /\ pc = "t_done" /\ target' = target /\ spare' = spare /\ op' = op
      /\ status' = status /\ applied' = applied /\ config' = config /\ calls' = calls
      /\ crashes' = crashes /\ fails' = fails
      /\ work' = FtwUpdateFvState(work, d.h, WRITES_COMPLETED)
      /\ pc' = Head(stk) /\ stk' = Tail(stk)
  BY DEF WriteRecordDone, Return, bounds
<1>2. /\ config \in Config /\ config.queue \in Nat
      /\ d \in MemoryOf(config.queue) /\ work \in AreaOf(config.queue)
      /\ DOMAIN work.ws.q = 1..config.queue
  BY Basics
<1>3. /\ IsValidWorkSpace(work.ws) /\ Homes(target, work)
      /\ Written(config, work.ws.q, d.h, d.r) /\ d.h \in 1..config.queue
  BY <1>1, <1>2, MemoryFields DEF FInv, Writing, FlashAt, Is
<1>4. PICK c : c = Marked(work.ws.q[d.h], WRITES_COMPLETED)
  OBVIOUS
<1>5. WRITES_COMPLETED \in {1, 2, 4}
  BY DEF WRITES_COMPLETED
<1>6. c.body = work.ws.q[d.h].body /\ WRITES_COMPLETED \in c.bits
  BY <1>4, MarkedFields
<1>7. /\ work' \in AreaOf(config.queue) /\ work'.data = work.data
      /\ SameHeader(work'.ws, work.ws)
      /\ work'.ws.q = Put(work.ws.q, d.h, c)
  BY <1>1, <1>2, <1>3, <1>4, <1>5, AreaMark
<1>8. d' \in MemoryOf(config.queue)
  <2>1. d' = FtwUpdateFvState(d, d.h, WRITES_COMPLETED)
    BY DEF WriteRecordDone, FtwUpdateFvState
  <2> QED BY <1>2, <1>3, <1>5, <2>1, MemoryMark
<1>9. TypeOK'
  BY <1>1, <1>7, <1>8, TypeParts, Zenon
<1>10. Homes(target, work') /\ IsValidWorkSpace(work'.ws)
  BY <1>3, <1>7, HomesData DEF SameHeader, IsValidWorkSpace
<1>11. Vacant(config, work'.ws.q, d.h + Records(config) + 1, d.h + Records(config) + 2)
  BY <1>2, <1>3, <1>6, <1>7, HeaderDone
<1>12. Flash(Settled)'
  <2>1. Is(config, target, work', spare, d.h + Records(config) + 1, d.h + Records(config) + 2, Settled)
    BY <1>10, <1>11 DEF Is, Settled
  <2>2. Some(config, target, work', spare, Settled)
    BY <1>2, <2>1, IsSome
  <2> QED BY <1>1, <2>2 DEF Flash
<1> QED BY <1>1, <1>9, <1>12, RecordOver

(* The arguments of a write. *)
LEMMA WriteCall ==
  ASSUME config \in Config, Called, op.f = "write"
  PROVE  /\ op.b \in config.targets /\ op.b \in Block /\ op.v \in Version
         /\ op.priv \in config.private /\ op.priv \in BOOLEAN
<1>1. PICK b \in config.targets, v \in Version, p \in config.private :
        op = [f |-> "write", b |-> b, v |-> v, priv |-> p]
  BY DEF Called
<1>2. op.b = b /\ op.v = v /\ op.priv = p
  BY <1>1
<1>3. config.targets \subseteq Block /\ config.private \subseteq BOOLEAN
  BY DEF Config
<1> QED BY <1>1, <1>2, <1>3

LEMMA WriteStartStep ==
  ASSUME TypeOK, FInv, Sound(config), WriteStart
  PROVE  TypeOK' /\ FInv'
<1>1. /\ half' = half /\ pc = "w_start" /\ target' = target /\ work' = work /\ spare' = spare
      /\ op' = op /\ applied' = applied /\ config' = config /\ calls' = calls
      /\ crashes' = crashes /\ fails' = fails
      /\ d' = [d EXCEPT !.hd = d.h, !.rc = d.r]
  BY DEF WriteStart, bounds, flash
<1>2. /\ config \in Config /\ config.queue \in Nat /\ QueueSize = config.queue
      /\ d \in MemoryOf(config.queue) /\ DOMAIN work.ws.q = 1..config.queue
  BY Basics DEF QueueSize
<1>3. /\ d.ws = work.ws /\ d.h < config.queue /\ FlashAt(d.h, d.r, Serving(fails))
      /\ op.f = "write" /\ stk = <<>> /\ Called /\ Progress
  BY <1>1, <1>2 DEF FInv, Writing, Position, Loaded
<1>4. /\ d' \in MemoryOf(config.queue) /\ d'.ws = d.ws /\ d'.h = d.h /\ d'.r = d.r
      /\ d'.hd = d.h /\ d'.rc = d.r
  <2>1. PICK x : x = d.h
    OBVIOUS
  <2>2. PICK y : y = d.r
    OBVIOUS
  <2>3. x \in 1..config.queue /\ y \in 1..config.queue
    BY <1>2, <2>1, <2>2, MemoryFields
  <2>4. d' = [d EXCEPT !.hd = x, !.rc = y]
    BY <1>1, <2>1, <2>2
  <2>5. /\ d' \in MemoryOf(config.queue) /\ d'.ws = d.ws /\ d'.h = d.h /\ d'.r = d.r
        /\ d'.hd = x /\ d'.rc = y
    BY <1>2, <2>3, <2>4 DEF MemoryOf
  <2> QED BY <2>1, <2>2, <2>5
<1>5. TypeOK'
  BY <1>1, <1>4, TypeParts, Zenon
<1>6. \/ /\ Is(config, target, work, spare, d.h, d.r, {"vacant"}) /\ Header = BlankCell
      \/ /\ Is(config, target, work, spare, d.h, d.r, Serving(fails) \ {"vacant"})
         /\ HEADER_ALLOCATED \in Header.bits
  <2>1. "vacant" \in Serving(fails)
    BY DEF Serving
  <2> QED BY <1>2, <1>3, <2>1, HeaderBits DEF FlashAt, Header
<1>7. Called'
  BY <1>1, <1>3 DEF Called
<1>8. ~applied
  BY <1>1, <1>3, StackTop DEF Progress, Late
<1>9. CASE Header # BlankCell /\ Goto("w_check") /\ status' = "SUCCESS"
  <2>1. pc' = "w_check" /\ stk' = <<>> /\ status' = "SUCCESS"
    BY <1>3, <1>9 DEF Goto
  <2>2. Position(pc, stk, op.f)' /\ Progress'
    BY <1>1, <1>3, <1>8, <2>1 DEF Position, Progress, Late
  <2>3. Writing'
    <3>1. FlashAt(d.h, d.r, Serving(fails) \ {"vacant"})'
      BY <1>1, <1>4, <1>6, <1>9 DEF FlashAt
    <3>2. Near(d.ws.q, work.ws.q, d.h)'
      BY <1>1, <1>3, <1>4 DEF Near
    <3> QED BY <1>4, <2>1, <3>1, <3>2 DEF Writing
  <2>4. /\ pc' # "refresh" /\ Reclaiming' /\ Flushing' /\ Allocating' /\ Restarting' /\ Starting'
        /\ Answered'
    BY <2>1 DEF Reclaiming, Flushing, Allocating, Restarting, Starting, Answered
  <2> QED BY <1>1, <1>5, <1>7, <2>2, <2>3, <2>4 DEF FInv
<1>10. CASE Header = BlankCell /\ ~op.priv /\ Call("refresh", <<"a_check", "w_check">>)
  <2>1. pc' = "refresh" /\ stk' = <<"a_check", "w_check">>
    BY <1>3, <1>10, StackPush DEF Call
  <2>2. Is(config, target, work, spare, d.h, d.r, {"vacant"})
    BY <1>6, <1>10, BlankFacts
  <2>3. Records(config) = 1
    <3>1. FALSE \in config.private
      BY <1>2, <1>3, <1>10, WriteCall
    <3> QED BY <1>2, <3>1, SoundBasics DEF Uniform
  <2>4. Position(pc, stk, op.f)' /\ Progress'
    BY <1>1, <1>3, <1>8, <2>1, StackTop DEF Position, RoomStk, Progress, Late
  <2>5. Refreshing'
    <3>1. d'.hd < QueueSize' /\ FlashAt(d.hd, d.rc, {"vacant"})' /\ Records(config') = 1
      BY <1>1, <1>3, <1>4, <2>2, <2>3 DEF FlashAt, QueueSize
    <3> QED BY <2>1, <3>1, StackEqual DEF Refreshing
  <2>6. /\ Reclaiming' /\ Flushing' /\ Allocating' /\ Writing' /\ Restarting' /\ Starting'
        /\ Answered'
    BY <2>1 DEF Reclaiming, Flushing, Allocating, Writing, Restarting, Starting, Answered
  <2> QED BY <1>1, <1>5, <1>7, <2>4, <2>5, <2>6 DEF FInv
<1> QED BY <1>9, <1>10 DEF WriteStart

(* A write returns an error. *)
LEMMA WriteFails ==
  ASSUME TypeOK, Sound(config), Called, op.f = "write", stk = <<>>, half = FALSE,
         target' = target, work' = work, spare' = spare, half' = half, op' = op,
         applied' = applied, bounds' = bounds,
         NEW s, s # "SUCCESS", Finish(s, d), Flash(Serving(fails)), op.priv \/ fails # 0
  PROVE  TypeOK' /\ FInv'
<1>1. config' = config /\ calls' = calls /\ crashes' = crashes /\ fails' = fails
  BY DEF bounds
<1>2. status' = s /\ pc' = "idle" /\ stk' = <<>> /\ d' = NoData
  BY DEF Finish, Goto
<1>3. TypeOK'
  <2>1. NoData \in MemoryOf(config.queue)
    BY Basics, ErasedFacts
  <2> QED BY <1>1, <1>2, <2>1, TypeParts, Zenon
<1>4. Flash(Serving(fails))'
  BY <1>1 DEF Flash
<1>5. Answered'
  BY <1>1, <1>2 DEF Answered
<1> QED BY <1>1, <1>2, <1>3, <1>4, <1>5, Idle

LEMMA WriteNotAllocatedStep ==
  ASSUME TypeOK, FInv, Sound(config), WriteNotAllocated
  PROVE  TypeOK' /\ FInv'
<1>1. /\ half' = half /\ pc = "w_start" /\ target' = target /\ work' = work /\ spare' = spare
      /\ op' = op /\ applied' = applied /\ bounds' = bounds /\ op.priv /\ Finish("NOT_READY", d)
  BY DEF WriteNotAllocated, bounds, flash
<1>2. /\ Called /\ op.f = "write" /\ stk = <<>> /\ half = FALSE
      /\ FlashAt(d.h, d.r, Serving(fails))
  BY <1>1 DEF FInv, Writing, Position, Loaded
<1>3. Flash(Serving(fails))
  BY <1>2, LoadedFlash DEF FlashAt, Flash
<1>4. "NOT_READY" # "SUCCESS"
  OBVIOUS
<1> QED BY <1>1, <1>2, <1>3, <1>4, WriteFails

(* The record FtwWrite goes on with. *)
LEMMA WriteChecked ==
  ASSUME TypeOK, FInv, Sound(config), pc = "w_check"
  PROVE  /\ d.hd = d.h /\ d.rc = d.r /\ d.r # d.h /\ d.r \in 1..config.queue
         /\ Near(d.ws.q, work.ws.q, d.h) /\ d.ws.q[d.r] = work.ws.q[d.r]
         /\ IsValidWorkSpace(work.ws)
         /\ \/ /\ Homes(target, work) /\ Open(config, work.ws.q, d.h, d.r, {})
               /\ Tidy(config, work.ws.q, d.r) /\ WriteVerdict = "SUCCESS"
            \/ fails # 0 /\ WriteVerdict # "SUCCESS"
         /\ Flash(Serving(fails))
<1>1. /\ config \in Config /\ config.queue \in Nat /\ DOMAIN work.ws.q = 1..config.queue
      /\ d \in MemoryOf(config.queue) /\ config.queue < AllOnes /\ AllOnes \in Nat
      /\ Records(config) \in 1..(config.queue - 1)
  BY Basics
<1>2. /\ status = "SUCCESS" /\ d.hd = d.h /\ d.rc = d.r /\ Near(d.ws.q, work.ws.q, d.h)
      /\ Is(config, target, work, spare, d.h, d.r, Serving(fails) \ {"vacant"})
  BY DEF FInv, Writing, FlashAt
<1>3. \/ Homes(target, work) /\ Open(config, work.ws.q, d.h, d.r, {}) /\ Tidy(config, work.ws.q, d.r)
      \/ fails # 0 /\ Written(config, work.ws.q, d.h, d.r)
      \/ fails # 0 /\ Open(config, work.ws.q, d.h, d.r, Spared)
  <2>1. CASE fails > 0
    <3>1. Serving(fails) \ {"vacant"} = {"tidy", "written", "pending"}
      BY <2>1 DEF Serving
    <3> QED BY <1>2, <2>1, <3>1 DEF Is, Pend
  <2>2. CASE ~(fails > 0)
    <3>1. Serving(fails) \ {"vacant"} = {"tidy"}
      BY <2>2 DEF Serving
    <3> QED BY <1>2, <3>1 DEF Is
  <2> QED BY <2>1, <2>2
<1>4. Shape(config, work.ws.q, d.h, d.r)
  BY <1>3 DEF Shape, Open, OpenHeader, Written
<1>5. /\ d.h \in 1..(config.queue - 1) /\ d.r \in 2..config.queue /\ d.h < d.r
      /\ d.r <= d.h + Records(config)
  BY <1>1, <1>4, ShapeBounds
<1>6. d.r # d.h /\ d.r \in 1..config.queue /\ d.ws.q[d.r] = work.ws.q[d.r]
  BY <1>1, <1>2, <1>5 DEF Near
<1>7. Flash(Serving(fails))
  <2>1. Is(config, target, work, spare, d.h, d.r, Serving(fails))
    BY <1>2, IsMore
  <2> QED BY <2>1, LoadedFlash DEF Flash
<1>8. ASSUME Open(config, work.ws.q, d.h, d.r, {}) PROVE WriteVerdict = "SUCCESS"
  <2>1. d.ws.q[d.h].body = Records(config) /\ WRITES_COMPLETED \notin d.ws.q[d.h].bits
    BY <1>2, <1>8 DEF Open, OpenHeader, Near
  <2>2. NumberOfWrites(d.ws.q[d.h]) = Records(config)
    BY <1>1, <2>1 DEF NumberOfWrites
  <2>3. WriteTotalSize(Records(config) - 1) = Records(config)
    BY <1>1 DEF WriteTotalSize
  <2>4. ~(d.r - d.h > Records(config))
    BY <1>1, <1>5
  <2>5. d.ws.q[d.r].bits = {}
    BY <1>6, <1>8 DEF Open
  <2> QED BY <1>2, <2>1, <2>2, <2>3, <2>4, <2>5 DEF WriteVerdict
<1>9. ASSUME Written(config, work.ws.q, d.h, d.r) PROVE WriteVerdict # "SUCCESS"
  <2>1. work.ws.q[d.r].bits = Finished
    BY <1>1, <1>5, <1>9, SMTT(30) DEF Written, Prior
  <2> QED BY <1>2, <1>6, <2>1 DEF WriteVerdict, Finished
<1>10. ASSUME Open(config, work.ws.q, d.h, d.r, Spared) PROVE WriteVerdict # "SUCCESS"
  <2>1. work.ws.q[d.r].bits = Spared
    BY <1>10 DEF Open
  <2> QED BY <1>2, <1>6, <2>1 DEF WriteVerdict, Spared
<1> QED BY <1>2, <1>3, <1>6, <1>7, <1>8, <1>9, <1>10 DEF Is

LEMMA WriteRefusedStep ==
  ASSUME TypeOK, FInv, Sound(config), WriteRefused
  PROVE  TypeOK' /\ FInv'
<1>1. /\ half' = half /\ pc = "w_check" /\ target' = target /\ work' = work /\ spare' = spare
      /\ op' = op /\ applied' = applied /\ bounds' = bounds
      /\ WriteVerdict # "SUCCESS" /\ Finish(WriteVerdict, d)
  BY DEF WriteRefused, bounds, flash
<1>2. Called /\ op.f = "write" /\ stk = <<>> /\ half = FALSE
  BY <1>1 DEF FInv, Position
<1>3. Flash(Serving(fails)) /\ fails # 0
  BY <1>1, WriteChecked
<1> QED BY <1>1, <1>2, <1>3, WriteFails

(* The record is changed in memory and on flash. *)
LEMMA NearPut ==
  ASSUME NEW n, NEW p, NEW q, NEW h, NEW r, NEW c, DOMAIN p = 1..n, DOMAIN q = 1..n,
         h \in 1..n, r \in 1..n, h # r, Near(p, q, h)
  PROVE  Near(Put(p, r, c), Put(q, r, c), h)
<1>1. /\ DOMAIN Put(q, r, c) = 1..n /\ Put(q, r, c)[r] = c /\ Put(p, r, c)[r] = c
      /\ \A j \in 1..n \ {r} : Put(q, r, c)[j] = q[j]
  BY DEF Put
<1>2. \A j \in 1..n \ {r} : Put(p, r, c)[j] = p[j]
  BY DEF Put
<1> QED BY <1>1, <1>2 DEF Near

LEMMA WriteRecordStep ==
  ASSUME TypeOK, FInv, Sound(config), WriteRecord
  PROVE  TypeOK' /\ FInv'
<1>1. /\ half' = half /\ pc = "w_check" /\ target' = target /\ spare' = spare /\ op' = op
      /\ status' = status /\ applied' = applied /\ config' = config /\ calls' = calls
      /\ crashes' = crashes /\ fails' = fails /\ pc' = "w_erase" /\ stk' = stk
      /\ WriteVerdict = "SUCCESS"
  BY DEF WriteRecord, Goto, bounds
<1>2. /\ config \in Config /\ config.queue \in Nat
      /\ d \in MemoryOf(config.queue) /\ work \in AreaOf(config.queue)
      /\ spare \in AreaOf(config.queue) /\ target \in [Block \ {WorkBlk} -> Image]
      /\ DOMAIN work.ws.q = 1..config.queue /\ DOMAIN d.ws.q = 1..config.queue
  BY Basics DEF TypeOK
<1>3. /\ d.rc = d.r /\ d.r # d.h /\ d.r \in 1..config.queue
      /\ Near(d.ws.q, work.ws.q, d.h) /\ d.ws.q[d.r] = work.ws.q[d.r]
      /\ IsValidWorkSpace(work.ws)
      /\ Homes(target, work) /\ Open(config, work.ws.q, d.h, d.r, {})
      /\ Tidy(config, work.ws.q, d.r)
  BY <1>1, WriteChecked
<1>4. Called /\ op.f = "write" /\ stk = <<>> /\ half = FALSE /\ ~applied
  BY <1>1, StackTop DEF FInv, Position, Progress, Late
<1>5. op.b \in config.targets /\ op.b \in Block /\ op.v \in Version
  BY <1>2, <1>4, WriteCall
<1>6. PICK c : c = [bits |-> {}, body |-> op.b]
  OBVIOUS
<1>7. c \in CellOf(config.queue) /\ c.bits = {} /\ c.body = op.b
  BY <1>5, <1>6 DEF CellOf
<1>8. [d.ws.q[d.rc] EXCEPT !.body = op.b] = c /\ Program(work.ws.q[d.rc], c) = c
  <2>1. PICK x : x = work.ws.q[d.r]
    OBVIOUS
  <2>2. x \in CellOf(config.queue) /\ x.bits = {} /\ x.body \in {Blank, op.b}
    <3>1. x \in CellOf(config.queue)
      BY <1>2, <1>3, <2>1, AreaFields
    <3>2. x.bits = {} /\ x.body \in config.targets \cup {Blank}
      BY <1>3, <2>1 DEF Open
    <3>3. Single(config) => x.body \in {Blank, op.b}
      BY <1>5, <3>2 DEF Single
    <3>4. x = BlankCell => x.body = Blank
      BY BlankFacts
    <3> QED BY <1>3, <2>1, <3>1, <3>2, <3>3, <3>4 DEF Tidy
  <2>3. [x EXCEPT !.body = op.b] = c
    BY <1>6, <2>2 DEF CellOf
  <2>4. Program(x, c) = c
    BY <1>6, <1>7, <2>2 DEF Program
  <2> QED BY <1>3, <2>1, <2>3, <2>4
<1>9. PICK w : w = PutCell(work, d.r, c)
  OBVIOUS
<1>10. [work EXCEPT !.ws.q[d.rc] = Program(work.ws.q[d.rc], c)] = w
  BY <1>3, <1>8, <1>9, Zenon DEF PutCell
<1>11. /\ w \in AreaOf(config.queue) /\ w.data = work.data
       /\ w.ws \in SpaceOf(config.queue) /\ SameHeader(w.ws, work.ws)
       /\ w.ws.q = Put(work.ws.q, d.r, c)
  BY <1>2, <1>3, <1>7, <1>9, AreaCell
<1>12. PICK b : b = IF op.b = WorkBlk
                    THEN [data |-> Overlaid(work.data, op.b, op.v), ws |-> w.ws]
                    ELSE [data |-> Overlaid(target[op.b], op.b, op.v), ws |-> BlankSpace]
  OBVIOUS
<1>13. /\ b \in AreaOf(config.queue) /\ b.data = <<op.b, op.v>>
       /\ op.b = WorkBlk => b.ws = w.ws
  <2>1. Home(target, work, op.b) # Lost
    BY <1>3, <1>5, BlockAssumption DEF Homes, Holds
  <2>2. <<op.b, op.v>> \in Image
    BY <1>5 DEF Image
  <2>3. BlankSpace \in SpaceOf(config.queue)
    BY <1>2, ErasedFacts
  <2>4. CASE op.b = WorkBlk
    <3>1. b = [data |-> <<op.b, op.v>>, ws |-> w.ws]
      BY <1>12, <2>1, <2>4 DEF Overlaid, Home
    <3> QED BY <1>11, <2>2, <3>1 DEF AreaOf
  <2>5. CASE op.b # WorkBlk
    <3>1. b = [data |-> <<op.b, op.v>>, ws |-> BlankSpace]
      BY <1>12, <2>1, <2>5 DEF Overlaid, Home
    <3> QED BY <2>2, <2>3, <2>5, <3>1 DEF AreaOf
  <2> QED BY <2>4, <2>5
<1>14. work' = w /\ d' = [d EXCEPT !.ws.q[d.rc] = c, !.buf = b, !.sbuf = spare]
  BY <1>8, <1>10, <1>12, Zenon DEF WriteRecord
<1>15. PICK m : m = PutCell(d, d.r, c)
  OBVIOUS
<1>16. /\ m \in MemoryOf(config.queue) /\ m.h = d.h /\ m.r = d.r /\ m.rc = d.rc
       /\ m.ws.q = Put(d.ws.q, d.r, c)
  BY <1>2, <1>3, <1>7, <1>15, MemoryCell
<1>17. /\ d' \in MemoryOf(config.queue) /\ d'.h = d.h /\ d'.r = d.r /\ d'.rc = d.rc
       /\ d'.ws.q = Put(d.ws.q, d.r, c) /\ d'.buf = b
  <2>1. d' = [m EXCEPT !.buf = b, !.sbuf = spare]
    BY <1>3, <1>14, <1>15 DEF PutCell
  <2> QED BY <1>2, <1>13, <1>16, <2>1 DEF MemoryOf
<1>18. TypeOK'
  BY <1>1, <1>11, <1>14, <1>17, TypeParts, Zenon
<1>19. Position(pc, stk, op.f)' /\ Called' /\ Progress'
  BY <1>1, <1>4, StackTop DEF Position, Called, Progress, Late
<1>20. FlashAt(d.h, d.r, {"open"})' /\ work'.ws.q[d.r] = c
  <2>1. Open(config, w.ws.q, d.h, d.r, {}) /\ w.ws.q[d.r] = c
    <3>1. c.body \in config.targets
      BY <1>5, <1>7
    <3>2. PICK bits : bits = c.bits
      OBVIOUS
    <3>3. Open(config, Put(work.ws.q, d.r, c), d.h, d.r, bits) /\ Put(work.ws.q, d.r, c)[d.r] = c
      BY <1>2, <1>3, <3>1, <3>2, RecordKept
    <3>4. bits = {}
      BY <1>7, <3>2
    <3> QED BY <1>11, <3>3, <3>4
  <2>2. Homes(target, w) /\ IsValidWorkSpace(w.ws)
    BY <1>3, <1>11, HomesData DEF SameHeader, IsValidWorkSpace
  <2> QED BY <1>1, <1>14, <1>17, <2>1, <2>2 DEF FlashAt, Is
<1>21. Near(d.ws.q, work.ws.q, d.h)'
  <2>1. d.h \in 1..config.queue
    BY <1>2, MemoryFields
  <2>2. Near(Put(d.ws.q, d.r, c), Put(work.ws.q, d.r, c), d.h)
    BY <1>2, <1>3, <2>1, NearPut
  <2> QED BY <1>11, <1>14, <1>17, <2>2
<1>22. Writing'
  BY <1>1, <1>3, <1>7, <1>13, <1>14, <1>17, <1>20, <1>21 DEF Writing
<1>23. /\ pc' # "refresh" /\ Reclaiming' /\ Flushing' /\ Allocating' /\ Restarting' /\ Starting'
       /\ Answered'
  BY <1>1 DEF Reclaiming, Flushing, Allocating, Restarting, Starting, Answered
<1> QED BY <1>1, <1>4, <1>18, <1>19, <1>22, <1>23 DEF FInv

LEMMA WriteCopyStep ==
  ASSUME TypeOK, FInv, Sound(config), WriteCopy
  PROVE  TypeOK' /\ FInv'
<1>1. /\ half' = half /\ pc = "w_copy" /\ target' = target /\ spare' = d.buf /\ op' = op
      /\ status' = status /\ applied' = applied /\ config' = config /\ calls' = calls
      /\ crashes' = crashes /\ fails' = fails /\ pc' = "w_spare" /\ stk' = stk
      /\ work' = work /\ d' = d
  BY DEF WriteCopy, Goto, bounds
<1>2. d.buf \in AreaOf(config.queue)
  BY Basics, MemoryFields
<1>3. TypeOK'
  BY <1>1, <1>2, TypeParts, Zenon
<1>4. Position(pc, stk, op.f)' /\ Called' /\ Progress'
  BY <1>1 DEF FInv, Position, Called, Progress, Late
<1>5. /\ pc' # "refresh" /\ Reclaiming' /\ Flushing' /\ Allocating' /\ Restarting' /\ Starting'
      /\ Answered'
  BY <1>1 DEF Reclaiming, Flushing, Allocating, Restarting, Starting, Answered
<1>6. Writing'
  BY <1>1, SpareOnly DEF FInv, Writing
<1> QED BY <1>1, <1>3, <1>4, <1>5, <1>6 DEF FInv

LEMMA WriteSpareCompletedStep ==
  ASSUME TypeOK, FInv, Sound(config), WriteSpareCompleted
  PROVE  TypeOK' /\ FInv'
<1>1. /\ half' = half /\ pc = "w_spare" /\ target' = target /\ spare' = spare /\ op' = op
      /\ status' = status /\ applied' = TRUE /\ config' = config /\ calls' = calls
      /\ crashes' = crashes /\ fails' = fails
      /\ work' = FtwUpdateFvState(work, d.rc, SPARE_COMPLETED)
      /\ pc' = "t_start" /\ stk' = <<"w_clear">> \o stk
  BY DEF WriteSpareCompleted, Call, bounds
<1>2. /\ config \in Config /\ config.queue \in Nat
      /\ d \in MemoryOf(config.queue) /\ work \in AreaOf(config.queue)
      /\ DOMAIN work.ws.q = 1..config.queue /\ DOMAIN d.ws.q = 1..config.queue
      /\ d.h \in 1..config.queue
  BY Basics, MemoryFields
<1>3. /\ d.rc = d.r /\ Near(d.ws.q, work.ws.q, d.h) /\ work.ws.q[d.r].body = op.b
      /\ spare.data = <<op.b, op.v>>
      /\ op.b = WorkBlk => spare.ws = work.ws
      /\ IsValidWorkSpace(work.ws) /\ Homes(target, work)
      /\ Open(config, work.ws.q, d.h, d.r, {})
  BY <1>1 DEF FInv, Writing, FlashAt, Is
<1>4. Called /\ op.f = "write" /\ stk = <<>> /\ half = FALSE
  BY <1>1 DEF FInv, Position
<1>5. op.b \in config.targets /\ op.b \in Block /\ op.v \in Version
  BY <1>2, <1>4, WriteCall
<1>6. /\ d.r \in 1..config.queue /\ d.r # d.h
  BY <1>2, <1>3, SoundBasics, OpenBounds DEF Open
<1>7. d.ws.q[d.r] = work.ws.q[d.r]
  BY <1>2, <1>3, <1>6 DEF Near
<1>8. PICK c : c = Marked(work.ws.q[d.r], SPARE_COMPLETED)
  OBVIOUS
<1>9. SPARE_COMPLETED \in {1, 2, 4}
  BY DEF SPARE_COMPLETED
<1>10. c.bits = Spared /\ c.body = op.b
  <2>1. work.ws.q[d.r].bits = {}
    BY <1>3 DEF Open
  <2> QED BY <1>3, <1>8, <2>1, MarkedFields DEF Spared
<1>11. /\ work' \in AreaOf(config.queue) /\ work'.data = work.data
       /\ SameHeader(work'.ws, work.ws)
       /\ work'.ws.q = Put(work.ws.q, d.r, c)
  BY <1>1, <1>2, <1>3, <1>6, <1>8, <1>9, AreaMark
<1>12. /\ d' \in MemoryOf(config.queue) /\ d'.h = d.h /\ d'.r = d.r
       /\ d'.ws.q = Put(d.ws.q, d.r, c)
  <2>1. d' = FtwUpdateFvState(d, d.rc, SPARE_COMPLETED)
    BY DEF WriteSpareCompleted, FtwUpdateFvState
  <2> QED BY <1>2, <1>3, <1>6, <1>7, <1>8, <1>9, <2>1, MemoryMark
<1>13. TypeOK'
  BY <1>1, <1>11, <1>12, TypeParts, Zenon
<1>14. stk' = <<"w_clear">>
  BY <1>1, <1>4, StackPush
<1>15. Position(pc, stk, op.f)' /\ Called' /\ Progress'
  BY <1>1, <1>4, <1>14 DEF Position, RecordStk, Called, Progress, Late
<1>16. /\ d'.ws.q[d.r] = c /\ work'.ws.q[d.r] = c
       /\ DOMAIN work'.ws.q = 1..config.queue
       /\ \A j \in 1..config.queue \ {d.r} : work'.ws.q[j] = work.ws.q[j]
       /\ \A j \in 1..config.queue \ {d.r} : d'.ws.q[j] = d.ws.q[j]
  BY <1>2, <1>6, <1>11, <1>12, PutFacts
<1>17. Near(d.ws.q, work.ws.q, d.h)'
  <2>1. Near(Put(d.ws.q, d.r, c), Put(work.ws.q, d.r, c), d.h)
    BY <1>2, <1>3, <1>6, NearPut
  <2> QED BY <1>11, <1>12, <2>1
<1>18. FlashAt(d.h, d.r, {"pending"})'
  <2>1. Open(config, work'.ws.q, d.h, d.r, Spared)
    BY <1>2, <1>3, <1>5, <1>10, <1>11, RecordKept
  <2>2. Homes(target, work') /\ IsValidWorkSpace(work'.ws)
    BY <1>3, <1>11, HomesData DEF SameHeader, IsValidWorkSpace
  <2>3. Holds(spare.data, op.b) /\ Others(target, work', op.b)
    BY <1>3, <1>5, <2>2, HomesOthers DEF Holds
  <2>4. ASSUME op.b = WorkBlk PROVE Copy(work'.ws, spare.ws, d.r)
    <3>1. spare.ws = work.ws
      BY <1>3, <2>4
    <3>2. work.ws.q[d.r].bits = {}
      BY <1>3 DEF Open
    <3>3. /\ \A j \in DOMAIN work'.ws.q \ {d.r} : work.ws.q[j] = work'.ws.q[j]
          /\ work.ws.q[d.r].body = work'.ws.q[d.r].body
      BY <1>3, <1>10, <1>16
    <3> QED BY <1>3, <3>1, <3>2, <3>3 DEF Copy
  <2>5. Pend(config, target, work', spare, d.h, d.r)
    BY <1>10, <1>16, <2>1, <2>3, <2>4 DEF Pend
  <2> QED BY <1>1, <1>12, <2>2, <2>5 DEF FlashAt, Is
<1>19. Writing'
  BY <1>1, <1>17, <1>18 DEF Writing
<1>20. /\ pc' # "refresh" /\ Reclaiming' /\ Flushing' /\ Allocating' /\ Restarting' /\ Starting'
       /\ Answered'
  BY <1>1 DEF Reclaiming, Flushing, Allocating, Restarting, Starting, Answered
<1> QED BY <1>1, <1>4, <1>13, <1>15, <1>19, <1>20 DEF FInv

(* A settled state is one a service may find. *)
LEMMA SettledServes ==
  ASSUME NEW f, Flash(Settled)
  PROVE  Flash(Serving(f))
<1>1. \A x \in Settled : x \in Serving(f)
  BY DEF Settled, Serving
<1> QED BY <1>1, SomeMore DEF Flash

LEMMA WriteRestoreStep ==
  ASSUME TypeOK, FInv, Sound(config), WriteRestore
  PROVE  TypeOK' /\ FInv'
<1>1. /\ half' = half /\ pc = "w_restore" /\ target' = target /\ spare' = d.sbuf /\ op' = op
      /\ applied' = applied /\ config' = config /\ calls' = calls /\ work' = work
      /\ crashes' = crashes /\ fails' = fails /\ Finish("SUCCESS", d)
  BY DEF WriteRestore, bounds
<1>2. /\ Called /\ op.f = "write" /\ stk = <<>> /\ half = FALSE /\ applied = TRUE
      /\ Flash(Settled)
  BY <1>1 DEF FInv, Position, Progress, Late, Writing, TypeOK
<1>3. status' = "SUCCESS" /\ pc' = "idle" /\ stk' = <<>> /\ d' = NoData
  BY <1>1, <1>2 DEF Finish, Goto
<1>4. TypeOK'
  <2>1. d.sbuf \in AreaOf(config.queue) /\ NoData \in MemoryOf(config.queue)
    BY Basics, MemoryFields, ErasedFacts
  <2> QED BY <1>1, <1>3, <2>1, TypeParts, Zenon
<1>5. Flash(Serving(fails))'
  <2>1. Some(config, target, work, spare, Serving(fails)) /\ "pending" \notin Settled
    BY <1>2, SettledServes DEF Flash, Settled
  <2>2. Some(config, target, work, d.sbuf, Settled)
    BY <1>2, <2>1, SomeSpare DEF Flash
  <2>3. \A x \in Settled : x \in Serving(fails)
    BY DEF Settled, Serving
  <2>4. Some(config, target, work, d.sbuf, Serving(fails))
    BY <2>2, <2>3, SomeMore
  <2> QED BY <1>1, <2>4 DEF Flash
<1>6. Answered'
  BY <1>1, <1>2, <1>3 DEF Answered
<1> QED BY <1>1, <1>2, <1>3, <1>4, <1>5, <1>6, Idle

(* Which of the states S flash is in, with the last header x and record y. *)
Told(cf, t, w, s, h, r, S, x, y) ==
  \/ "vacant" \in S /\ Is(cf, t, w, s, h, r, {"vacant"}) /\ x = BlankCell /\ y = BlankCell
  \/ /\ "torn" \in S /\ Is(cf, t, w, s, h, r, {"torn"})
     /\ HEADER_ALLOCATED \in x.bits /\ x.body = Mixed /\ y = BlankCell
  \/ /\ HEADER_ALLOCATED \in x.bits /\ WRITES_COMPLETED \notin x.bits /\ x.body = Records(cf)
     /\ \/ "open" \in S /\ Is(cf, t, w, s, h, r, {"open"}) /\ y.bits = {}
        \/ "tidy" \in S /\ Is(cf, t, w, s, h, r, {"tidy"}) /\ y.bits = {}
        \/ /\ "written" \in S /\ Is(cf, t, w, s, h, r, {"written"})
           /\ y.bits = Finished /\ r = h + Records(cf)
        \/ /\ "pending" \in S /\ Is(cf, t, w, s, h, r, {"pending"})
           /\ y.bits = Spared /\ y.body \in cf.targets

LEMMA States ==
  ASSUME NEW cf \in Config, Sound(cf), NEW t, NEW w, DOMAIN w.ws.q = 1..cf.queue, NEW s,
         NEW h, NEW r, NEW S, Is(cf, t, w, s, h, r, S), h < cf.queue
  PROVE  /\ h \in 1..cf.queue /\ r \in 1..cf.queue /\ r # h
         /\ Told(cf, t, w, s, h, r, S, w.ws.q[h], w.ws.q[r])
<1> USE DEF Told
<1>1. /\ cf.queue \in Nat /\ h \in 1..(cf.queue - 1) /\ r \in 2..cf.queue /\ h < r
      /\ Records(cf) \in 1..(cf.queue - 1)
  BY SoundBasics, IsBounds, ShapeBounds
<1>2. h \in 1..cf.queue /\ r \in 1..cf.queue /\ r # h
  BY <1>1
<1>3. IsValidWorkSpace(w.ws)
  BY DEF Is
<1>4. CASE "vacant" \in S /\ Homes(t, w) /\ Vacant(cf, w.ws.q, h, r)
  <2>1. w.ws.q[h] = BlankCell /\ w.ws.q[r] = BlankCell /\ r = h + 1
    BY <1>1, <1>2, <1>4 DEF Vacant, Clean
  <2> QED BY <1>2, <1>3, <1>4, <2>1 DEF Is
<1>5. CASE "torn" \in S /\ Homes(t, w) /\ Torn(cf, w.ws.q, h, r)
  <2>1. w.ws.q[r] = BlankCell
    BY <1>1, <1>2, <1>5 DEF Torn, Clean
  <2> QED BY <1>2, <1>3, <1>5, <2>1 DEF Is, Torn
<1>6. CASE "open" \in S /\ Homes(t, w) /\ Open(cf, w.ws.q, h, r, {})
  BY <1>2, <1>3, <1>6 DEF Is, Open, OpenHeader
<1>7. CASE "tidy" \in S /\ Homes(t, w) /\ Open(cf, w.ws.q, h, r, {}) /\ Tidy(cf, w.ws.q, r)
  BY <1>2, <1>3, <1>7 DEF Is, Open, OpenHeader
<1>8. CASE "written" \in S /\ Homes(t, w) /\ Written(cf, w.ws.q, h, r)
  <2>1. w.ws.q[r].bits = Finished
    BY <1>1, <1>8 DEF Written, Prior
  <2> QED BY <1>2, <1>3, <1>8, <2>1 DEF Is, Written, OpenHeader
<1>9. CASE "pending" \in S /\ Pend(cf, t, w, s, h, r)
  BY <1>2, <1>3, <1>9 DEF Is, Pend, Open, OpenHeader, Spared
<1> QED BY <1>4, <1>5, <1>6, <1>7, <1>8, <1>9 DEF Is

(* A service that neither writes nor allocates returns to its caller. *)
LEMMA ServiceReturns ==
  ASSUME TypeOK, Sound(config), Called, op.f \notin {"write", "allocate"}, stk = <<>>,
         half' = FALSE, op' = op, applied' = applied, bounds' = bounds, target' = target,
         work' \in AreaOf(config.queue), spare' \in AreaOf(config.queue),
         NEW s, NEW m, Finish(s, m), Some(config, target', work', spare', Serving(fails))
  PROVE  TypeOK' /\ FInv'
<1>1. config' = config /\ calls' = calls /\ crashes' = crashes /\ fails' = fails
  BY DEF bounds
<1>2. status' = s /\ pc' = "idle" /\ stk' = <<>> /\ d' = NoData
  BY DEF Finish, Goto
<1>3. TypeOK'
  <2>1. NoData \in MemoryOf(config.queue)
    BY Basics, ErasedFacts
  <2> QED BY <1>1, <1>2, <2>1, TypeParts, Zenon
<1>4. Flash(Serving(fails))'
  BY <1>1 DEF Flash
<1>5. Answered'
  BY DEF Answered
<1> QED BY <1>1, <1>2, <1>3, <1>4, <1>5, Idle

LEMMA RestartRefusedStep ==
  ASSUME TypeOK, FInv, Sound(config), RestartRefused
  PROVE  TypeOK' /\ FInv'
<1>1. /\ half' = half /\ pc = "s_check" /\ target' = target /\ work' = work /\ spare' = spare
      /\ op' = op /\ applied' = applied /\ bounds' = bounds
      /\ Finish("ACCESS_DENIED", d) \/ Finish("ABORTED", d)
      /\ \/ WRITES_COMPLETED \in Header.bits \/ DEST_COMPLETED \in Record.bits
         \/ SPARE_COMPLETED \notin Record.bits
  BY DEF RestartRefused, bounds, flash
<1>2. /\ config \in Config /\ DOMAIN work.ws.q = 1..config.queue
      /\ work \in AreaOf(config.queue) /\ spare \in AreaOf(config.queue)
  BY Basics
<1>3. /\ Called /\ half = FALSE /\ d.ws = work.ws /\ d.h < config.queue
      /\ Is(config, target, work, spare, d.h, d.r, IF stk = <<>> THEN Serving(fails) ELSE {"pending"})
      /\ (op.f = "restart" /\ stk = <<>>) \/ (op.f = "init" /\ stk = <<"i_abort">>)
  BY <1>1 DEF FInv, Restarting, Position, Loaded, FlashAt, QueueSize
<1>4. stk = <<>>
  <2> SUFFICES ASSUME stk # <<>> PROVE FALSE
    OBVIOUS
  <2>1. Is(config, target, work, spare, d.h, d.r, {"pending"})
    BY <1>3
  <2>2. Told(config, target, work, spare, d.h, d.r, {"pending"}, Header, Record)
    BY <1>2, <1>3, <2>1, States DEF Header, Record
  <2>3. WRITES_COMPLETED \notin Header.bits /\ Record.bits = Spared
    BY <2>2 DEF Told
  <2> QED BY <1>1, <2>3 DEF Spared, SPARE_COMPLETED, DEST_COMPLETED
<1>5. Some(config, target, work, spare, Serving(fails))
  BY <1>3, <1>4, LoadedFlash
<1>6. op.f \notin {"write", "allocate"}
  BY <1>3
<1> QED BY <1>1, <1>2, <1>3, <1>4, <1>5, <1>6, ServiceReturns

LEMMA FtwRestartStep ==
  ASSUME TypeOK, FInv, Sound(config), FtwRestart
  PROVE  TypeOK' /\ FInv'
<1>1. /\ half' = half /\ pc = "s_check" /\ target' = target /\ work' = work /\ spare' = spare
      /\ d' = d /\ status' = status /\ op' = op /\ applied' = applied /\ config' = config
      /\ calls' = calls /\ crashes' = crashes /\ fails' = fails
      /\ pc' = "t_start" /\ stk' = <<"s_clear">> \o stk
      /\ SPARE_COMPLETED \in Record.bits /\ DEST_COMPLETED \notin Record.bits
  BY DEF FtwRestart, Call, bounds, flash
<1>2. config \in Config /\ DOMAIN work.ws.q = 1..config.queue
  BY Basics
<1>3. /\ Called /\ half = FALSE /\ d.ws = work.ws /\ d.h < config.queue
      /\ Is(config, target, work, spare, d.h, d.r, IF stk = <<>> THEN Serving(fails) ELSE {"pending"})
      /\ (op.f = "restart" /\ stk = <<>>) \/ (op.f = "init" /\ stk = <<"i_abort">>)
  BY <1>1 DEF FInv, Restarting, Position, Loaded, FlashAt, QueueSize
<1>4. Is(config, target, work, spare, d.h, d.r, {"pending"})
  <2>1. BlankCell.bits = {} /\ DEST_COMPLETED \in Finished
    BY BlankFacts DEF Finished
  <2>2. Told(config, target, work, spare, d.h, d.r,
             IF stk = <<>> THEN Serving(fails) ELSE {"pending"}, Header, Record)
    BY <1>2, <1>3, States DEF Header, Record
  <2> QED BY <1>1, <2>1, <2>2 DEF Told
<1>5. TypeOK'
  BY <1>1, TypeParts, Zenon
<1>6. RecordStk(op.f, stk)'
  BY <1>1, <1>3, StackPush DEF RecordStk
<1>7. Position(pc, stk, op.f)' /\ Called' /\ Progress'
  BY <1>1, <1>3, <1>6 DEF Position, Called, Progress
<1>8. Writing'
  <2>1. FlashAt(d.h, d.r, {"pending"})' /\ Near(d.ws.q, work.ws.q, d.h)'
    BY <1>1, <1>3, <1>4 DEF FlashAt, Near
  <2> QED BY <1>1, <2>1 DEF Writing
<1>9. /\ pc' # "refresh" /\ Reclaiming' /\ Flushing' /\ Allocating' /\ Restarting' /\ Starting'
      /\ Answered'
  BY <1>1 DEF Reclaiming, Flushing, Allocating, Restarting, Starting, Answered
<1> QED BY <1>1, <1>3, <1>5, <1>7, <1>8, <1>9 DEF FInv

LEMMA RestartEraseStep ==
  ASSUME TypeOK, FInv, Sound(config), RestartErase
  PROVE  TypeOK' /\ FInv'
<1>1. /\ config \in Config /\ ~config.split /\ work \in AreaOf(config.queue)
      /\ d \in MemoryOf(config.queue) /\ Erased \in AreaOf(config.queue)
  BY Basics, ErasedFacts
<1>2. /\ pc = "s_clear" /\ spare' = Erased /\ half' = FALSE /\ Finish("SUCCESS", d)
      /\ target' = target /\ work' = work /\ op' = op /\ applied' = applied /\ bounds' = bounds
  BY <1>1 DEF RestartErase, EraseStep, EraseEnds, bounds
<1>3. /\ Called /\ Flash(Settled)
      /\ (op.f = "restart" /\ stk = <<>>) \/ (op.f = "init" /\ stk = <<"i_abort">>)
  BY <1>2 DEF FInv, Writing, Position
<1>4. Some(config, target, work, Erased, Settled)
  BY <1>3, SomeSpare DEF Flash, Settled
<1>5. CASE op.f = "restart" /\ stk = <<>>
  <2>1. \A x \in Settled : x \in Serving(fails)
    BY DEF Settled, Serving
  <2>2. Some(config, target, work, Erased, Serving(fails))
    BY <1>4, <2>1, SomeMore
  <2>3. op.f \notin {"write", "allocate"}
    BY <1>5
  <2> QED BY <1>1, <1>2, <1>3, <1>5, <2>2, <2>3, ServiceReturns
<1>6. CASE op.f = "init" /\ stk = <<"i_abort">>
  <2>1. pc' = "i_abort" /\ stk' = <<>> /\ status' = "SUCCESS" /\ d' = d
    BY <1>2, <1>6, StackTop DEF Finish, Return
  <2>2. config' = config /\ calls' = calls /\ crashes' = crashes /\ fails' = fails
    BY <1>2 DEF bounds
  <2>3. TypeOK'
    BY <1>1, <1>2, <2>1, <2>2, TypeParts, Zenon
  <2>4. Position(pc, stk, op.f)' /\ Called' /\ Progress'
    BY <1>2, <1>3, <1>6, <2>1, <2>2 DEF Position, Called, Progress
  <2>5. Flash(Settled)'
    BY <1>2, <1>4, <2>2 DEF Flash
  <2>6. Starting'
    BY <2>1, <2>5 DEF Starting
  <2>7. /\ pc' # "refresh" /\ Reclaiming' /\ Flushing' /\ Allocating' /\ Writing' /\ Restarting'
        /\ Answered'
    BY <2>1 DEF Reclaiming, Flushing, Allocating, Writing, Restarting, Answered
  <2> QED BY <1>2, <2>3, <2>4, <2>6, <2>7 DEF FInv
<1> QED BY <1>3, <1>5, <1>6

LEMMA FtwGetLastWriteStep ==
  ASSUME TypeOK, FInv, Sound(config), FtwGetLastWrite
  PROVE  TypeOK' /\ FInv'
<1>1. /\ half' = half /\ pc = "l_check" /\ target' = target /\ work' = work /\ spare' = spare
      /\ op' = op /\ applied' = applied /\ bounds' = bounds
  BY DEF FtwGetLastWrite, bounds, flash
<1>2. /\ config \in Config /\ DOMAIN work.ws.q = 1..config.queue
      /\ work \in AreaOf(config.queue) /\ spare \in AreaOf(config.queue)
  BY Basics
<1>3. /\ Called /\ half = FALSE /\ d.ws = work.ws /\ d.h < config.queue
      /\ Is(config, target, work, spare, d.h, d.r, Serving(fails))
      /\ op.f = "last" /\ stk = <<>>
  BY <1>1 DEF FInv, Restarting, Position, Loaded, FlashAt, QueueSize
<1>4. CASE Finish("NOT_FOUND", d) \/ Finish("SUCCESS", d)
  <2>1. Some(config, target, work, spare, Serving(fails))
    BY <1>3, LoadedFlash
  <2>2. op.f \notin {"write", "allocate"}
    BY <1>3
  <2> QED BY <1>1, <1>2, <1>3, <1>4, <2>1, <2>2, ServiceReturns
<1>5. CASE /\ AllWritten \/ NothingSpared
           /\ Call("refresh", <<"b_check", "l_abort">>) /\ d' = d /\ status' = status
  <2>1. /\ config' = config /\ calls' = calls /\ crashes' = crashes /\ fails' = fails
        /\ pc' = "refresh" /\ stk' = <<"b_check", "l_abort">>
    BY <1>1, <1>3, <1>5, StackPush DEF bounds, Call
  <2>2. TypeOK'
    BY <1>1, <1>5, <2>1, TypeParts, Zenon
  <2>3. \/ "tidy" \in Serving(fails) /\ Is(config, target, work, spare, d.h, d.r, {"tidy"})
        \/ "written" \in Serving(fails) /\ Is(config, target, work, spare, d.h, d.r, {"written"})
    <3>1. /\ BlankCell.bits = {} /\ SPARE_COMPLETED \in Finished /\ SPARE_COMPLETED \in Spared
          /\ DEST_COMPLETED \notin Spared
          /\ "open" \notin Serving(fails) /\ "torn" \notin Serving(fails)
      BY BlankFacts DEF Finished, Spared, SPARE_COMPLETED, DEST_COMPLETED, Serving
    <3>2. Told(config, target, work, spare, d.h, d.r, Serving(fails), Header, Record)
      BY <1>2, <1>3, States DEF Header, Record
    <3>3. CASE AllWritten
      BY <3>1, <3>2, <3>3 DEF Told, AllWritten
    <3>4. CASE NothingSpared
      BY <3>1, <3>2, <3>4 DEF Told, NothingSpared
    <3> QED BY <1>5, <3>3, <3>4
  <2>4. Is(config, target, work, spare, d.h, d.r, Serving(fails) \cap {"tidy", "written"})
    BY <2>3, IsMore
  <2>5. Flash(Serving(fails) \cap {"tidy", "written"})'
    <3>1. Some(config, target, work, spare, Serving(fails) \cap {"tidy", "written"})
      BY <1>2, <2>4, IsSome
    <3> QED BY <1>1, <2>1, <3>1 DEF Flash
  <2>6. Position(pc, stk, op.f)' /\ Called' /\ Progress'
    BY <1>1, <1>3, <2>1 DEF Position, RoomStk, Called, Progress
  <2>7. Refreshing'
    BY <2>1, <2>5, StackEqual DEF Refreshing
  <2>8. /\ Reclaiming' /\ Flushing' /\ Allocating' /\ Writing' /\ Restarting' /\ Starting'
        /\ Answered'
    BY <2>1 DEF Reclaiming, Flushing, Allocating, Writing, Restarting, Starting, Answered
  <2> QED BY <1>1, <1>3, <2>2, <2>6, <2>7, <2>8 DEF FInv
<1> QED BY <1>4, <1>5 DEF FtwGetLastWrite

LEMMA GetLastWriteAbortedStep ==
  ASSUME TypeOK, FInv, Sound(config), GetLastWriteAborted
  PROVE  TypeOK' /\ FInv'
<1>1. /\ half' = half /\ pc = "l_abort" /\ target' = target /\ work' = work /\ spare' = spare
      /\ op' = op /\ applied' = applied /\ bounds' = bounds /\ Finish("NOT_FOUND", d)
  BY DEF GetLastWriteAborted, bounds, flash
<1>2. work \in AreaOf(config.queue) /\ spare \in AreaOf(config.queue)
  BY Basics
<1>3. Called /\ half = FALSE /\ op.f \notin {"write", "allocate"} /\ stk = <<>> /\ Flash(Settled)
  BY <1>1 DEF FInv, Restarting, Position
<1>4. Some(config, target, work, spare, Serving(fails))
  BY <1>3, SettledServes DEF Flash
<1> QED BY <1>1, <1>2, <1>3, <1>4, ServiceReturns

(* What FtwAbort finds, for each of its callers. *)
LEMMA AbortCalled ==
  ASSUME TypeOK, FInv, Sound(config), pc = "b_check"
  PROVE  /\ Called /\ half = FALSE /\ d.ws = work.ws /\ d.h < config.queue
         /\ \/ op.f = "abort" /\ stk = <<>> /\ FlashAt(d.h, d.r, Settled)
            \/ op.f = "init" /\ stk = <<"i_done">> /\ FlashAt(d.h, d.r, Settled)
            \/ /\ op.f = "last" /\ stk = <<"l_abort">>
               /\ FlashAt(d.h, d.r, Serving(fails) \cap {"tidy", "written"})
            \/ op.f = "init" /\ stk = <<"i_last">> /\ FlashAt(d.h, d.r, {"torn", "open"})
            \/ op.f = "init" /\ stk = <<"i_tail">> /\ FlashAt(d.h, d.r, {"written"})
            \/ /\ op.f = "init" /\ stk = <<"refresh", "i_first">>
               /\ \/ FlashAt(d.h, d.r, {"vacant"})
                  \/ /\ FlashAt(d.h, d.r, {"pending"})
                     /\ Record.body = WorkBlk /\ work.data = spare.data
<1>1. Restarting /\ Called /\ half = FALSE /\ Position(pc, stk, op.f)
  BY DEF FInv
<1>2. CASE op.f = "abort" /\ stk = <<>>
  BY <1>1, <1>2 DEF Restarting, Loaded, QueueSize
<1>3. CASE op.f = "last" /\ stk = <<"l_abort">>
  BY <1>1, <1>3 DEF Restarting, Loaded, QueueSize
<1>4. CASE op.f = "init" /\ stk = <<"i_done">>
  BY <1>1, <1>4 DEF Restarting, Loaded, QueueSize
<1>5. CASE op.f = "init" /\ stk = <<"i_last">>
  BY <1>1, <1>5 DEF Restarting, Loaded, QueueSize
<1>6. CASE op.f = "init" /\ stk = <<"i_tail">>
  BY <1>1, <1>6 DEF Restarting, Loaded, QueueSize
<1>7. CASE op.f = "init" /\ stk = <<"refresh", "i_first">>
  BY <1>1, <1>7 DEF Restarting, Loaded, QueueSize
<1> QED BY <1>1, <1>2, <1>3, <1>4, <1>5, <1>6, <1>7 DEF Position

(* FtwAbort returns to the function that called it. *)
LEMMA AbortReturns ==
  ASSUME TypeOK, Sound(config), Called, half' = FALSE, op' = op, applied' = applied,
         bounds' = bounds, target' = target,
         work' \in AreaOf(config.queue), spare' \in AreaOf(config.queue),
         NEW s, NEW m \in MemoryOf(config.queue), Finish(s, m),
         \/ op.f = "init" /\ stk = <<"i_done">> /\ Flash(Settled)'
         \/ op.f = "last" /\ stk = <<"l_abort">> /\ Flash(Settled)'
         \/ /\ op.f = "init" /\ stk = <<"i_last">>
            /\ d' = m => Loaded({"vacant", "torn", "tidy", "written", "pending"})' \/ Aborted'
         \/ /\ op.f = "init" /\ stk = <<"i_tail">>
            /\ d' = m => Aborted'
         \/ op.f = "init" /\ stk = <<"refresh", "i_first">> /\ Flash(Every)'
  PROVE  TypeOK' /\ FInv'
<1>1. config' = config /\ calls' = calls /\ crashes' = crashes /\ fails' = fails
  BY DEF bounds
<1>2. stk # <<>>
  BY StackTop
<1>3. d' = m /\ pc' = Head(stk) /\ stk' = Tail(stk) /\ status' = s
  BY <1>2 DEF Finish, Return
<1>4. TypeOK'
  BY <1>1, <1>3, TypeParts, Zenon
<1>5. Called' /\ Progress'
  BY <1>1 DEF Called, Progress
<1>6. CASE op.f = "last" /\ stk = <<"l_abort">> /\ Flash(Settled)'
  <2>1. pc' = "l_abort" /\ stk' = <<>>
    BY <1>3, <1>6, StackTop
  <2>2. Position(pc, stk, op.f)'
    BY <1>6, <2>1 DEF Position
  <2>3. /\ pc' # "refresh" /\ Reclaiming' /\ Flushing' /\ Allocating' /\ Writing' /\ Starting'
        /\ Answered'
    BY <2>1 DEF Reclaiming, Flushing, Allocating, Writing, Starting, Answered
  <2>4. Restarting'
    BY <1>6, <2>1 DEF Restarting
  <2> QED BY <1>4, <1>5, <2>2, <2>3, <2>4 DEF FInv
<1>7. CASE op.f = "init" /\ stk = <<"refresh", "i_first">> /\ Flash(Every)'
  <2>1. pc' = "refresh" /\ stk' = <<"i_first">>
    BY <1>3, <1>7, StackTop
  <2>2. Position(pc, stk, op.f)'
    BY <1>7, <2>1 DEF Position, FullStk
  <2>3. /\ Reclaiming' /\ Flushing' /\ Allocating' /\ Writing' /\ Restarting' /\ Starting'
        /\ Answered'
    BY <2>1 DEF Reclaiming, Flushing, Allocating, Writing, Restarting, Starting, Answered
  <2>4. Refreshing'
    BY <1>7, <2>1, StackEqual DEF Refreshing
  <2> QED BY <1>4, <1>5, <2>2, <2>3, <2>4 DEF FInv
<1>8. CASE /\ op.f = "init" /\ stk' = <<>>
           /\ \/ pc' = "i_done" /\ Flash(Settled)'
              \/ /\ pc' = "i_last"
                 /\ Loaded({"vacant", "torn", "tidy", "written", "pending"})' \/ Aborted'
              \/ pc' = "i_tail" /\ Aborted'
  <2>1. Position(pc, stk, op.f)'
    BY <1>8 DEF Position
  <2>2. /\ pc' # "refresh" /\ Reclaiming' /\ Flushing' /\ Allocating' /\ Writing' /\ Restarting'
        /\ Answered'
    BY <1>8 DEF Reclaiming, Flushing, Allocating, Writing, Restarting, Answered
  <2>3. Starting'
    BY <1>8 DEF Starting
  <2> QED BY <1>4, <1>5, <2>1, <2>2, <2>3 DEF FInv
<1> QED BY <1>3, <1>6, <1>7, <1>8, StackTop

LEMMA AbortNothingStep ==
  ASSUME TypeOK, FInv, Sound(config), AbortNothing
  PROVE  TypeOK' /\ FInv'
<1>1. /\ half' = half /\ pc = "b_check" /\ target' = target /\ work' = work /\ spare' = spare
      /\ op' = op /\ applied' = applied /\ bounds' = bounds /\ Finish("NOT_FOUND", d)
      /\ HEADER_ALLOCATED \notin Header.bits \/ WRITES_COMPLETED \in Header.bits
  BY DEF AbortNothing, bounds, flash
<1>2. /\ config \in Config /\ DOMAIN work.ws.q = 1..config.queue
      /\ work \in AreaOf(config.queue) /\ spare \in AreaOf(config.queue)
      /\ d \in MemoryOf(config.queue)
  BY Basics
<1>3. Called /\ half = FALSE /\ d.ws = work.ws /\ d.h < config.queue
  BY <1>1, AbortCalled
<1>4. ASSUME NEW S, FlashAt(d.h, d.r, S)
      PROVE  /\ FlashAt(d.h, d.r, S \cap {"vacant", "torn"})
             /\ "vacant" \in S \/ "torn" \in S
  <2>1. Told(config, target, work, spare, d.h, d.r, S, Header, Record)
    BY <1>2, <1>3, <1>4, States DEF FlashAt, Header, Record
  <2>2. \/ "vacant" \in S /\ Is(config, target, work, spare, d.h, d.r, {"vacant"})
        \/ "torn" \in S /\ Is(config, target, work, spare, d.h, d.r, {"torn"})
    BY <1>1, <2>1 DEF Told
  <2> QED BY <2>2, IsMore DEF FlashAt
<1>5. ASSUME FlashAt(d.h, d.r, Settled) PROVE Flash(Settled)
  BY <1>5, LoadedFlash DEF FlashAt, Flash
<1>6. CASE op.f = "abort" /\ stk = <<>> /\ FlashAt(d.h, d.r, Settled)
  <2>1. Some(config, target, work, spare, Serving(fails)) /\ op.f \notin {"write", "allocate"}
    BY <1>5, <1>6, SettledServes DEF Flash
  <2> QED BY <1>1, <1>2, <1>3, <1>6, <2>1, ServiceReturns
<1>7. CASE op.f = "init" /\ stk = <<"i_done">> /\ FlashAt(d.h, d.r, Settled)
  <2>1. Flash(Settled)'
    BY <1>1, <1>5, <1>7 DEF Flash, bounds
  <2> QED BY <1>1, <1>2, <1>3, <1>7, <2>1, AbortReturns
<1>8. CASE op.f = "init" /\ stk = <<"i_last">> /\ FlashAt(d.h, d.r, {"torn", "open"})
  <2>1. Is(config, target, work, spare, d.h, d.r, {"vacant", "torn", "tidy", "written", "pending"})
    <3>1. FlashAt(d.h, d.r, {"torn", "open"} \cap {"vacant", "torn"})
      BY <1>4, <1>8
    <3> QED BY <3>1, IsMore DEF FlashAt
  <2>2. d' = d => Loaded({"vacant", "torn", "tidy", "written", "pending"})'
    BY <1>1, <1>3, <2>1 DEF Loaded, FlashAt, bounds, QueueSize
  <2> QED BY <1>1, <1>2, <1>3, <1>8, <2>2, AbortReturns
<1>9. CASE op.f = "init" /\ stk = <<"refresh", "i_first">>
  <2>1. FlashAt(d.h, d.r, {"vacant"}) \/ FlashAt(d.h, d.r, {"pending"})
    BY <1>1, <1>9, AbortCalled, StackEqual
  <2>2. Some(config, target, work, spare, Every)
    BY <2>1, LoadedFlash DEF FlashAt, Every
  <2>3. Flash(Every)'
    BY <1>1, <2>2 DEF Flash, bounds
  <2> QED BY <1>1, <1>2, <1>3, <1>9, <2>3, AbortReturns
<1>10. ~FlashAt(d.h, d.r, {"written"}) /\ ~FlashAt(d.h, d.r, Serving(fails) \cap {"tidy", "written"})
  <2>1. PICK S : S = Serving(fails) \cap {"tidy", "written"}
    OBVIOUS
  <2>2. "vacant" \notin S /\ "torn" \notin S
    BY <2>1
  <2>3. ~FlashAt(d.h, d.r, S)
    BY <1>4, <2>2
  <2>4. PICK T : T = {"written"}
    OBVIOUS
  <2>5. "vacant" \notin T /\ "torn" \notin T
    BY <2>4
  <2>6. ~FlashAt(d.h, d.r, T)
    BY <1>4, <2>5
  <2> QED BY <2>1, <2>3, <2>4, <2>6
<1> QED BY <1>1, <1>6, <1>7, <1>8, <1>9, <1>10, AbortCalled

(* The last header is marked as complete, in memory and on flash. *)
LEMMA Completed ==
  ASSUME TypeOK, Sound(config), d.ws = work.ws, d.h < config.queue,
         IsValidWorkSpace(work.ws), Homes(target, work),
         HEADER_ALLOCATED \in work.ws.q[d.h].bits,
         NEW bits, Open(config, work.ws.q, d.h, d.r, bits) \/ Written(config, work.ws.q, d.h, d.r),
         config' = config, target' = target, spare' = spare,
         work' = FtwUpdateFvState(work, d.h, WRITES_COMPLETED),
         NEW m, m = FtwUpdateFvState(d, d.h, WRITES_COMPLETED)
  PROVE  Flash(Settled)' /\ Flash(Every)' /\ (d' = m => Aborted')
<1>1. /\ config \in Config /\ config.queue \in Nat /\ DOMAIN work.ws.q = 1..config.queue
      /\ d \in MemoryOf(config.queue) /\ work \in AreaOf(config.queue) /\ d.h \in 1..config.queue
      /\ DOMAIN d.ws.q = 1..config.queue
  BY Basics, MemoryFields
<1>2. PICK c : c = Marked(work.ws.q[d.h], WRITES_COMPLETED)
  OBVIOUS
<1>3. WRITES_COMPLETED \in {1, 2, 4}
  BY DEF WRITES_COMPLETED
<1>4. /\ c.body = work.ws.q[d.h].body /\ WRITES_COMPLETED \in c.bits /\ HEADER_ALLOCATED \in c.bits
  BY <1>2, MarkedFields
<1>5. /\ work' \in AreaOf(config.queue) /\ work'.data = work.data
      /\ work'.ws \in SpaceOf(config.queue) /\ SameHeader(work'.ws, work.ws)
      /\ work'.ws.q = Put(work.ws.q, d.h, c) /\ work'.ws.q[d.h] = c
  BY <1>1, <1>2, <1>3, AreaMark
<1>6. /\ m \in MemoryOf(config.queue) /\ m.h = d.h /\ m.r = d.r
      /\ m.ws \in SpaceOf(config.queue) /\ SameHeader(m.ws, d.ws)
      /\ m.ws.q = Put(d.ws.q, d.h, c)
  BY <1>1, <1>2, <1>3, MemoryMark
<1>7. m.ws = work'.ws
  <2>1. SameHeader(m.ws, work'.ws) /\ m.ws.q = work'.ws.q
    BY <1>5, <1>6 DEF SameHeader
  <2> QED BY <1>5, <1>6, <2>1, SpaceEqual
<1>8. Homes(target, work') /\ IsValidWorkSpace(work'.ws)
  BY <1>5, HomesData DEF SameHeader, IsValidWorkSpace
<1>9. Vacant(config, work'.ws.q, d.h + Records(config) + 1, d.h + Records(config) + 2)
  BY <1>1, <1>4, <1>5, HeaderDone
<1>10. Is(config, target, work', spare, d.h + Records(config) + 1, d.h + Records(config) + 2, {"vacant"})
  BY <1>8, <1>9 DEF Is
<1>11. /\ Some(config, target, work', spare, Settled) /\ Some(config, target, work', spare, Every)
  <2>1. Some(config, target, work', spare, {"vacant"})
    BY <1>1, <1>10, IsSome
  <2> QED BY <2>1, SomeMore DEF Settled, Every
<1>12. OpenHeader(config, work.ws.q, d.h)
  BY DEF Open, Written
<1>13. d.h + Records(config) <= config.queue /\ work.ws.q[d.h].body = Records(config)
  BY <1>1, <1>12, OpenBounds DEF OpenHeader
<1>14. ASSUME d' = m PROVE Aborted'
  <2>1. FlashAt(d.h + Records(config) + 1, d.h + Records(config) + 2, {"vacant"})'
    BY <1>6, <1>10, <1>14 DEF FlashAt
  <2>2. {HEADER_ALLOCATED, WRITES_COMPLETED} \subseteq work'.ws.q[d'.h].bits
    BY <1>4, <1>5, <1>6, <1>14
  <2> QED BY <1>4, <1>5, <1>6, <1>7, <1>13, <1>14, <2>1, <2>2 DEF Aborted, QueueSize
<1> QED BY <1>11, <1>14 DEF Flash

LEMMA FtwAbortStep ==
  ASSUME TypeOK, FInv, Sound(config), FtwAbort
  PROVE  TypeOK' /\ FInv'
<1>1. PICK m : m = FtwUpdateFvState(d, d.h, WRITES_COMPLETED)
  OBVIOUS
<1>2. /\ half' = half /\ pc = "b_check" /\ target' = target /\ spare' = spare
      /\ op' = op /\ applied' = applied /\ bounds' = bounds /\ Finish("SUCCESS", m)
      /\ work' = FtwUpdateFvState(work, d.h, WRITES_COMPLETED)
      /\ HEADER_ALLOCATED \in Header.bits /\ WRITES_COMPLETED \notin Header.bits
      /\ config' = config
  BY <1>1, Zenon DEF FtwAbort, FtwUpdateFvState, bounds
<1>3. /\ config \in Config /\ config.queue \in Nat /\ DOMAIN work.ws.q = 1..config.queue
      /\ work \in AreaOf(config.queue) /\ spare \in AreaOf(config.queue)
      /\ d \in MemoryOf(config.queue) /\ d.h \in 1..config.queue
  BY Basics, MemoryFields
<1>4. /\ Called /\ half = FALSE /\ d.ws = work.ws /\ d.h < config.queue
      /\ HEADER_ALLOCATED \in work.ws.q[d.h].bits
  BY <1>2, AbortCalled DEF Header
<1>5. work' \in AreaOf(config.queue) /\ m \in MemoryOf(config.queue)
  BY <1>1, <1>2, <1>3, AreaMark, MemoryMark DEF WRITES_COMPLETED
<1>6. ASSUME FlashAt(d.h, d.r, {"open", "tidy", "written"})
      PROVE  Flash(Settled)' /\ Flash(Every)' /\ (d' = m => Aborted')
  <2>1. /\ IsValidWorkSpace(work.ws) /\ Homes(target, work)
        /\ Open(config, work.ws.q, d.h, d.r, {}) \/ Written(config, work.ws.q, d.h, d.r)
    BY <1>6 DEF FlashAt, Is
  <2> QED BY <1>1, <1>2, <1>4, <2>1, Completed
<1>7. ASSUME NEW S, FlashAt(d.h, d.r, S)
      PROVE  Told(config, target, work, spare, d.h, d.r, S, Header, Record)
  BY <1>3, <1>4, <1>7, States DEF FlashAt, Header, Record
<1>8. ASSUME FlashAt(d.h, d.r, Settled) PROVE Flash(Settled)'
  <2>1. Is(config, target, work, spare, d.h, d.r, {"tidy"})
    BY <1>2, <1>7, <1>8, BlankFacts DEF Told, Settled
  <2>2. FlashAt(d.h, d.r, {"open", "tidy", "written"})
    BY <2>1, IsMore DEF FlashAt
  <2> QED BY <1>6, <2>2
<1>9. CASE op.f = "abort" /\ stk = <<>> /\ FlashAt(d.h, d.r, Settled)
  <2>1. \A x \in Settled : x \in Serving(fails)
    BY DEF Settled, Serving
  <2>2. Some(config, target', work', spare', Serving(fails)) /\ op.f \notin {"write", "allocate"}
    BY <1>2, <1>8, <1>9, <2>1, SomeMore DEF Flash
  <2>3. spare' \in AreaOf(config.queue)
    BY <1>2, <1>3
  <2> QED BY <1>2, <1>4, <1>5, <1>9, <2>2, <2>3, ServiceReturns
<1>10. spare' \in AreaOf(config.queue) /\ half' = FALSE
  BY <1>2, <1>3, <1>4
<1>11. CASE op.f = "init" /\ stk = <<"i_done">> /\ FlashAt(d.h, d.r, Settled)
  BY <1>2, <1>4, <1>5, <1>8, <1>10, <1>11, AbortReturns
<1>12. CASE /\ op.f = "last" /\ stk = <<"l_abort">>
            /\ FlashAt(d.h, d.r, Serving(fails) \cap {"tidy", "written"})
  <2>1. FlashAt(d.h, d.r, {"open", "tidy", "written"})
    BY <1>12, IsMore DEF FlashAt
  <2> QED BY <1>2, <1>4, <1>5, <1>6, <1>10, <1>12, <2>1, AbortReturns
<1>13. CASE op.f = "init" /\ stk = <<"i_tail">> /\ FlashAt(d.h, d.r, {"written"})
  <2>1. FlashAt(d.h, d.r, {"open", "tidy", "written"})
    BY <1>13, IsMore DEF FlashAt
  <2> QED BY <1>2, <1>4, <1>5, <1>6, <1>10, <1>13, <2>1, AbortReturns
<1>14. CASE op.f = "init" /\ stk = <<"i_last">> /\ FlashAt(d.h, d.r, {"torn", "open"})
  <2>1. CASE Is(config, target, work, spare, d.h, d.r, {"open"})
    <3>1. FlashAt(d.h, d.r, {"open", "tidy", "written"})
      BY <2>1, IsMore DEF FlashAt
    <3> QED BY <1>2, <1>4, <1>5, <1>6, <1>10, <1>14, <3>1, AbortReturns
  <2>2. CASE Is(config, target, work, spare, d.h, d.r, {"torn"})
    <3>1. IsValidWorkSpace(work.ws) /\ Homes(target, work) /\ Torn(config, work.ws.q, d.h, d.r)
      BY <2>2 DEF Is
    <3>2. PICK c : c = Marked(work.ws.q[d.h], WRITES_COMPLETED)
      OBVIOUS
    <3>3. WRITES_COMPLETED \in {1, 2, 4}
      BY DEF WRITES_COMPLETED
    <3>4. c.body = work.ws.q[d.h].body /\ HEADER_ALLOCATED \in c.bits
      BY <1>4, <3>2, MarkedFields
    <3>5. /\ work'.data = work.data
          /\ work'.ws \in SpaceOf(config.queue) /\ SameHeader(work'.ws, work.ws)
          /\ work'.ws.q = Put(work.ws.q, d.h, c)
      BY <1>2, <1>3, <3>2, <3>3, AreaMark
    <3>6. /\ m.h = d.h /\ m.r = d.r
          /\ m.ws \in SpaceOf(config.queue) /\ SameHeader(m.ws, d.ws)
          /\ m.ws.q = Put(d.ws.q, d.h, c)
      BY <1>1, <1>3, <1>4, <3>2, <3>3, MemoryMark
    <3>7. m.ws = work'.ws
      <4>1. SameHeader(m.ws, work'.ws) /\ m.ws.q = work'.ws.q
        BY <1>4, <3>5, <3>6 DEF SameHeader
      <4> QED BY <3>5, <3>6, <4>1, SpaceEqual
    <3>8. Homes(target, work') /\ IsValidWorkSpace(work'.ws)
      BY <3>1, <3>5, HomesData DEF SameHeader, IsValidWorkSpace
    <3>9. Torn(config, work'.ws.q, d.h, d.r)
      BY <1>3, <3>1, <3>4, <3>5, TornStays
    <3>10. d' = m => Loaded({"vacant", "torn", "tidy", "written", "pending"})'
      <4>1. Is(config, target, work', spare, d.h, d.r, {"vacant", "torn", "tidy", "written", "pending"})
        BY <3>8, <3>9 DEF Is
      <4> QED BY <1>2, <1>4, <3>6, <3>7, <4>1 DEF Loaded, FlashAt, QueueSize
    <3> QED BY <1>2, <1>4, <1>5, <1>10, <1>14, <3>10, AbortReturns
  <2> QED BY <1>7, <1>14, <2>1, <2>2, BlankFacts DEF Told
<1>15. CASE op.f = "init" /\ stk = <<"refresh", "i_first">>
  <2>1. FlashAt(d.h, d.r, {"pending"}) /\ Record.body = WorkBlk /\ work.data = spare.data
    <3>1. ~FlashAt(d.h, d.r, {"vacant"})
      BY <1>2, <1>7, BlankFacts DEF Told
    <3> QED BY <1>2, <1>15, <3>1, AbortCalled, StackEqual
  <2>2. /\ IsValidWorkSpace(work.ws) /\ Open(config, work.ws.q, d.h, d.r, Spared)
        /\ Holds(spare.data, WorkBlk) /\ Others(target, work, WorkBlk)
    BY <1>4, <2>1 DEF FlashAt, Is, Pend, Record
  <2>3. Homes(target, work)
    <3>1. WorkBlk \in Block /\ Home(target, work, WorkBlk) = spare.data
      BY <2>1, BlockAssumption DEF Home
    <3> QED BY <2>2, <3>1, HomesOthers
  <2>4. Flash(Every)'
    BY <1>1, <1>2, <1>4, <2>2, <2>3, Completed
  <2> QED BY <1>2, <1>4, <1>5, <1>10, <1>15, <2>4, AbortReturns
<1> QED BY <1>2, <1>9, <1>11, <1>12, <1>13, <1>14, <1>15, AbortCalled

(* InitFtwProtocol goes on, and calls a function that reads the work space first. *)
LEMMA InitGoes ==
  ASSUME TypeOK, Sound(config), Called, half' = FALSE, op' = op, op.f = "init",
         target' = target, work' = work, spare' = spare, status' = status, applied' = applied,
         bounds' = bounds, d' = d,
         \/ /\ pc' \in {"i_first", "i_last", "i_tail", "i_restart", "i_done"} /\ stk' = <<>>
            /\ Starting'
         \/ /\ pc' = "refresh" /\ Refreshing'
            /\ stk' \in {<<"b_check", "i_last">>, <<"b_check", "i_tail">>,
                         <<"s_check", "i_abort">>, <<"b_check", "i_done">>}
  PROVE  TypeOK' /\ FInv'
<1>1. config' = config /\ calls' = calls /\ crashes' = crashes /\ fails' = fails
  BY DEF bounds
<1>2. half' \in BOOLEAN
  OBVIOUS
<1>3. TypeOK'
  BY <1>1, <1>2, TypeParts, Zenon
<1>4. Called' /\ Progress'
  BY <1>1 DEF Called, Progress
<1>5. /\ Reclaiming' /\ Flushing' /\ Allocating' /\ Writing' /\ Restarting' /\ Answered'
  BY DEF Reclaiming, Flushing, Allocating, Writing, Restarting, Answered
<1>6. CASE /\ pc' \in {"i_first", "i_last", "i_tail", "i_restart", "i_done"} /\ stk' = <<>>
           /\ Starting'
  <2>1. Position(pc, stk, op.f)' /\ pc' # "refresh"
    BY <1>6 DEF Position
  <2> QED BY <1>3, <1>4, <1>5, <1>6, <2>1 DEF FInv
<1>7. CASE /\ pc' = "refresh" /\ Refreshing'
           /\ stk' \in {<<"b_check", "i_last">>, <<"b_check", "i_tail">>,
                        <<"s_check", "i_abort">>, <<"b_check", "i_done">>}
  <2>1. Position(pc, stk, op.f)'
    BY <1>7 DEF Position, RoomStk, FullStk
  <2>2. Starting'
    BY <1>7 DEF Starting
  <2> QED BY <1>3, <1>4, <1>5, <1>7, <2>1, <2>2 DEF FInv
<1> QED BY <1>6, <1>7

LEMMA BootStep ==
  ASSUME TypeOK, FInv, Sound(config), Boot
  PROVE  TypeOK' /\ FInv'
<1>1. /\ half' = half /\ pc = "off" /\ target' = target /\ work' = work /\ spare' = spare
      /\ op' = [f |-> "init"] /\ applied' = applied /\ status' = status /\ d' = d
      /\ config' = config /\ calls' = calls /\ crashes' = crashes /\ fails' = fails
      /\ pc' = "refresh" /\ stk' = <<"i_valid">> \o stk
  BY DEF Boot, Call, bounds, flash
<1>2. stk = <<>> /\ half = FALSE /\ Durable(config, target, work, spare)
  BY <1>1 DEF FInv, Position, Starting
<1>3. stk' = <<"i_valid">>
  BY <1>1, <1>2, StackPush
<1>4. TypeOK'
  BY <1>1, TypeParts, Zenon
<1>5. Position(pc, stk, op.f)' /\ Called' /\ Progress'
  BY <1>1, <1>3 DEF Position, FullStk, Called, Progress
<1>6. Refreshing'
  BY <1>1, <1>2, <1>3, StackEqual DEF Refreshing
<1>7. /\ Reclaiming' /\ Flushing' /\ Allocating' /\ Writing' /\ Restarting' /\ Starting' /\ Answered'
  BY <1>1 DEF Reclaiming, Flushing, Allocating, Writing, Restarting, Starting, Answered
<1> QED BY <1>1, <1>2, <1>4, <1>5, <1>6, <1>7 DEF FInv

LEMMA InitWorkSpaceStep ==
  ASSUME TypeOK, FInv, Sound(config), InitWorkSpace
  PROVE  TypeOK' /\ FInv'
<1>1. /\ half' = half /\ pc = "i_valid" /\ target' = target /\ work' = work /\ spare' = spare
      /\ op' = op /\ applied' = applied /\ status' = status /\ bounds' = bounds
      /\ config' = config /\ calls' = calls /\ crashes' = crashes /\ fails' = fails
  BY DEF InitWorkSpace, bounds, flash
<1>2. /\ config \in Config /\ d \in MemoryOf(config.queue) /\ spare.ws \in SpaceOf(config.queue)
  BY Basics
<1>3. /\ Called /\ op.f = "init" /\ stk = <<>> /\ half = FALSE /\ d.ws = work.ws
      /\ \/ Loaded(Every)
         \/ FromSpare(config, target, work, spare)
         \/ Never(config, target, work, spare)
  BY <1>1 DEF FInv, Position, Starting
<1>4. /\ Loaded(Every) => IsValidWorkSpace(work.ws)
      /\ FromSpare(config, target, work, spare) =>
           ~IsValidWorkSpace(work.ws) /\ IsValidWorkSpace(spare.ws)
      /\ Never(config, target, work, spare) =>
           ~IsValidWorkSpace(work.ws) /\ ~IsValidWorkSpace(spare.ws)
  BY DEF Loaded, FlashAt, Is, FromSpare, SpareGood, Never, Unused, IsValidWorkSpace
<1>5. CASE IsValidWorkSpace(d.ws) /\ Goto("i_first") /\ d' = d
  <2>1. Loaded(Every)'
    BY <1>1, <1>3, <1>4, <1>5 DEF Loaded, FlashAt, QueueSize
  <2>2. pc' = "i_first" /\ stk' = <<>> /\ half' = FALSE
    BY <1>1, <1>3, <1>5 DEF Goto
  <2>3. Starting'
    BY <2>1, <2>2 DEF Starting
  <2> QED BY <1>1, <1>3, <1>5, <2>2, <2>3, InitGoes
<1>6. CASE /\ ~IsValidWorkSpace(d.ws) /\ IsValidWorkSpace(spare.ws)
           /\ d' = [d EXCEPT !.ws = spare.ws]
           /\ Call("f_spare", <<"refresh", "b_check", "refresh", "i_first">>)
  <2>1. FromSpare(config, target, work, spare)
    BY <1>3, <1>4, <1>6
  <2>2. pc' = "f_spare" /\ stk' = <<"refresh", "b_check", "refresh", "i_first">>
    BY <1>3, <1>6, StackPush DEF Call
  <2>3. d' \in MemoryOf(config.queue)
    <3>1. PICK v : v = spare.ws
      OBVIOUS
    <3>2. d' = [d EXCEPT !.ws = v] /\ v \in SpaceOf(config.queue)
      BY <1>2, <1>6, <3>1
    <3> QED BY <1>2, <3>2 DEF MemoryOf
  <2>4. TypeOK'
    BY <1>1, <2>3, TypeParts, Zenon
  <2>5. Position(pc, stk, op.f)' /\ Called' /\ Progress'
    BY <1>1, <1>3, <2>2 DEF Position, FlushStk, Called, Progress
  <2>6. ~FlushesReclaim' /\ ~FlushesRecord'
    BY <2>2, StackTop DEF FlushesReclaim, FlushesRecord
  <2>7. Flushing'
    <3>1. FlushSource'
      BY <1>1, <2>1, <2>6 DEF FlushSource, FromSpare
    <3>2. ~IsValidWorkSpace(work.ws)' /\ Roomy(config, work.ws.q)'
      BY <1>1, <2>1 DEF FromSpare
    <3> QED BY <2>2, <2>6, <3>1, <3>2 DEF Flushing
  <2>8. /\ pc' # "refresh" /\ Reclaiming' /\ Allocating' /\ Writing' /\ Restarting' /\ Starting'
        /\ Answered'
    BY <2>2 DEF Reclaiming, Allocating, Writing, Restarting, Starting, Answered
  <2> QED BY <1>1, <1>3, <2>4, <2>5, <2>7, <2>8 DEF FInv
<1>7. CASE /\ ~IsValidWorkSpace(d.ws) /\ ~IsValidWorkSpace(spare.ws)
           /\ d' = [d EXCEPT !.ws = [BlankSpace EXCEPT !.sig = TRUE, !.valid = TRUE]]
           /\ Call("reclaim_fresh", <<"i_first">>)
  <2>1. Never(config, target, work, spare)
    BY <1>3, <1>4, <1>7
  <2>2. pc' = "reclaim_fresh" /\ stk' = <<"i_first">>
    BY <1>3, <1>7, StackPush DEF Call
  <2>3. d' \in MemoryOf(config.queue) /\ d'.ws.sig
    <3>1. BlankSpace \in SpaceOf(config.queue)
      BY <1>2, ErasedFacts
    <3>2. PICK v : v = [BlankSpace EXCEPT !.sig = TRUE, !.valid = TRUE]
      OBVIOUS
    <3>3. v \in SpaceOf(config.queue) /\ v.sig
      BY <3>1, <3>2 DEF SpaceOf
    <3>4. d' = [d EXCEPT !.ws = v]
      BY <1>7, <3>2
    <3> QED BY <1>2, <3>3, <3>4 DEF MemoryOf
  <2>4. TypeOK'
    BY <1>1, <2>3, TypeParts, Zenon
  <2>5. Position(pc, stk, op.f)' /\ Called' /\ Progress'
    BY <1>1, <1>3, <2>2 DEF Position, Called, Progress
  <2>6. Reclaiming'
    <3>1. Old'
      BY <1>1, <2>1, <2>2, StackEqual DEF Old, Never
    <3>2. ~IsValidWorkSpace(spare.ws)'
      BY <1>1, <1>7
    <3> QED BY <2>2, <2>3, <3>1, <3>2 DEF Reclaiming
  <2>7. /\ pc' # "refresh" /\ Flushing' /\ Allocating' /\ Writing' /\ Restarting' /\ Starting'
        /\ Answered'
    BY <2>2 DEF Flushing, Allocating, Writing, Restarting, Starting, Answered
  <2> QED BY <1>1, <1>3, <2>4, <2>5, <2>6, <2>7 DEF FInv
<1> QED BY <1>5, <1>6, <1>7 DEF InitWorkSpace

(* A record that is not the first of its header is one of several. *)
LEMMA OpenTidy ==
  ASSUME NEW cf \in Config, Sound(cf), NEW t, NEW w, NEW s, NEW h, NEW r,
         Is(cf, t, w, s, h, r, {"open"}), r # h + 1
  PROVE  Is(cf, t, w, s, h, r, {"tidy"})
<1>1. Open(cf, w.ws.q, h, r, {})
  BY DEF Is
<1>2. cf.queue \in Nat /\ Records(cf) \in 1..(cf.queue - 1) /\ Uniform(cf, Records(cf))
  BY SoundBasics
<1>3. h \in 1..(cf.queue - 1) /\ r \in (h + 1)..(h + Records(cf))
  BY <1>1, OpenBounds DEF Open
<1>4. Records(cf) > 1
  BY <1>2, <1>3
<1>5. Single(cf)
  BY <1>2, <1>4 DEF Uniform
<1> QED BY <1>5 DEF Is, Tidy

LEMMA InitAbortFirstStep ==
  ASSUME TypeOK, FInv, Sound(config), InitAbortFirst
  PROVE  TypeOK' /\ FInv'
<1>1. /\ half' = half /\ pc = "i_first" /\ target' = target /\ work' = work /\ spare' = spare
      /\ op' = op /\ applied' = applied /\ status' = status /\ bounds' = bounds
      /\ config' = config /\ d' = d
  BY DEF InitAbortFirst, bounds, flash
<1>2. config \in Config /\ DOMAIN work.ws.q = 1..config.queue
  BY Basics
<1>3. /\ Called /\ op.f = "init" /\ stk = <<>> /\ half = FALSE /\ d.ws = work.ws
      /\ d.h < config.queue /\ Is(config, target, work, spare, d.h, d.r, Every)
  BY <1>1 DEF FInv, Position, Starting, Loaded, FlashAt, QueueSize
<1>4. Told(config, target, work, spare, d.h, d.r, Every, Header, Record)
  BY <1>2, <1>3, States DEF Header, Record
<1>5. SPARE_COMPLETED \in Finished /\ SPARE_COMPLETED \in Spared /\ BlankCell.bits = {}
  BY BlankFacts DEF Finished, Spared
<1>6. half' = FALSE
  BY <1>1, <1>3
<1>7. CASE NothingSpared /\ Call("refresh", <<"b_check", "i_last">>)
  <2>1. \/ Is(config, target, work, spare, d.h, d.r, {"torn"})
        \/ Is(config, target, work, spare, d.h, d.r, {"open"})
    BY <1>4, <1>5, <1>7 DEF Told, NothingSpared, Every
  <2>2. Some(config, target, work, spare, {"torn", "open"})
    BY <2>1, LoadedFlash
  <2>3. pc' = "refresh" /\ stk' = <<"b_check", "i_last">>
    BY <1>3, <1>7, StackPush DEF Call
  <2>4. Refreshing'
    BY <1>1, <2>2, <2>3, StackEqual DEF Refreshing, Flash
  <2> QED BY <1>1, <1>3, <1>6, <2>3, <2>4, InitGoes
<1>8. CASE ~NothingSpared /\ Goto("i_last")
  <2>1. pc' = "i_last" /\ stk' = <<>>
    BY <1>3, <1>8 DEF Goto
  <2> DEFINE S == {"vacant", "torn", "tidy", "written", "pending"}
  <2>2. Is(config, target, work, spare, d.h, d.r, S)
    <3>1. CASE HEADER_ALLOCATED \in Header.bits /\ Is(config, target, work, spare, d.h, d.r, {"open"}) /\ Record.bits = {}
      <4>1. d.r # d.h + 1
        BY <1>8, <3>1 DEF NothingSpared, IsFirstRecordOfWrites
      <4>2. Is(config, target, work, spare, d.h, d.r, {"tidy"})
        BY <1>2, <3>1, <4>1, OpenTidy
      <4> QED BY <4>2, IsMore
    <3>2. CASE \/ Is(config, target, work, spare, d.h, d.r, {"vacant"})
               \/ Is(config, target, work, spare, d.h, d.r, {"torn"})
               \/ Is(config, target, work, spare, d.h, d.r, {"tidy"})
               \/ Is(config, target, work, spare, d.h, d.r, {"written"})
               \/ Is(config, target, work, spare, d.h, d.r, {"pending"})
      BY <3>2, IsMore
    <3> QED BY <1>4, <3>1, <3>2 DEF Told
  <2>3. Loaded(S)'
    BY <1>1, <1>3, <2>2 DEF Loaded, FlashAt, QueueSize
  <2>4. Starting'
    BY <2>1, <2>3 DEF Starting
  <2> QED BY <1>1, <1>3, <1>6, <2>1, <2>4, InitGoes
<1> QED BY <1>7, <1>8 DEF InitAbortFirst

LEMMA InitAbortLastStep ==
  ASSUME TypeOK, FInv, Sound(config), InitAbortLast
  PROVE  TypeOK' /\ FInv'
<1> DEFINE S == {"vacant", "torn", "tidy", "written", "pending"}
<1>1. /\ half' = half /\ pc = "i_last" /\ target' = target /\ work' = work /\ spare' = spare
      /\ op' = op /\ applied' = applied /\ status' = status /\ bounds' = bounds
      /\ config' = config /\ d' = d
  BY DEF InitAbortLast, bounds, flash
<1>2. /\ config \in Config /\ DOMAIN work.ws.q = 1..config.queue
      /\ config.queue \in Nat /\ Records(config) \in 1..(config.queue - 1)
  BY Basics
<1>3. /\ Called /\ op.f = "init" /\ stk = <<>> /\ half = FALSE
      /\ \/ /\ d.ws = work.ws /\ d.h < config.queue
            /\ Is(config, target, work, spare, d.h, d.r, S)
         \/ Aborted
  BY <1>1 DEF FInv, Position, Starting, Loaded, FlashAt, QueueSize
<1>4. half' = FALSE
  BY <1>1, <1>3
<1>5. DEST_COMPLETED \in Finished /\ DEST_COMPLETED \notin Spared /\ BlankCell.bits = {}
  BY BlankFacts DEF Finished, Spared, DEST_COMPLETED, SPARE_COMPLETED
<1>6. Aborted => WRITES_COMPLETED \in Header.bits
  BY DEF Aborted, Header
<1>7. \/ Told(config, target, work, spare, d.h, d.r, S, Header, Record) /\ d.ws = work.ws /\ d.h < config.queue
      \/ Aborted
  BY <1>2, <1>3, States DEF Header, Record
<1>8. CASE AllWritten /\ Call("refresh", <<"b_check", "i_tail">>)
  <2>1. Is(config, target, work, spare, d.h, d.r, {"written"})
    BY <1>5, <1>6, <1>7, <1>8 DEF Told, AllWritten
  <2>2. Some(config, target, work, spare, {"written"})
    BY <2>1, LoadedFlash
  <2>3. pc' = "refresh" /\ stk' = <<"b_check", "i_tail">>
    BY <1>3, <1>8, StackPush DEF Call
  <2>4. Refreshing'
    BY <1>1, <2>2, <2>3, StackEqual DEF Refreshing, Flash
  <2> QED BY <1>1, <1>3, <1>4, <2>3, <2>4, InitGoes
<1>9. CASE ~AllWritten /\ Goto("i_tail")
  <2>1. pc' = "i_tail" /\ stk' = <<>>
    BY <1>3, <1>9 DEF Goto
  <2>2. Loaded({"vacant", "torn", "tidy", "pending"})' \/ Aborted'
    <3>1. CASE Aborted
      BY <1>1, <3>1 DEF Aborted, FlashAt, QueueSize
    <3>2. CASE ~Aborted
      <4>1. Is(config, target, work, spare, d.h, d.r, {"vacant", "torn", "tidy", "pending"})
        <5>1. CASE /\ WRITES_COMPLETED \notin Header.bits /\ Header.body = Records(config)
                   /\ Record.bits = Finished /\ d.r = d.h + Records(config)
          <6>1. NumberOfWrites(Header) = Records(config)
            BY <1>2, <5>1 DEF NumberOfWrites
          <6> QED BY <1>5, <1>9, <5>1, <6>1 DEF AllWritten, IsLastRecordOfWrites, Header
        <5>2. CASE \/ Is(config, target, work, spare, d.h, d.r, {"vacant"})
                   \/ Is(config, target, work, spare, d.h, d.r, {"torn"})
                   \/ Is(config, target, work, spare, d.h, d.r, {"tidy"})
                   \/ Is(config, target, work, spare, d.h, d.r, {"pending"})
          BY <5>2, IsMore
        <5> QED BY <1>7, <3>2, <5>1, <5>2 DEF Told
      <4> QED BY <1>1, <1>7, <3>2, <4>1 DEF Loaded, FlashAt, QueueSize
    <3> QED BY <3>1, <3>2
  <2>3. Starting'
    BY <2>1, <2>2 DEF Starting
  <2> QED BY <1>1, <1>3, <1>4, <2>1, <2>3, InitGoes
<1> QED BY <1>8, <1>9 DEF InitAbortLast


(* Only a header that was not written completely is followed by something. *)
LEMMA TrailingTorn ==
  ASSUME TypeOK, Sound(config), pc = "i_tail", Starting
  PROVE  IF Trailing
         THEN d.ws = work.ws /\ Is(config, target, work, spare, d.h, d.r, {"torn"})
         ELSE \/ /\ d.ws = work.ws /\ d.h < config.queue
                 /\ Is(config, target, work, spare, d.h, d.r, {"vacant", "tidy", "pending"})
              \/ Aborted
<1> DEFINE n == Records(config)
           size == WriteTotalSize(NumberOfWrites(Header))
           from == d.h + (IF Header.bits = {} THEN 0 ELSE size)
<1>1. /\ config \in Config /\ DOMAIN work.ws.q = 1..config.queue
      /\ config.queue \in Nat /\ n \in 1..(config.queue - 1)
      /\ d.h \in 1..config.queue /\ d.r \in 1..config.queue /\ config.queue < AllOnes
  BY Basics DEF MemoryOf
<1>2. \/ /\ d.ws = work.ws /\ d.h < config.queue
         /\ Is(config, target, work, spare, d.h, d.r, {"vacant", "torn", "tidy", "pending"})
      \/ Aborted
  BY DEF Starting, Loaded, FlashAt, QueueSize
<1>3. ASSUME d.ws = work.ws, from \in Nat, Clean(work.ws.q, from) PROVE ~Trailing
  BY <1>1, <1>3 DEF Trailing, Clean, Cells, QueueSize
<1>4. ASSUME Header.body = n PROVE NumberOfWrites(Header) = n /\ size = n + 1
  BY <1>1, <1>4, SMT DEF NumberOfWrites, WriteTotalSize
<1>5. CASE Aborted
  <2>1. Header.body = n /\ Header.bits # {} /\ d.ws = work.ws
    BY <1>5 DEF Aborted, Header
  <2>2. Clean(work.ws.q, d.h + n + 1)
    BY <1>5 DEF Aborted, FlashAt, Is, Vacant
  <2>3. from = d.h + n + 1
    BY <1>1, <1>4, <2>1
  <2> QED BY <1>1, <1>3, <1>5, <2>1, <2>2, <2>3
<1>6. CASE d.ws = work.ws /\ d.h < config.queue /\ Is(config, target, work, spare, d.h, d.r, {"vacant"})
  <2>1. Clean(work.ws.q, d.h)
    BY <1>6 DEF Is, Vacant
  <2>2. Header = BlankCell
    BY <1>1, <1>6, <2>1 DEF Clean, Header
  <2>3. from = d.h
    BY <1>1, <2>2, BlankFacts
  <2> QED BY <1>1, <1>3, <1>6, <2>1, <2>3, IsMore
<1>7. CASE d.ws = work.ws /\ d.h < config.queue /\ Is(config, target, work, spare, d.h, d.r, {"torn"})
  <2>1. Header.body = Mixed /\ Header.bits # {}
    BY <1>7 DEF Is, Torn, Header
  <2>2. NumberOfWrites(Header) = AllOnes
    BY <2>1, BlankFacts DEF NumberOfWrites
  <2>3. from = d.h
    BY <1>1, <2>1, <2>2 DEF WriteTotalSize
  <2>4. d.ws.q[d.h] # BlankCell
    BY <2>1, BlankFacts DEF Header
  <2>5. Trailing
    BY <1>1, <2>3, <2>4 DEF Trailing, Cells, QueueSize
  <2> QED BY <1>7, <2>5
<1>8. CASE /\ d.ws = work.ws /\ d.h < config.queue
           /\ \/ Is(config, target, work, spare, d.h, d.r, {"tidy"})
              \/ Is(config, target, work, spare, d.h, d.r, {"pending"})
  <2>1. PICK bits : Open(config, work.ws.q, d.h, d.r, bits)
    BY <1>8 DEF Is, Pend
  <2>2. Header.body = n /\ Header.bits # {}
    BY <1>8, <2>1 DEF Open, OpenHeader, Header
  <2>3. from = d.h + n + 1
    BY <1>1, <1>4, <2>2
  <2>4. Clean(work.ws.q, d.r + 1) /\ d.r <= d.h + n
    BY <1>1, <2>1 DEF Open
  <2>5. Clean(work.ws.q, d.h + n + 1)
    BY <1>1, <2>4 DEF Clean
  <2>6. ~Trailing
    BY <1>1, <1>3, <1>8, <2>3, <2>5
  <2> QED BY <1>8, <2>6, IsMore
<1>9. \/ Aborted
      \/ /\ d.ws = work.ws /\ d.h < config.queue
         /\ \/ Is(config, target, work, spare, d.h, d.r, {"vacant"})
            \/ Is(config, target, work, spare, d.h, d.r, {"torn"})
            \/ Is(config, target, work, spare, d.h, d.r, {"tidy"})
            \/ Is(config, target, work, spare, d.h, d.r, {"pending"})
  BY <1>2 DEF Is
<1> QED BY <1>5, <1>6, <1>7, <1>8, <1>9

LEMMA InitReclaimStep ==
  ASSUME TypeOK, FInv, Sound(config), InitReclaim
  PROVE  TypeOK' /\ FInv'
<1>1. /\ half' = half /\ pc = "i_tail" /\ target' = target /\ work' = work /\ spare' = spare
      /\ op' = op /\ applied' = applied /\ status' = status /\ bounds' = bounds
      /\ config' = config /\ d' = d
  BY DEF InitReclaim, bounds, flash
<1>2. Called /\ op.f = "init" /\ stk = <<>> /\ half = FALSE /\ Starting
  BY <1>1 DEF FInv, Position
<1>3. half' = FALSE
  BY <1>1, <1>2
<1>4. CASE Trailing /\ Call("reclaim", <<"i_restart">>)
  <2>1. d.ws = work.ws /\ Some(config, target, work, spare, {"torn"})
    BY <1>1, <1>2, <1>4, TrailingTorn, LoadedFlash
  <2>2. pc' = "reclaim" /\ stk' = <<"i_restart">>
    BY <1>2, <1>4, StackPush DEF Call
  <2>3. TypeOK'
    <3>1. calls' = calls /\ crashes' = crashes /\ fails' = fails
      BY <1>1 DEF bounds
    <3> QED BY <1>1, <3>1, TypeParts, Zenon
  <2>4. Position(pc, stk, op.f)' /\ Called' /\ Progress'
    BY <1>1, <1>2, <2>2, StackEqual DEF Position, ReclaimStk, Called, Progress
  <2>5. Reclaiming'
    <3>1. Old'
      BY <1>1, <2>1, <2>2 DEF Old, Flash
    <3> QED BY <1>1, <2>1, <2>2, <3>1 DEF Reclaiming
  <2>6. /\ pc' # "refresh" /\ Flushing' /\ Allocating' /\ Writing' /\ Restarting' /\ Starting'
        /\ Answered'
    BY <2>2 DEF Flushing, Allocating, Writing, Restarting, Starting, Answered
  <2> QED BY <1>3, <2>3, <2>4, <2>5, <2>6 DEF FInv
<1>5. CASE ~Trailing /\ Goto("i_restart")
  <2>1. pc' = "i_restart" /\ stk' = <<>>
    BY <1>2, <1>5 DEF Goto
  <2>2. Loaded({"vacant", "tidy", "pending"})' \/ Aborted'
    <3>1. \/ /\ d.ws = work.ws /\ d.h < config.queue
             /\ Is(config, target, work, spare, d.h, d.r, {"vacant", "tidy", "pending"})
          \/ Aborted
      BY <1>1, <1>2, <1>5, TrailingTorn
    <3> QED BY <1>1, <3>1 DEF Loaded, Aborted, FlashAt, QueueSize
  <2>3. Starting'
    BY <2>1, <2>2 DEF Starting
  <2> QED BY <1>1, <1>2, <1>3, <2>1, <2>3, InitGoes
<1> QED BY <1>4, <1>5 DEF InitReclaim

LEMMA InitRestartStep ==
  ASSUME TypeOK, FInv, Sound(config), InitRestart
  PROVE  TypeOK' /\ FInv'
<1> DEFINE S == {"vacant", "tidy", "pending"}
           pending == WRITES_COMPLETED \notin Header.bits /\ SPARE_COMPLETED \in Record.bits
<1>1. /\ half' = half /\ pc = "i_restart" /\ target' = target /\ work' = work /\ spare' = spare
      /\ op' = op /\ applied' = applied /\ status' = status /\ bounds' = bounds
      /\ config' = config /\ d' = d
  BY DEF InitRestart, bounds, flash
<1>2. /\ config \in Config /\ DOMAIN work.ws.q = 1..config.queue
      /\ config.queue \in Nat /\ config.targets \subseteq Block
  BY Basics DEF Config
<1>3. /\ Called /\ op.f = "init" /\ stk = <<>> /\ half = FALSE
      /\ \/ /\ d.ws = work.ws /\ d.h < config.queue
            /\ Is(config, target, work, spare, d.h, d.r, S)
         \/ Aborted
  BY <1>1 DEF FInv, Position, Starting, Loaded, FlashAt, QueueSize
<1>4. half' = FALSE
  BY <1>1, <1>3
<1>5. SPARE_COMPLETED \in Spared /\ BlankCell.bits = {}
  BY BlankFacts DEF Spared
<1>6. Aborted => ~pending
  BY DEF Aborted, Header
<1>7. \/ Told(config, target, work, spare, d.h, d.r, S, Header, Record)
      \/ Aborted
  BY <1>2, <1>3, States DEF Header, Record
<1>8. ASSUME pending
      PROVE  /\ Is(config, target, work, spare, d.h, d.r, {"pending"})
             /\ Record.body \in Block
  BY <1>2, <1>5, <1>6, <1>7, <1>8 DEF Told
<1>9. ASSUME ~pending PROVE Some(config, target, work, spare, Settled)
  <2>1. CASE Aborted
    <3>1. Is(config, target, work, spare, d.h + Records(config) + 1, d.h + Records(config) + 2, {"vacant"})
      BY <2>1 DEF Aborted, FlashAt
    <3>2. Some(config, target, work, spare, {"vacant"})
      BY <1>2, <3>1, IsSome
    <3> QED BY <3>2, SomeMore DEF Settled
  <2>2. CASE ~Aborted
    <3>1. \/ Is(config, target, work, spare, d.h, d.r, {"vacant"})
          \/ Is(config, target, work, spare, d.h, d.r, {"tidy"})
      BY <1>5, <1>7, <1>9, <2>2 DEF Told
    <3> QED BY <3>1, LoadedFlash DEF Settled
  <2> QED BY <2>1, <2>2
<1>10. CASE ~pending /\ Goto("i_done")
  <2>1. pc' = "i_done" /\ stk' = <<>>
    BY <1>3, <1>10 DEF Goto
  <2>2. Starting'
    BY <1>1, <1>9, <1>10, <2>1 DEF Starting, Flash
  <2> QED BY <1>1, <1>3, <1>4, <2>1, <2>2, InitGoes
<1>11. CASE pending /\ Call("refresh", IF Record.body \in Block THEN <<"s_check", "i_abort">>
                                       ELSE <<"b_check", "i_done">>)
  <2>1. Some(config, target, work, spare, {"pending"})
    BY <1>8, <1>11, LoadedFlash
  <2>2. pc' = "refresh" /\ stk' = <<"s_check", "i_abort">>
    BY <1>3, <1>8, <1>11, StackPush DEF Call
  <2>3. Refreshing'
    BY <1>1, <2>1, <2>2, StackEqual DEF Refreshing, Flash
  <2> QED BY <1>1, <1>3, <1>4, <2>2, <2>3, InitGoes
<1> QED BY <1>10, <1>11 DEF InitRestart

LEMMA InitRestartedStep ==
  ASSUME TypeOK, FInv, Sound(config), InitRestarted
  PROVE  TypeOK' /\ FInv'
<1>1. /\ half' = half /\ pc = "i_abort" /\ target' = target /\ work' = work /\ spare' = spare
      /\ op' = op /\ applied' = applied /\ status' = status /\ bounds' = bounds
      /\ config' = config /\ d' = d
  BY DEF InitRestarted, bounds, flash
<1>2. Called /\ op.f = "init" /\ stk = <<>> /\ half = FALSE /\ Flash(Settled)
  BY <1>1 DEF FInv, Position, Starting
<1>3. pc' = "refresh" /\ stk' = <<"b_check", "i_done">>
  BY <1>2, StackPush DEF InitRestarted, Call
<1>4. Refreshing' /\ half' = FALSE
  BY <1>1, <1>2, <1>3, StackEqual DEF Refreshing, Flash
<1> QED BY <1>1, <1>2, <1>3, <1>4, InitGoes

LEMMA InitDoneStep ==
  ASSUME TypeOK, FInv, Sound(config), InitDone
  PROVE  TypeOK' /\ FInv'
<1>1. /\ half' = half /\ pc = "i_done" /\ target' = target /\ work' = work /\ spare' = spare
      /\ op' = op /\ applied' = applied /\ status' = status /\ pc' = "idle" /\ stk' = stk
      /\ config' = config /\ calls' = calls /\ crashes' = crashes /\ fails' = fails
      /\ d' = NoData
  BY DEF InitDone, Goto, bounds, flash
<1>2. Called /\ op.f = "init" /\ stk = <<>> /\ half = FALSE /\ Flash(Settled)
  BY <1>1 DEF FInv, Position, Starting
<1>3. TypeOK'
  <2>1. NoData \in MemoryOf(config.queue)
    BY Basics, ErasedFacts
  <2> QED BY <1>1, <2>1, TypeParts, Zenon
<1>4. Flash(Serving(fails))'
  BY <1>1, <1>2, SettledServes DEF Flash
<1>5. Answered'
  BY <1>1, <1>2 DEF Answered
<1> QED BY <1>1, <1>2, <1>3, <1>4, <1>5, Idle

(* A caller calls a service. *)
LEMMA RequestStep ==
  ASSUME TypeOK, FInv, Sound(config), NEW o, NEW l, Request(o, l),
         \/ \E n \in config.writes : o = [f |-> "allocate", n |-> n] /\ l = "a_check"
         \/ \E b \in config.targets, v \in Version, p \in config.private :
              o = [f |-> "write", b |-> b, v |-> v, priv |-> p] /\ l = "w_start"
         \/ o = [f |-> "restart"] /\ l = "s_check"
         \/ o = [f |-> "abort"] /\ l = "b_check"
         \/ o = [f |-> "last"] /\ l = "l_check"
  PROVE  TypeOK' /\ FInv'
<1>1. /\ half' = half /\ pc = "idle" /\ target' = target /\ work' = work /\ spare' = spare
      /\ op' = o /\ applied' = FALSE /\ status' = "SUCCESS" /\ d' = d
      /\ config' = config /\ calls' = calls + 1 /\ crashes' = crashes /\ fails' = fails
      /\ pc' = "refresh" /\ stk' = <<l>> \o stk
      /\ o.f \in config.services /\ calls < config.calls
  BY DEF Request, Call, flash
<1>2. stk = <<>> /\ half = FALSE /\ Flash(Serving(fails))
  BY <1>1 DEF FInv, Position, Starting
<1>3. stk' = <<l>>
  BY <1>1, <1>2, StackPush
<1>4. TypeOK'
  <2>1. calls' \in 0..config.calls
    <3>1. config.calls \in Nat
      BY Basics DEF Config
    <3> QED BY <1>1, <3>1 DEF TypeOK
  <2>2. applied' \in BOOLEAN
    BY <1>1
  <2> QED BY <1>1, <2>1, <2>2, TypeParts, Zenon
<1>5. Called'
  BY <1>1 DEF Called
<1>6. Position(pc, stk, op.f)'
  <2>1. \/ o.f = "allocate" /\ l = "a_check"
        \/ o.f = "write" /\ l = "w_start"
        \/ o.f = "restart" /\ l = "s_check"
        \/ o.f = "abort" /\ l = "b_check"
        \/ o.f = "last" /\ l = "l_check"
    OBVIOUS
  <2> QED BY <1>1, <1>3, <2>1 DEF Position, FullStk
<1>7. Progress'
  <2>1. Head(stk') # "t_dest"
    BY <1>3, StackTop
  <2> QED BY <1>1, <2>1 DEF Progress, Late
<1>8. l = "b_check" => Serving(fails) = Settled
  <2> SUFFICES ASSUME l = "b_check" PROVE Serving(fails) = Settled
    OBVIOUS
  <2>1. "abort" \in config.services
    BY <1>1
  <2>2. config.fails \in Nat /\ fails \in 0..config.fails
    BY Basics DEF Config, TypeOK
  <2>3. ~(fails > 0)
    BY <2>1, <2>2 DEF Sound
  <2> QED BY <2>3 DEF Serving, Settled
<1>9. Refreshing'
  <2>1. l = "b_check" => Flash(Settled)'
    BY <1>1, <1>2, <1>8 DEF Flash
  <2>2. Flash(Serving(fails))'
    BY <1>1, <1>2 DEF Flash
  <2>3. l \in {"a_check", "w_start", "s_check", "b_check", "l_check"}
    OBVIOUS
  <2> QED BY <1>3, <2>1, <2>2, <2>3, StackEqual DEF Refreshing
<1>10. /\ Reclaiming' /\ Flushing' /\ Allocating' /\ Writing' /\ Restarting' /\ Starting'
       /\ Answered'
  BY <1>1 DEF Reclaiming, Flushing, Allocating, Writing, Restarting, Starting, Answered
<1> QED BY <1>1, <1>2, <1>4, <1>5, <1>6, <1>7, <1>9, <1>10 DEF FInv

LEMMA CallersStep ==
  ASSUME TypeOK, FInv, Sound(config), Callers
  PROVE  TypeOK' /\ FInv'
<1>1. CASE CallAllocate
  BY <1>1, RequestStep DEF CallAllocate
<1>2. CASE CallWrite
  BY <1>2, RequestStep DEF CallWrite
<1>3. CASE CallRestart
  BY <1>3, RequestStep DEF CallRestart
<1>4. CASE CallAbort
  BY <1>4, RequestStep DEF CallAbort
<1>5. CASE CallGetLastWrite
  BY <1>5, RequestStep DEF CallGetLastWrite
<1> QED BY <1>1, <1>2, <1>3, <1>4, <1>5 DEF Callers


-----------------------------------------------------------------------------
(* Power loss                                                                *)
-----------------------------------------------------------------------------

(* A state with a valid work space can be recovered from. *)
LEMMA FlashDurable ==
  ASSUME NEW cf \in Config, Sound(cf), NEW t, NEW w, NEW s,
         NEW S, \A x \in S : x \in Every \/ x = "tidy",
         Some(cf, t, w, s, S) \/ (\E h, r : Is(cf, t, w, s, h, r, S))
  PROVE  Durable(cf, t, w, s)
<1>1. Some(cf, t, w, s, S)
  BY IsSome
<1>2. \A x \in S : x \in Every \/ (x = "tidy" /\ "open" \in Every)
  BY DEF Every
<1>3. Some(cf, t, w, s, Every)
  BY <1>1, <1>2, SomeMore
<1> QED BY <1>3 DEF Durable

LEMMA StuffedDurable ==
  ASSUME NEW cf \in Config, Sound(cf), NEW t, NEW w, NEW s, Stuffed(cf, t, w)
  PROVE  Durable(cf, t, w, s)
<1>1. CASE IsValidWorkSpace(w.ws)
  <2>1. PICK h \in cf.queue..(cf.queue + 1) : Vacant(cf, w.ws.q, h, h + 1)
    BY DEF Stuffed, Spent
  <2>2. Is(cf, t, w, s, h, h + 1, {"vacant"})
    BY <1>1, <2>1 DEF Is, Stuffed
  <2> QED BY <2>2, FlashDurable DEF Every
<1>2. CASE ~IsValidWorkSpace(w.ws)
  BY <1>2 DEF Durable, Stale
<1> QED BY <1>1, <1>2

(* At a refresh. *)
LEMMA RefreshDurable ==
  ASSUME TypeOK, FInv, Sound(config), pc = "refresh"
  PROVE  Durable(config, target, work, spare)
<1>1. config \in Config /\ Refreshing /\ (FullStk(op.f, stk) \/ RoomStk(op.f, stk))
  BY Basics DEF FInv, Position
<1>2. \A x \in Serving(fails) : x \in Every \/ x = "tidy"
  BY DEF Serving, Every
<1>3. \A x \in Settled : x \in Every \/ x = "tidy"
  BY DEF Settled, Every
<1>4. \A x \in Serving(fails) \cap {"tidy", "written"} : x \in Every \/ x = "tidy"
  BY <1>2
<1>5. \A x \in {"torn", "open"} : x \in Every \/ x = "tidy"
  BY DEF Every
<1>6. \A x \in {"written"} : x \in Every \/ x = "tidy"
  BY DEF Every
<1>7. \A x \in {"pending"} : x \in Every \/ x = "tidy"
  BY DEF Every
<1>8. \A x \in {"vacant"} : x \in Every \/ x = "tidy"
  BY DEF Every
<1>9. \A x \in Every : x \in Every \/ x = "tidy"
  OBVIOUS
<1>10. Flushed => Durable(config, target, work, spare)
  <2>1. ASSUME NEW h, NEW r, Is(config, target, work, spare, h, r, {"vacant"})
        PROVE  Durable(config, target, work, spare)
    <3>1. PICK S : S = {"vacant"}
      OBVIOUS
    <3>2. Is(config, target, work, spare, h, r, S) /\ \A x \in S : x \in Every
      BY <1>8, <2>1, <3>1 DEF Every
    <3> QED BY <1>1, <3>2, FlashDurable
  <2>2. ASSUME NEW h, NEW r, Is(config, target, work, spare, h, r, {"pending"})
        PROVE  Durable(config, target, work, spare)
    <3>1. PICK S : S = {"pending"}
      OBVIOUS
    <3>2. Is(config, target, work, spare, h, r, S) /\ \A x \in S : x \in Every
      BY <1>7, <2>2, <3>1 DEF Every
    <3> QED BY <1>1, <3>2, FlashDurable
  <2> QED BY <2>1, <2>2 DEF Flushed
<1>11. \/ Durable(config, target, work, spare)
       \/ Flash(Every) \/ Flushed \/ Flash({"torn", "open"}) \/ Flash({"written"})
       \/ Flash({"pending"}) \/ Flash(Settled) \/ Flash(Serving(fails))
       \/ Flash(Serving(fails) \cap {"tidy", "written"}) \/ FlashAt(d.hd, d.rc, {"vacant"})
  BY <1>1 DEF Refreshing, FullStk, RoomStk
<1> HIDE DEF Serving, Every
<1>12. CASE Flash(Every) \/ Flash({"torn", "open"}) \/ Flash({"written"}) \/ Flash({"pending"})
  BY <1>1, <1>5, <1>6, <1>7, <1>9, <1>12, FlashDurable DEF Flash
<1>13. CASE \/ Flash(Settled) \/ Flash(Serving(fails))
            \/ Flash(Serving(fails) \cap {"tidy", "written"}) \/ FlashAt(d.hd, d.rc, {"vacant"})
  BY <1>1, <1>2, <1>3, <1>4, <1>8, <1>13, FlashDurable DEF Flash, FlashAt
<1> QED BY <1>10, <1>11, <1>12, <1>13

(* While the work space is reclaimed. *)
LEMMA ReclaimDurable ==
  ASSUME TypeOK, FInv, Sound(config),
         pc \in {"reclaim", "reclaim_fresh", "rc_erase", "rc_copy", "rc_valid", "rc_invalid",
                 "rc_clear", "rc_restore", "reread"}
  PROVE  Durable(config, target, work, spare)
<1>1. config \in Config /\ Reclaiming
  BY Basics DEF FInv
<1>2. CASE pc \in {"rc_clear", "rc_restore", "reread"}
  <2>1. \E h, r : Is(config, target, work, spare, h, r, {"vacant"})
    BY <1>1, <1>2 DEF Reclaiming, Loaded, FlashAt
  <2> QED BY <1>1, <2>1, FlashDurable DEF Every
<1>3. CASE pc \notin {"rc_clear", "rc_restore", "reread"}
  <2>1. Old
    BY <1>1, <1>3 DEF Reclaiming
  <2>2. CASE Flash({"torn"})
    BY <1>1, <2>2, FlashDurable DEF Flash, Every
  <2>3. CASE Stuffed(config, target, work)
    BY <1>1, <2>3, StuffedDurable
  <2>4. CASE stk = <<"i_first">> /\ Unused(config, work) /\ Homes(target, work)
    <3>1. CASE pc = "rc_invalid"
      <4>1. spare.data = work.data /\ Fresh(spare.ws) /\ spare.ws.valid
        BY <1>1, <3>1 DEF Reclaiming
      <4>2. SpareGood(config, target, work, spare)
        <5>1. WorkBlk \in Block
          BY BlockAssumption
        <5>2. Holds(spare.data, WorkBlk) /\ Others(target, work, WorkBlk)
          BY <2>4, <4>1, <5>1 DEF Homes, Home, Others
        <5> QED BY <4>1, <5>2 DEF SpareGood, Fresh, IsValidWorkSpace
      <4>3. ~IsValidWorkSpace(work.ws) /\ Roomy(config, work.ws.q)
        BY <1>1, <2>4, ErasureRoomy DEF Unused, IsValidWorkSpace
      <4> QED BY <4>2, <4>3 DEF Durable, FromSpare
    <3>2. CASE pc # "rc_invalid"
      <4>1. ~IsValidWorkSpace(spare.ws)
        <5>1. CASE pc = "rc_valid"
          BY <1>1, <5>1 DEF Reclaiming, Buffered, IsValidWorkSpace
        <5>2. CASE pc = "reclaim"
          BY <2>4, <5>2 DEF FInv, Position
        <5> QED BY <1>1, <1>3, <2>4, <3>2, <5>1, <5>2 DEF Reclaiming
      <4> QED BY <2>4, <4>1 DEF Durable, Never
    <3> QED BY <3>1, <3>2
  <2> QED BY <2>1, <2>2, <2>3, <2>4 DEF Old
<1> QED BY <1>2, <1>3

(* While the working block is taken from the spare block. *)
LEMMA FlushDurable ==
  ASSUME TypeOK, FInv, Sound(config),
         pc \in {"f_spare", "f_invalid", "f_erase", "f_copy", "f_valid"}
  PROVE  Durable(config, target, work, spare)
<1>1. config \in Config /\ Flushing /\ SpareGood(config, target, work, spare)
  BY Basics DEF FInv, Flushing, FlushSource
<1>2. CASE FlashAt(d.h, d.r, {"pending"})
  BY <1>1, <1>2, FlashDurable DEF FlashAt, Every
<1>3. CASE Stuffed(config, target, work)
  BY <1>1, <1>3, StuffedDurable
<1>4. CASE ~IsValidWorkSpace(work.ws) /\ Roomy(config, work.ws.q)
  BY <1>1, <1>4 DEF Durable, FromSpare
<1>5. CASE pc = "f_copy"
  <2>1. work = Erased
    BY <1>1, <1>5 DEF Flushing
  <2> QED BY <1>1, <1>4, <2>1, ErasedFacts, ErasureRoomy
<1>6. CASE pc = "f_valid"
  <2>1. work.ws.q = spare.ws.q /\ ~work.ws.valid
    BY <1>1, <1>6 DEF Flushing, Flat
  <2>2. Roomy(config, spare.ws.q)
    <3>1. CASE spare.ws.q = Erasure(config)
      BY <1>1, <3>1, ErasureRoomy
    <3>2. ASSUME NEW h, NEW r, Backup(config, spare, h, r) PROVE Roomy(config, spare.ws.q)
      <4>1. Shape(config, spare.ws.q, h, r)
        BY <3>2 DEF Backup, Shape, Open, OpenHeader
      <4> QED BY <1>1, <4>1, ShapeRoomy
    <3> QED BY <1>1, <3>1, <3>2 DEF SpareGood
  <2> QED BY <1>4, <2>1, <2>2 DEF IsValidWorkSpace
<1> QED BY <1>1, <1>2, <1>3, <1>4, <1>5, <1>6 DEF Flushing

(* At every other point flash is in a named state. *)
LEMMA ServiceDurable ==
  ASSUME TypeOK, FInv, Sound(config),
         pc \in {"idle", "a_check", "a_header", "a_writes", "w_start", "w_check", "w_erase",
                 "w_copy", "w_spare", "w_clear", "w_restore", "t_start", "t_copy", "t_dest",
                 "t_done", "s_check", "s_clear", "l_check", "l_abort"}
  PROVE  Durable(config, target, work, spare)
<1>1. config \in Config /\ Allocating /\ Writing /\ Restarting /\ Starting
  BY Basics DEF FInv
<1>2. \A x \in Serving(fails) : x \in Every \/ x = "tidy"
  BY DEF Serving, Every
<1>3. \A x \in Serving(fails) \ {"vacant"} : x \in Every \/ x = "tidy"
  BY <1>2
<1>4. /\ "vacant" \in Every /\ "written" \in Every /\ "pending" \in Every /\ "open" \in Every
      /\ \A x \in Settled : x \in Every \/ x = "tidy"
  BY DEF Every, Settled
<1>5. CASE pc \in {"idle", "w_clear", "w_restore", "s_clear", "l_abort"}
  <2>1. Flash(Settled) \/ Flash(Serving(fails))
    BY <1>1, <1>5 DEF Writing, Restarting, Starting
  <2> QED BY <1>1, <1>2, <1>4, <2>1, FlashDurable DEF Flash
<1>6. CASE pc \in {"a_check", "a_header", "a_writes", "s_check", "l_check", "w_start"}
  <2>1. PICK S : Loaded(S) /\ S \in {Serving(fails), {"vacant"}, {"tidy"}, {"pending"}}
    BY <1>1, <1>6 DEF Allocating, Writing, Restarting
  <2>2. \A x \in S : x \in Every \/ x = "tidy"
    BY <1>2, <1>4, <2>1
  <2>3. Is(config, target, work, spare, d.h, d.r, S)
    BY <2>1 DEF Loaded, FlashAt
  <2> QED BY <1>1, <2>2, <2>3, FlashDurable
<1>7. CASE pc \in {"w_check", "w_erase", "w_copy", "w_spare", "t_start", "t_copy", "t_dest", "t_done"}
  <2>1. PICK S : /\ FlashAt(d.h, d.r, S)
                 /\ S \in {Serving(fails) \ {"vacant"}, {"open"}, {"pending"}, {"written"}}
    BY <1>1, <1>7 DEF Writing
  <2>2. \A x \in S : x \in Every \/ x = "tidy"
    BY <1>3, <1>4, <2>1
  <2> QED BY <1>1, <2>1, <2>2, FlashDurable DEF FlashAt
<1> QED BY <1>5, <1>6, <1>7

LEMMA InitDurable ==
  ASSUME TypeOK, FInv, Sound(config),
         pc \in {"off", "i_valid", "i_first", "i_last", "i_tail", "i_restart", "i_abort", "i_done"}
  PROVE  Durable(config, target, work, spare)
<1>1. config \in Config /\ Starting
  BY Basics DEF FInv
<1>2. CASE Loaded(Every)
  BY <1>1, <1>2, FlashDurable DEF Loaded, FlashAt
<1>3. CASE Aborted
  BY <1>1, <1>3, FlashDurable DEF Aborted, FlashAt, Every
<1>4. ASSUME NEW S, Loaded(S), \A x \in S : x \in Every \/ x = "tidy"
      PROVE  Durable(config, target, work, spare)
  BY <1>1, <1>4, FlashDurable DEF Loaded, FlashAt
<1>5. CASE \/ Loaded({"vacant", "torn", "tidy", "written", "pending"})
           \/ Loaded({"vacant", "torn", "tidy", "pending"}) \/ Loaded({"vacant", "tidy", "pending"})
  <2>1. PICK S : Loaded(S) /\ \A x \in S : x \in {"vacant", "torn", "tidy", "written", "pending"}
    BY <1>5
  <2> QED BY <1>4, <2>1 DEF Every
<1>6. CASE Flash(Settled)
  <2>1. \A x \in Settled : x \in Every \/ x = "tidy"
    BY DEF Every, Settled
  <2> QED BY <1>1, <1>6, <2>1, FlashDurable DEF Flash
<1> QED BY <1>1, <1>2, <1>3, <1>5, <1>6 DEF Starting, Durable

(* The order of flash operations is such that recovery works after any of them. *)
LEMMA AlwaysDurable ==
  ASSUME TypeOK, FInv, Sound(config)
  PROVE  Durable(config, target, work, spare)
<1>1. CASE pc = "b_check"
  <2>1. config \in Config
    BY Basics
  <2>2. PICK S : /\ FlashAt(d.h, d.r, S)
                 /\ S \in {Settled, Serving(fails) \cap {"tidy", "written"}, {"torn", "open"},
                           {"written"}, {"vacant"}, {"pending"}}
    BY <1>1, AbortCalled
  <2>3. \A x \in S : x \in Every \/ x = "tidy"
    BY <2>2 DEF Settled, Every
  <2> QED BY <2>1, <2>2, <2>3, FlashDurable DEF FlashAt
<1> QED BY <1>1, RefreshDurable, ReclaimDurable, FlushDurable, ServiceDurable, InitDurable
        DEF FInv, Position


(* Whatever memory held, the driver starts again from flash. *)
LEMMA ResetStep ==
  ASSUME TypeOK, Sound(config), Reset, work' \in AreaOf(config.queue),
         Durable(config, target, work', spare)
  PROVE  TypeOK' /\ FInv'
<1>1. /\ half' = FALSE /\ target' = target /\ spare' = spare /\ op' = [f |-> "init"]
      /\ applied' = FALSE /\ status' = "SUCCESS" /\ d' = NoData /\ config' = config
      /\ calls' = calls /\ crashes' = crashes + 1 /\ fails' = fails
      /\ pc' = "off" /\ stk' = <<>> /\ crashes < config.crashes
  BY DEF Reset
<1>2. TypeOK'
  <2>1. NoData \in MemoryOf(config.queue) /\ config.crashes \in Nat
    BY Basics, ErasedFacts DEF Config
  <2>2. crashes' \in 0..config.crashes
    BY <1>1, <2>1 DEF TypeOK
  <2>3. half' \in BOOLEAN /\ applied' \in BOOLEAN
    BY <1>1
  <2> QED BY <1>1, <2>1, <2>2, <2>3, TypeParts, Zenon
<1>3. Position(pc, stk, op.f)' /\ Called' /\ Progress'
  BY <1>1 DEF Position, Called, Progress
<1>4. /\ pc' # "refresh" /\ Reclaiming' /\ Flushing' /\ Allocating' /\ Writing' /\ Restarting'
      /\ Answered'
  BY <1>1 DEF Reclaiming, Flushing, Allocating, Writing, Restarting, Answered
<1>5. Starting'
  BY <1>1 DEF Starting
<1> QED BY <1>1, <1>2, <1>3, <1>4, <1>5 DEF FInv

LEMMA PowerLossStep ==
  ASSUME TypeOK, FInv, Sound(config), PowerLoss
  PROVE  TypeOK' /\ FInv'
<1>1. work' = work /\ work \in AreaOf(config.queue)
  BY Basics DEF PowerLoss
<1>2. Durable(config, target, work', spare)
  BY <1>1, AlwaysDurable
<1> QED BY <1>1, <1>2, ResetStep DEF PowerLoss

(* What is left of a header that was not written completely. *)
LEMMA HeaderTorn ==
  ASSUME TypeOK, FInv, Sound(config), PowerLossInHeader
  PROVE  /\ work' \in AreaOf(config.queue) /\ work'.data = work.data
         /\ Is(config, target, work, spare, d.h, d.r, {"vacant"})
         /\ Is(config, target, work', spare, d.h, d.r, {"torn"})
<1>1. pc = "a_header" /\ Reset
  BY DEF PowerLossInHeader
<1>2. /\ config \in Config /\ config.queue \in Nat /\ 2 <= config.queue
      /\ d \in MemoryOf(config.queue) /\ DOMAIN work.ws.q = 1..config.queue
      /\ work \in AreaOf(config.queue)
  BY Basics
<1>3. /\ d.off = d.h /\ d.h < config.queue /\ Is(config, target, work, spare, d.h, d.r, {"vacant"})
      /\ IsValidWorkSpace(work.ws) /\ Homes(target, work) /\ Vacant(config, work.ws.q, d.h, d.r)
  BY <1>1 DEF FInv, Allocating, Loaded, FlashAt, Is, QueueSize
<1>4. PICK c : c = [bits |-> {HEADER_ALLOCATED}, body |-> Mixed]
  OBVIOUS
<1>5. c \in CellOf(config.queue) /\ HEADER_ALLOCATED \in c.bits /\ c.body = Mixed
  BY <1>4 DEF CellOf, HEADER_ALLOCATED
<1>6. d.h \in 1..config.queue /\ work.ws.q[d.h] = BlankCell
  <2>1. d.h \in 1..config.queue
    BY <1>2, MemoryFields
  <2> QED BY <1>2, <1>3, <2>1 DEF Vacant, Clean
<1>7. work' = PutCell(work, d.h, c)
  <2>1. Program(BlankCell, c) = c
    BY <1>5, ProgramBlank
  <2>2. work' = [work EXCEPT !.ws.q[d.off] = Program(work.ws.q[d.off], c)]
    BY <1>4, Zenon DEF PowerLossInHeader
  <2>3. Program(work.ws.q[d.off], c) = c
    BY <1>3, <1>6, <2>1
  <2> QED BY <1>3, <2>2, <2>3 DEF PutCell
<1>8. /\ work' \in AreaOf(config.queue) /\ work'.data = work.data
      /\ SameHeader(work'.ws, work.ws) /\ work'.ws.q = Put(work.ws.q, d.h, c)
  BY <1>2, <1>5, <1>6, <1>7, AreaCell
<1>9. Torn(config, work'.ws.q, d.h, d.r)
  BY <1>2, <1>3, <1>5, <1>8, HeaderWritten
<1>10. Homes(target, work') /\ IsValidWorkSpace(work'.ws)
  BY <1>3, <1>8, HomesData DEF SameHeader, IsValidWorkSpace
<1>11. Is(config, target, work', spare, d.h, d.r, {"torn"})
  BY <1>9, <1>10 DEF Is
<1> QED BY <1>3, <1>8, <1>11

LEMMA PowerLossInHeaderStep ==
  ASSUME TypeOK, FInv, Sound(config), PowerLossInHeader
  PROVE  TypeOK' /\ FInv'
<1>1. /\ work' \in AreaOf(config.queue) /\ Reset
      /\ Is(config, target, work', spare, d.h, d.r, {"torn"})
  BY HeaderTorn DEF PowerLossInHeader
<1>2. Durable(config, target, work', spare)
  BY <1>1, Basics, FlashDurable DEF Every
<1> QED BY <1>1, <1>2, ResetStep

-----------------------------------------------------------------------------
(* Flash errors                                                              *)
-----------------------------------------------------------------------------

(* An error leaves a state that services can go on from. *)
LEMMA ErrorServes ==
  ASSUME TypeOK, FInv, Sound(config), pc \in config.failOps, op.f # "init",
         config.fails > 0, NEW f, f > 0
  PROVE  Flash(Serving(f))
<1>1. config \in Config /\ Single(config) /\ config \in Configs
  BY Basics DEF Sound, TypeOK
<1>2. pc \in FlashOps /\ pc \notin FlushOps
  BY <1>1, FailAssumption DEF Sound
<1>3. /\ Serving(f) = {"vacant", "tidy", "written", "pending"}
      /\ \A x \in Settled : x \in Serving(f)
  BY DEF Serving, Settled
<1>4. /\ Position(pc, stk, op.f) /\ Reclaiming /\ Allocating /\ Writing
  BY DEF FInv
<1>5. CASE pc \in {"rc_erase", "rc_copy", "rc_valid", "rc_invalid"}
  <2>1. ReclaimStk(op.f, stk) /\ Old
    BY <1>4, <1>5 DEF Position, Reclaiming
  <2>2. stk \notin {<<"i_restart">>, <<"i_first">>, <<"reread", "i_valid">>}
    BY <2>1, StackEqual DEF ReclaimStk
  <2>3. Stuffed(config, target, work) /\ IsValidWorkSpace(work.ws)
    BY <2>1, <2>2 DEF Old
  <2>4. PICK h \in config.queue..(config.queue + 1) : Vacant(config, work.ws.q, h, h + 1)
    BY <2>3 DEF Stuffed, Spent
  <2>5. Is(config, target, work, spare, h, h + 1, Serving(f))
    BY <1>3, <2>3, <2>4 DEF Is, Stuffed
  <2> QED BY <1>1, <2>5, IsSome DEF Flash
<1>6. CASE pc \in {"rc_clear", "rc_restore", "a_header", "a_writes", "w_erase", "w_copy", "w_spare",
                   "t_start", "t_copy", "t_dest", "t_done"}
  <2>1. PICK S : /\ Is(config, target, work, spare, d.h, d.r, S)
                 /\ S \in {{"vacant"}, {"tidy"}, {"open"}, {"pending"}, {"written"}}
    BY <1>4, <1>6 DEF Reclaiming, Allocating, Writing, Loaded, FlashAt
  <2>2. \A x \in S : x \in Serving(f) \/ (x = "open" /\ "tidy" \in Serving(f) /\ Single(config))
    BY <1>1, <1>3, <2>1
  <2>3. Is(config, target, work, spare, d.h, d.r, Serving(f))
    BY <2>1, <2>2, IsMore
  <2> QED BY <1>1, <2>3, IsSome DEF Flash
<1>7. CASE pc \in {"w_clear", "w_restore", "s_clear"}
  <2>1. Flash(Settled)
    BY <1>4, <1>7 DEF Writing
  <2> QED BY <1>3, <2>1, SomeMore DEF Flash
<1> QED BY <1>2, <1>5, <1>6, <1>7 DEF FlashOps, FlushOps, AfterErase

LEMMA FlashErrorStep ==
  ASSUME TypeOK, FInv, Sound(config), FlashError
  PROVE  TypeOK' /\ FInv'
<1>1. /\ half' = FALSE /\ target' = target /\ spare' = spare /\ work' = work /\ op' = op
      /\ applied' = applied /\ status' = "ABORTED" /\ d' = NoData /\ config' = config
      /\ calls' = calls /\ crashes' = crashes /\ fails' = fails + 1
      /\ pc' = "idle" /\ stk' = <<>> /\ fails < config.fails
      /\ pc \in config.failOps /\ op.f # "init"
  BY DEF FlashError, flash
<1>2. /\ NoData \in MemoryOf(config.queue) /\ config.fails \in Nat /\ fails \in 0..config.fails
  BY Basics, ErasedFacts DEF Config, TypeOK
<1>3. fails' \in 0..config.fails /\ fails' > 0 /\ config.fails > 0
  BY <1>1, <1>2
<1>4. TypeOK'
  <2>1. half' \in BOOLEAN
    BY <1>1
  <2> QED BY <1>1, <1>2, <1>3, <2>1, TypeParts, Zenon
<1>5. Flash(Serving(fails'))
  BY <1>1, <1>3, ErrorServes
<1>6. Flash(Serving(fails))'
  BY <1>1, <1>5 DEF Flash
<1>7. Answered'
  BY <1>1, <1>3 DEF Answered
<1> QED BY <1>1, <1>4, <1>6, <1>7, Idle DEF FInv


-----------------------------------------------------------------------------
(* The invariant                                                             *)
-----------------------------------------------------------------------------

LEMMA Stutter ==
  ASSUME TypeOK, FInv, UNCHANGED vars
  PROVE  TypeOK' /\ FInv'
<1>1. /\ half' = half /\ target' = target /\ work' = work /\ spare' = spare /\ op' = op
      /\ applied' = applied /\ status' = status /\ d' = d /\ config' = config
      /\ calls' = calls /\ crashes' = crashes /\ fails' = fails /\ pc' = pc /\ stk' = stk
  BY DEF vars, flash, control, bounds
<1>2. TypeOK'
  BY <1>1, TypeParts, Zenon
<1>3. half' = FALSE /\ Position(pc, stk, op.f)' /\ Called' /\ Progress'
  BY <1>1 DEF FInv, Called, Progress, Late
<1>4. pc' = "refresh" => Refreshing'
  BY <1>1 DEF FInv, Refreshing, Flushed, Flash, FlashAt, QueueSize, Cells
<1>5. Reclaiming'
  BY <1>1 DEF FInv, Reclaiming, Old, Buffered, Emptied, Fresh, Loaded, Flash, FlashAt, QueueSize
<1>6. Flushing'
  BY <1>1 DEF FInv, Flushing, FlushSource, FlushesReclaim, FlushesRecord, Emptied, FlashAt,
              Erased, BlankSpace, BlankQueue, Cells, QueueSize
<1>7. Allocating'
  BY <1>1 DEF FInv, Allocating, Loaded, FlashAt, Nested, Number, QueueSize
<1>8. Writing'
  BY <1>1 DEF FInv, Writing, Loaded, Flash, FlashAt, Record, QueueSize
<1>9. Restarting'
  BY <1>1 DEF FInv, Restarting, Loaded, Flash, FlashAt, Record, QueueSize
<1>10. Starting'
  BY <1>1 DEF FInv, Starting, Loaded, Aborted, Flash, FlashAt, QueueSize
<1>11. Answered'
  BY <1>1 DEF FInv, Answered, FlashAt, Cells, QueueSize
<1> QED BY <1>2, <1>3, <1>4, <1>5, <1>6, <1>7, <1>8, <1>9, <1>10, <1>11 DEF FInv

LEMMA InitHolds ==
  ASSUME Init, Sound(config)
  PROVE  TypeOK /\ FInv
<1>1. config \in Configs /\ config \in Config
  BY ConfigAssumption DEF Init
<1>2. /\ target = [b \in Block \ {WorkBlk} |-> <<b, 0>>]
      /\ work.data = <<WorkBlk, 0>> /\ work.ws = BlankSpace /\ spare = Erased
      /\ pc = "off" /\ stk = <<>> /\ half = FALSE /\ d = NoData /\ op = [f |-> "init"]
      /\ applied = FALSE /\ calls = 0 /\ crashes = 0 /\ fails = 0
  BY DEF Init
<1>3. /\ Erased \in AreaOf(config.queue) /\ NoData \in MemoryOf(config.queue)
      /\ BlankSpace \in SpaceOf(config.queue) /\ ~IsValidWorkSpace(Erased.ws)
  BY <1>1, ErasedFacts
<1>4. 0 \in Version /\ WorkBlk \in Block
  BY BlockAssumption
<1>5. work \in AreaOf(config.queue)
  <2>1. <<WorkBlk, 0>> \in Image
    BY <1>4 DEF Image
  <2> QED BY <1>3, <2>1 DEF Init, AreaOf
<1>6. target \in [Block \ {WorkBlk} -> Image]
  BY <1>2, <1>4 DEF Image
<1>7. config.calls \in Nat /\ config.crashes \in Nat /\ config.fails \in Nat
  BY <1>1 DEF Config
<1>8. 0 \in 0..config.calls /\ 0 \in 0..config.crashes /\ 0 \in 0..config.fails
  BY <1>7
<1>9. TypeOK
  BY <1>1, <1>2, <1>3, <1>5, <1>6, <1>8, TypeParts
<1>10. Durable(config, target, work, spare)
  <2>1. Unused(config, work)
    BY <1>1, <1>2, ErasedFacts DEF Unused, BlankSpace
  <2>2. Homes(target, work)
    <3> SUFFICES ASSUME NEW b \in Block PROVE Holds(Home(target, work, b), b)
      BY DEF Homes
    <3> QED BY <1>2, <1>4 DEF Holds, Home
  <2> QED BY <1>2, <1>3, <2>1, <2>2 DEF Durable, Never
<1>11. Position(pc, stk, op.f) /\ Called /\ Progress
  BY <1>2 DEF Position, Called, Progress
<1>12. /\ pc # "refresh" /\ Reclaiming /\ Flushing /\ Allocating /\ Writing /\ Restarting
       /\ Answered
  BY <1>2 DEF Reclaiming, Flushing, Allocating, Writing, Restarting, Answered
<1>13. Starting
  BY <1>2, <1>10 DEF Starting
<1> QED BY <1>2, <1>9, <1>11, <1>12, <1>13 DEF FInv

LEMMA StepHolds ==
  ASSUME TypeOK, FInv, Sound(config), Step
  PROVE  TypeOK' /\ FInv'
<1>1. CASE \/ FtwEraseSpareBlock \/ WorkSpaceRefresh \/ Reread \/ FtwReclaimWorkSpace
           \/ ReclaimCopy \/ ReclaimSetSpareValid \/ ReclaimSetWorkInvalid \/ ReclaimRestore
  BY <1>1, EraseSpareStep, WorkSpaceRefreshStep, RereadStep, ReclaimWorkSpaceStep,
     ReclaimCopyStep, ReclaimSetSpareValidStep, ReclaimSetWorkInvalidStep, ReclaimRestoreStep
<1>2. CASE \/ FlushSetSpareValid \/ FlushSetWorkInvalid \/ FlushErase \/ FlushCopy
           \/ FlushSetWorkValid \/ AllocateCheck \/ AllocateHeader \/ AllocateWrites
  BY <1>2, FlushSetSpareValidStep, FlushSetWorkInvalidStep, FlushEraseStep, FlushCopyStep,
     FlushSetWorkValidStep, AllocateCheckStep, AllocateHeaderStep, AllocateWritesStep
<1>3. CASE \/ WriteRecordStart \/ FlushSpareBlockToTargetBlock \/ WriteRecordDest
           \/ WriteRecordDone \/ WriteStart \/ WriteNotAllocated \/ WriteRefused \/ WriteRecord
           \/ WriteCopy \/ WriteSpareCompleted \/ WriteRestore
  BY <1>3, WriteRecordStartStep, FlushTargetStep, WriteRecordDestStep, WriteRecordDoneStep,
     WriteStartStep, WriteNotAllocatedStep, WriteRefusedStep, WriteRecordStep, WriteCopyStep,
     WriteSpareCompletedStep, WriteRestoreStep
<1>4. CASE \/ RestartRefused \/ FtwRestart \/ RestartErase \/ AbortNothing \/ FtwAbort
           \/ FtwGetLastWrite \/ GetLastWriteAborted
  BY <1>4, RestartRefusedStep, FtwRestartStep, RestartEraseStep, AbortNothingStep,
     FtwAbortStep, FtwGetLastWriteStep, GetLastWriteAbortedStep
<1>5. CASE \/ Boot \/ InitWorkSpace \/ InitAbortFirst \/ InitAbortLast \/ InitReclaim
           \/ InitRestart \/ InitRestarted \/ InitDone
  BY <1>5, BootStep, InitWorkSpaceStep, InitAbortFirstStep, InitAbortLastStep, InitReclaimStep,
     InitRestartStep, InitRestartedStep, InitDoneStep
<1> QED BY <1>1, <1>2, <1>3, <1>4, <1>5 DEF Step

LEMMA NextHolds ==
  ASSUME TypeOK, FInv, Sound(config), [Next]_vars
  PROVE  TypeOK' /\ FInv'
BY StepHolds, CallersStep, PowerLossStep, PowerLossInHeaderStep, FlashErrorStep, Stutter
   DEF Next, Quiet

(* Every reachable state satisfies the type invariant and the inductive invariant
   FInv, whatever the driver is doing (pc, stk, op), with power lost before any
   flash operation of FtwWrite, FtwAllocate, the reclaim of the work space or the
   recovery of InitFtwProtocol, for every configuration that is Sound. *)
THEOREM Invariant ==
  ASSUME \A c \in Configs : Sound(c)
  PROVE  Spec => [](TypeOK /\ FInv)
<1>1. Init => TypeOK /\ FInv
  BY InitHolds DEF Init
<1>2. TypeOK /\ FInv /\ [Next]_vars => TypeOK' /\ FInv'
  BY NextHolds DEF TypeOK
<1> QED BY <1>1, <1>2, PTL DEF Spec


-----------------------------------------------------------------------------
(* What recovery leaves                                                      *)
-----------------------------------------------------------------------------

(* Recovered, of target t, working block w and spare block s. *)
FromSpareBlock(w, s) == ~IsValidWorkSpace(w.ws) /\ IsValidWorkSpace(s.ws) /\ ~Full(w.ws.q)
After(t, w, s, b) ==
  IF (Pending(w.ws) /\ LastRecord(w.ws).body = b) \/ (b = WorkBlk /\ FromSpareBlock(w, s))
  THEN s.data
  ELSE Home(t, w, b)

(* A queue without room has no header that says anything. *)
LEMMA SpentNothing ==
  ASSUME NEW cf \in Config, Sound(cf), NEW ws, DOMAIN ws.q = 1..cf.queue, Spent(cf, ws.q)
  PROVE  ~Pending(ws) /\ Full(ws.q)
<1>1. cf.queue \in Nat /\ 2 <= cf.queue
  BY SoundBasics
<1>2. PICK h \in cf.queue..(cf.queue + 1) : Vacant(cf, ws.q, h, h + 1)
  BY DEF Spent
<1>3. h <= cf.queue => h = cf.queue /\ ws.q[h] = BlankCell
  BY <1>1, <1>2 DEF Vacant, Clean
<1>4. FtwGetLastWriteHeader(ws.q) = IF h <= cf.queue THEN h ELSE 0
  BY <1>1, <1>2, <1>3, BlankFacts, LastWriteHeader DEF Vacant
<1>5. ~Pending(ws)
  BY <1>1, <1>3, <1>4, BlankFacts DEF Pending
<1> QED BY <1>5, SpentFound

(* Nothing is pending in a state that is not called so. *)
LEMMA PendingState ==
  ASSUME NEW cf \in Config, Sound(cf), NEW t, NEW w, DOMAIN w.ws.q = 1..cf.queue,
         NEW s, NEW h, NEW r, NEW S, Is(cf, t, w, s, h, r, S)
  PROVE  /\ "pending" \notin S => ~Pending(w.ws)
         /\ S = {"pending"} => Pending(w.ws) /\ LastRecord(w.ws) = w.ws.q[r]
<1>1. cf.queue \in Nat /\ h \in 1..(cf.queue + 1)
  BY SoundBasics, IsBounds
<1>2. CASE h >= cf.queue
  <2>1. "vacant" \in S /\ Spent(cf, w.ws.q)
    BY <1>2, IsBounds
  <2>2. S # {"pending"}
    BY <2>1
  <2> QED BY <2>1, <2>2, SpentNothing
<1>3. CASE h < cf.queue
  <2>1. FtwGetLastWriteHeader(w.ws.q) = h /\ FtwGetLastWriteRecord(w.ws.q, h) = r
    BY <1>3, IsBounds, ShapeFound
  <2>2. LastRecord(w.ws) = w.ws.q[r]
    BY <2>1 DEF LastRecord
  <2>3. Told(cf, t, w, s, h, r, S, w.ws.q[h], w.ws.q[r])
    BY <1>3, States
  <2>4. IsValidWorkSpace(w.ws) /\ BlankCell.bits = {}
    BY IsBounds, BlankFacts
  <2>5. /\ DEST_COMPLETED \in Finished /\ SPARE_COMPLETED \in Spared
        /\ DEST_COMPLETED \notin Spared
    BY DEF Finished, Spared, SPARE_COMPLETED, DEST_COMPLETED
  <2>6. ASSUME "pending" \notin S PROVE ~Pending(w.ws)
    BY <2>1, <2>2, <2>3, <2>4, <2>5, <2>6 DEF Told, Pending
  <2>7. ASSUME S = {"pending"} PROVE Pending(w.ws)
    <3>1. HEADER_ALLOCATED \in w.ws.q[h].bits /\ w.ws.q[r].bits = Spared
      BY <2>3, <2>7 DEF Told
    <3>2. h # 0
      BY <1>1
    <3> QED BY <2>1, <2>2, <2>4, <2>5, <3>1, <3>2 DEF Pending
  <2> QED BY <2>2, <2>6, <2>7
<1> QED BY <1>1, <1>2, <1>3

(* Recovery leaves every block as it is. *)
LEMMA AfterHome ==
  ASSUME NEW cf \in Config, Sound(cf), NEW t, NEW w, DOMAIN w.ws.q = 1..cf.queue, NEW s,
         \/ \E S : "pending" \notin S /\ \E h, r : Is(cf, t, w, s, h, r, S)
         \/ \E S : "pending" \notin S /\ Some(cf, t, w, s, S)
         \/ Stuffed(cf, t, w)
         \/ Never(cf, t, w, s)
         \/ ~IsValidWorkSpace(w.ws) /\ ~IsValidWorkSpace(s.ws)
  PROVE  \A b : After(t, w, s, b) = Home(t, w, b)
<1>1. CASE \E S : "pending" \notin S /\ \E h, r : Is(cf, t, w, s, h, r, S)
  <2>1. ~Pending(w.ws) /\ IsValidWorkSpace(w.ws)
    BY <1>1, PendingState DEF Is
  <2> QED BY <2>1 DEF After, FromSpareBlock
<1>2. CASE \E S : "pending" \notin S /\ Some(cf, t, w, s, S)
  BY <1>1, <1>2 DEF Some
<1>3. CASE Stuffed(cf, t, w)
  BY <1>3, SpentNothing DEF After, FromSpareBlock, Stuffed
<1>4. CASE ~IsValidWorkSpace(w.ws) /\ ~IsValidWorkSpace(s.ws)
  BY <1>4 DEF After, FromSpareBlock, Pending
<1>5. CASE Never(cf, t, w, s)
  BY <1>4, <1>5 DEF Never, Unused, IsValidWorkSpace
<1> QED BY <1>1, <1>2, <1>3, <1>4, <1>5

(* A pending write is finished. *)
LEMMA AfterPending ==
  ASSUME NEW cf \in Config, Sound(cf), NEW t, NEW w, DOMAIN w.ws.q = 1..cf.queue, NEW s,
         NEW h, NEW r, Is(cf, t, w, s, h, r, {"pending"})
  PROVE  \A b : After(t, w, s, b) = IF b = w.ws.q[r].body THEN s.data ELSE Home(t, w, b)
<1>1. PICK S : S = {"pending"}
  OBVIOUS
<1>2. Is(cf, t, w, s, h, r, S)
  BY <1>1
<1>3. Pending(w.ws) /\ LastRecord(w.ws) = w.ws.q[r] /\ IsValidWorkSpace(w.ws)
  BY <1>1, <1>2, PendingState DEF Is
<1> QED BY <1>3 DEF After, FromSpareBlock

(* The working block is taken from the spare block. *)
LEMMA AfterSpare ==
  ASSUME NEW cf \in Config, Sound(cf), NEW t, NEW w, DOMAIN w.ws.q = 1..cf.queue, NEW s,
         ~IsValidWorkSpace(w.ws), Roomy(cf, w.ws.q), IsValidWorkSpace(s.ws)
  PROVE  \A b : After(t, w, s, b) = IF b = WorkBlk THEN s.data ELSE Home(t, w, b)
<1>1. ~Full(w.ws.q) /\ ~Pending(w.ws)
  BY RoomyNotFull DEF Pending
<1> QED BY <1>1 DEF After, FromSpareBlock

-----------------------------------------------------------------------------
(* Safety                                                                    *)
-----------------------------------------------------------------------------

(* Every variable, and every field of the driver's memory, has its type; in
   particular the queue positions that FtwGetLastWriteHeader and
   FtwGetLastWriteRecord give the driver to write at are inside the queue. *)
THEOREM FtwTypeCorrect ==
  ASSUME \A c \in Configs : Sound(c)
  PROVE  Spec => []TypeOK
<1>1. Spec => [](TypeOK /\ FInv)
  BY Invariant
<1> QED BY <1>1, PTL

(* At every moment flash is in a state that InitFtwProtocol recovers from. *)
THEOREM FlashRecoverable ==
  ASSUME \A c \in Configs : Sound(c)
  PROVE  Spec => []Durable(config, target, work, spare)
<1>1. Spec => [](TypeOK /\ FInv)
  BY Invariant
<1>2. TypeOK /\ FInv => Durable(config, target, work, spare)
  BY AlwaysDurable DEF TypeOK
<1> QED BY <1>1, <1>2, PTL

(* FtwReclaimWorkSpace erases the spare block only when no write depends on it. *)
THEOREM ReclaimLosesNothing ==
  ASSUME \A c \in Configs : Sound(c)
  PROVE  Spec => []ReclaimKeepsPending
<1>1. Spec => [](TypeOK /\ FInv)
  BY Invariant
<1>2. TypeOK /\ FInv => ReclaimKeepsPending
  <2> SUFFICES ASSUME TypeOK, FInv, pc = "rc_erase" PROVE ~Pending(work.ws)
    BY DEF ReclaimKeepsPending
  <2>1. Sound(config)
    BY DEF TypeOK
  <2>2. config \in Config /\ DOMAIN work.ws.q = 1..config.queue
    BY <2>1, Basics
  <2>3. Old
    BY DEF FInv, Reclaiming
  <2>4. CASE Flash({"torn"})
    <3>1. PICK S : S = {"torn"}
      OBVIOUS
    <3>2. "pending" \notin S /\ Some(config, target, work, spare, S)
      BY <2>4, <3>1 DEF Flash
    <3> QED BY <2>1, <2>2, <3>2, PendingState DEF Some
  <2>5. CASE Unused(config, work)
    BY <2>5 DEF Unused, Pending, IsValidWorkSpace
  <2>6. CASE Stuffed(config, target, work)
    BY <2>1, <2>2, <2>6, SpentNothing DEF Stuffed
  <2> QED BY <2>3, <2>4, <2>5, <2>6 DEF Old
<1> QED BY <1>1, <1>2, PTL

(* The FtwRestart that InitFtwProtocol calls for a pending write returns
   EFI_SUCCESS, so that its ASSERT_EFI_ERROR never fires. *)
THEOREM RestartOfInitSucceeds ==
  ASSUME \A c \in Configs : Sound(c)
  PROVE  Spec => []InitRestartSucceeds
<1>1. Spec => [](TypeOK /\ FInv)
  BY Invariant
<1>2. TypeOK /\ FInv => InitRestartSucceeds
  BY DEF FInv, Starting, InitRestartSucceeds
<1> QED BY <1>1, <1>2, PTL

(* Without flash errors FtwWrite never refuses a write that allocates for itself,
   whatever sequence of calls and power losses went before. *)
THEOREM WriteAccepted ==
  ASSUME \A c \in Configs : Sound(c)
  PROVE  Spec => []WriteNeverRefused
<1>1. Spec => [](TypeOK /\ FInv)
  BY Invariant
<1>2. TypeOK /\ FInv => WriteNeverRefused
  BY DEF FInv, Answered, WriteNeverRefused
<1> QED BY <1>1, <1>2, PTL

(* When the driver is ready and no flash operation failed, every block a caller
   may update has contents. *)
THEOREM ContentsAreAvailable ==
  ASSUME \A c \in Configs : Sound(c)
  PROVE  Spec => []ContentsAvailable
<1>1. Spec => [](TypeOK /\ FInv)
  BY Invariant
<1>2. TypeOK /\ FInv => ContentsAvailable
  <2> SUFFICES ASSUME TypeOK, FInv, pc = "idle", fails = 0
               PROVE  work.data # Lost /\ \A b \in DOMAIN target : target[b] # Lost
    BY DEF ContentsAvailable
  <2>1. Flash(Settled)
    BY DEF FInv, Starting, Serving, Settled
  <2>2. Homes(target, work)
    BY <2>1 DEF Flash, Some, Is, Settled
  <2>3. WorkBlk \in Block /\ Lost \notin Block \X Version
    BY BlockAssumption
  <2>4. \A b \in Block : Home(target, work, b) # Lost
    BY <2>2, <2>3 DEF Homes, Holds
  <2> QED BY <2>3, <2>4 DEF Home, TypeOK
<1> QED BY <1>1, <1>2, PTL


-----------------------------------------------------------------------------
(* Refinement: what recovery would leave, at each point of the driver        *)
-----------------------------------------------------------------------------

(* Where recovery leaves every block as it is. *)
HomeLabels ==
  {"rc_erase", "rc_copy", "rc_valid", "rc_invalid", "rc_clear", "rc_restore", "a_header", "a_writes",
   "w_erase", "w_copy", "w_spare", "w_clear", "w_restore", "s_clear", "t_dest", "t_done"}
HomeView ==
  \/ pc \in HomeLabels
  \/ pc = "refresh" /\ op.f = "init" /\ stk = <<"b_check", "refresh", "i_first">>
  => \A b \in Block : After(target, work, spare, b) = Home(target, work, b)

(* Where it takes the working block from the spare block. *)
FlushView ==
  pc \in {"f_spare", "f_invalid", "f_erase", "f_copy", "f_valid"} =>
    /\ \A b \in Block :
         After(target, work, spare, b) = IF b = WorkBlk THEN spare.data ELSE target[b]
    /\ pc = "f_valid" => work.data = spare.data

(* Where it takes a target from the spare block. *)
PendView ==
  pc \in {"t_start", "t_copy", "t_dest"} =>
    /\ Record.body = work.ws.q[d.r].body /\ Record.body \in Block
    /\ \A b \in Block :
         After(target, work, spare, b) =
           IF b = Record.body THEN spare.data ELSE Home(target, work, b)

(* The record in memory is the one on flash. *)
LEMMA NearRecord ==
  ASSUME TypeOK, Sound(config), FlashAt(d.h, d.r, {"pending"}), Near(d.ws.q, work.ws.q, d.h)
  PROVE  Record.body = work.ws.q[d.r].body /\ Record.body \in Block
<1>1. config \in Config /\ DOMAIN work.ws.q = 1..config.queue /\ config.queue \in Nat
  BY Basics
<1>2. Open(config, work.ws.q, d.h, d.r, Spared)
  BY DEF FlashAt, Is, Pend
<1>3. d.r \in 1..config.queue /\ d.r # d.h
  <2>1. d.h < config.queue
    BY <1>2 DEF Open, OpenHeader
  <2>2. PICK S : S = {"pending"}
    OBVIOUS
  <2>3. Is(config, target, work, spare, d.h, d.r, S)
    BY <2>2 DEF FlashAt
  <2> QED BY <1>1, <2>1, <2>3, States
<1>4. Record = work.ws.q[d.r]
  BY <1>1, <1>3 DEF Near, Record
<1>5. work.ws.q[d.r].body \in config.targets /\ config.targets \subseteq Block
  BY <1>1, <1>2 DEF Open, Spared, Config
<1> QED BY <1>4, <1>5

LEMMA PendViewHolds ==
  TypeOK /\ FInv /\ Sound(config) => PendView
<1> SUFFICES ASSUME TypeOK, FInv, Sound(config), pc \in {"t_start", "t_copy", "t_dest"}
             PROVE  /\ Record.body = work.ws.q[d.r].body /\ Record.body \in Block
                    /\ \A b \in Block :
                         After(target, work, spare, b) =
                           IF b = Record.body THEN spare.data ELSE Home(target, work, b)
  BY DEF PendView
<1>1. FlashAt(d.h, d.r, {"pending"}) /\ Near(d.ws.q, work.ws.q, d.h)
  BY DEF FInv, Writing
<1>2. Record.body = work.ws.q[d.r].body /\ Record.body \in Block
  BY <1>1, NearRecord
<1>3. \A b : After(target, work, spare, b) =
               IF b = work.ws.q[d.r].body THEN spare.data ELSE Home(target, work, b)
  BY <1>1, Basics, AfterPending DEF FlashAt
<1> QED BY <1>2, <1>3

LEMMA FlushViewHolds ==
  TypeOK /\ FInv /\ Sound(config) => FlushView
<1> SUFFICES ASSUME TypeOK, FInv, Sound(config),
                    pc \in {"f_spare", "f_invalid", "f_erase", "f_copy", "f_valid"}
             PROVE  /\ \A b \in Block : After(target, work, spare, b) =
                                           IF b = WorkBlk THEN spare.data ELSE target[b]
                    /\ pc = "f_valid" => work.data = spare.data
  BY DEF FlushView
<1>1. /\ config \in Config /\ DOMAIN work.ws.q = 1..config.queue
      /\ Flushing /\ FlushSource /\ SpareGood(config, target, work, spare)
  BY Basics DEF FInv, Flushing, FlushSource
<1>2. IsValidWorkSpace(spare.ws)
  BY <1>1 DEF SpareGood
<1>3. pc = "f_valid" => work.data = spare.data
  BY <1>1 DEF Flushing, Flat
<1>4. \A b : Home(target, work, b) = IF b = WorkBlk THEN work.data ELSE target[b]
  BY DEF Home
<1>5. CASE FlushesRecord /\ pc \in {"f_spare", "f_invalid"}
  <2>1. /\ FlashAt(d.h, d.r, {"pending"}) /\ Near(d.ws.q, work.ws.q, d.h)
        /\ Backup(config, spare, d.h, d.r) /\ Near(d.ws.q, spare.ws.q, d.h)
    BY <1>1, <1>5 DEF Flushing, FlushSource
  <2>2. Record.body = work.ws.q[d.r].body
    BY <2>1, NearRecord
  <2>3. Record.body = WorkBlk
    <3>1. d.r \in DOMAIN spare.ws.q /\ d.r # d.h
      <4>1. Shape(config, spare.ws.q, d.h, d.r)
        BY <2>1 DEF Backup, Shape, Open, OpenHeader
      <4>2. d.r \in 2..config.queue /\ d.h < d.r /\ d.h \in 1..(config.queue - 1) /\ config.queue \in Nat
        BY <1>1, <4>1, ShapeBounds, SoundBasics
      <4> QED BY <4>2, Basics
    <3> QED BY <2>1, <3>1 DEF Near, Record, Backup
  <2>4. \A b : After(target, work, spare, b) =
                 IF b = work.ws.q[d.r].body THEN spare.data ELSE Home(target, work, b)
    BY <1>1, <2>1, AfterPending DEF FlashAt
  <2> QED BY <1>3, <1>4, <2>2, <2>3, <2>4
<1>6. CASE Stuffed(config, target, work) /\ work.data = spare.data
  <2>1. \A b : After(target, work, spare, b) = Home(target, work, b)
    BY <1>1, <1>6, AfterHome
  <2> QED BY <1>3, <1>4, <1>6, <2>1
<1>7. CASE ~IsValidWorkSpace(work.ws) /\ Roomy(config, work.ws.q)
  BY <1>1, <1>2, <1>3, <1>4, <1>7, AfterSpare
<1>8. CASE pc = "f_copy"
  <2>1. work = Erased
    BY <1>1, <1>8 DEF Flushing
  <2> QED BY <1>1, <1>7, <2>1, ErasedFacts, ErasureRoomy
<1>9. CASE pc = "f_valid"
  <2>1. work.ws.q = spare.ws.q /\ ~work.ws.valid
    BY <1>1, <1>9 DEF Flushing, Flat
  <2>2. Roomy(config, spare.ws.q)
    <3>1. CASE spare.ws.q = Erasure(config)
      BY <1>1, <3>1, ErasureRoomy
    <3>2. ASSUME NEW h, NEW r, Backup(config, spare, h, r) PROVE Roomy(config, spare.ws.q)
      <4>1. Shape(config, spare.ws.q, h, r)
        BY <3>2 DEF Backup, Shape, Open, OpenHeader
      <4> QED BY <1>1, <4>1, ShapeRoomy
    <3> QED BY <1>1, <3>1, <3>2 DEF SpareGood
  <2> QED BY <1>7, <2>1, <2>2 DEF IsValidWorkSpace
<1> QED BY <1>1, <1>5, <1>6, <1>7, <1>8, <1>9 DEF Flushing

LEMMA HomeViewHolds ==
  TypeOK /\ FInv /\ Sound(config) => HomeView
<1> SUFFICES ASSUME TypeOK, FInv, Sound(config),
                    \/ pc \in HomeLabels
                    \/ pc = "refresh" /\ op.f = "init" /\ stk = <<"b_check", "refresh", "i_first">>
             PROVE  \A b \in Block : After(target, work, spare, b) = Home(target, work, b)
  BY DEF HomeView
<1>1. /\ config \in Config /\ DOMAIN work.ws.q = 1..config.queue
      /\ Reclaiming /\ Allocating /\ Writing /\ (pc = "refresh" => Refreshing)
  BY Basics DEF FInv
<1>2. ASSUME NEW h, NEW r, NEW S, S \in {{"vacant"}, {"tidy"}, {"open"}, {"written"}, Settled},
             Is(config, target, work, spare, h, r, S)
      PROVE  \A b \in Block : After(target, work, spare, b) = Home(target, work, b)
  <2>1. "pending" \notin S
    BY <1>2 DEF Settled
  <2> QED BY <1>1, <1>2, <2>1, AfterHome
<1>3. CASE pc \in {"rc_clear", "rc_restore", "a_header", "a_writes", "w_erase", "w_copy", "w_spare",
                   "t_done"}
  <2>1. PICK S : S \in {{"vacant"}, {"tidy"}, {"open"}, {"written"}}
                 /\ Is(config, target, work, spare, d.h, d.r, S)
    BY <1>1, <1>3 DEF Reclaiming, Allocating, Writing, Loaded, FlashAt
  <2> QED BY <1>2, <2>1
<1>4. CASE pc \in {"w_clear", "w_restore", "s_clear"}
  <2>1. Flash(Settled)
    BY <1>1, <1>4 DEF Writing
  <2> QED BY <1>2, <2>1 DEF Flash, Some
<1>5. CASE pc \in {"rc_erase", "rc_copy", "rc_valid", "rc_invalid"}
  <2>1. Old
    BY <1>1, <1>5 DEF Reclaiming
  <2>2. CASE Flash({"torn"})
    <3>1. PICK S : S = {"torn"}
      OBVIOUS
    <3>2. "pending" \notin S /\ Some(config, target, work, spare, S)
      BY <2>2, <3>1 DEF Flash
    <3> QED BY <1>1, <3>2, AfterHome
  <2>3. CASE Stuffed(config, target, work)
    BY <1>1, <2>3, AfterHome
  <2>4. CASE stk = <<"i_first">> /\ Unused(config, work)
    <3>1. ~IsValidWorkSpace(work.ws)
      BY <2>4 DEF Unused, IsValidWorkSpace
    <3>2. CASE pc = "rc_invalid"
      <4>1. spare.data = work.data /\ Fresh(spare.ws) /\ spare.ws.valid
        BY <1>1, <3>2 DEF Reclaiming
      <4>2. IsValidWorkSpace(spare.ws)
        BY <4>1 DEF Fresh, IsValidWorkSpace
      <4>3. Roomy(config, work.ws.q)
        BY <1>1, <2>4, ErasureRoomy DEF Unused
      <4>4. \A b : After(target, work, spare, b) = IF b = WorkBlk THEN spare.data ELSE Home(target, work, b)
        BY <1>1, <3>1, <4>2, <4>3, AfterSpare
      <4> QED BY <4>1, <4>4 DEF Home
    <3>3. CASE pc # "rc_invalid"
      <4>1. ~IsValidWorkSpace(spare.ws)
        BY <1>1, <1>5, <2>4, <3>3 DEF Reclaiming, Buffered, IsValidWorkSpace
      <4> QED BY <1>1, <3>1, <4>1, AfterHome
    <3> QED BY <3>2, <3>3
  <2> QED BY <2>1, <2>2, <2>3, <2>4 DEF Old
<1>6. CASE pc = "t_dest"
  <2>1. Home(target, work, Record.body) = spare.data
    BY <1>1, <1>6 DEF Writing
  <2> QED BY <1>6, <2>1, PendViewHolds DEF PendView
<1>7. CASE pc = "refresh" /\ op.f = "init" /\ stk = <<"b_check", "refresh", "i_first">>
  <2>1. Flushed
    BY <1>1, <1>7 DEF Refreshing
  <2>2. ASSUME NEW h, NEW r, Is(config, target, work, spare, h, r, {"pending"}),
               work.ws.q[r].body = WorkBlk, work.data = spare.data
        PROVE  \A b \in Block : After(target, work, spare, b) = Home(target, work, b)
    BY <1>1, <2>2, AfterPending DEF Home
  <2> QED BY <1>2, <2>1, <2>2 DEF Flushed
<1> QED BY <1>3, <1>4, <1>5, <1>6, <1>7 DEF HomeLabels

(* The same after a step. *)
LEMMA ViewsAfter ==
  TypeOK' /\ FInv' /\ (Sound(config))' => HomeView' /\ FlushView' /\ PendView'
BY HomeViewHolds, FlushViewHolds, PendViewHolds, PTL


(* A step that leaves what recovery finds as it is. *)
Same == \A b \in Block : After(target', work', spare', b) = After(target, work, spare, b)

LEMMA HomesSame ==
  ASSUME target' = target, work'.data = work.data,
         \A b \in Block : After(target, work, spare, b) = Home(target, work, b),
         \A b \in Block : After(target', work', spare', b) = Home(target', work', b)
  PROVE  Same
BY DEF Same, Home

LEMMA FlashSame ==
  ASSUME target' = target, work' = work, spare' = spare
  PROVE  Same
BY DEF Same

(* Erasing and copying to the spare block. *)
LEMMA SpareSame ==
  ASSUME TypeOK, FInv, Sound(config), TypeOK', FInv', config' = config,
         FtwEraseSpareBlock \/ ReclaimCopy \/ ReclaimSetSpareValid \/ WriteCopy
  PROVE  Same
<1>1. target' = target /\ work' = work
  BY DEF FtwEraseSpareBlock, ReclaimCopy, ReclaimSetSpareValid, WriteCopy
<1>2. ~EraseEnds => FALSE
  BY Basics DEF EraseEnds
<1>3. pc \in HomeLabels /\ pc' \in HomeLabels
  BY <1>2 DEF FtwEraseSpareBlock, ReclaimCopy, ReclaimSetSpareValid, WriteCopy, Goto, HomeLabels, AfterErase
<1>4. HomeView /\ HomeView'
  BY HomeViewHolds, ViewsAfter
<1>5. \A b \in Block : After(target, work, spare, b) = Home(target, work, b)
  BY <1>3, <1>4 DEF HomeView
<1>6. \A b \in Block : After(target', work', spare', b) = Home(target', work', b)
  BY <1>3, <1>4 DEF HomeView
<1> QED BY <1>1, <1>5, <1>6, HomesSame

(* Restoring or erasing the spare block when nothing is pending. *)
LEMMA RestoreSame ==
  ASSUME TypeOK, FInv, Sound(config), ReclaimRestore \/ WriteRestore \/ RestartErase
  PROVE  Same
<1>1. target' = target /\ work' = work
  BY DEF ReclaimRestore, WriteRestore, RestartErase
<1>2. config \in Config /\ DOMAIN work.ws.q = 1..config.queue
  BY Basics
<1>3. PICK S : S \in {{"vacant"}, Settled} /\ Some(config, target, work, spare, S)
  <2>1. CASE pc = "rc_restore"
    <3>1. Is(config, target, work, spare, d.h, d.r, {"vacant"})
      BY <2>1 DEF FInv, Reclaiming, Loaded, FlashAt
    <3> QED BY <3>1, LoadedFlash
  <2>2. CASE pc \in {"w_restore", "s_clear"}
    BY <2>2 DEF FInv, Writing, Flash
  <2> QED BY <2>1, <2>2 DEF ReclaimRestore, WriteRestore, RestartErase
<1>4. "pending" \notin S
  BY <1>3 DEF Settled
<1>5. Some(config, target, work, spare', S)
  BY <1>3, <1>4, SomeSpare
<1>6. \A b : After(target, work, spare, b) = Home(target, work, b)
  BY <1>2, <1>3, <1>4, AfterHome, ZenonT(40)
<1>7. \A b : After(target, work, spare', b) = Home(target, work, b)
  BY <1>2, <1>4, <1>5, AfterHome, ZenonT(40)
<1> QED BY <1>1, <1>6, <1>7 DEF Same

(* The flush of the working block. *)
LEMMA FlushSame ==
  ASSUME TypeOK, FInv, Sound(config), TypeOK', FInv', config' = config,
         FlushSetSpareValid \/ FlushSetWorkInvalid \/ FlushErase \/ FlushCopy
  PROVE  Same
<1>1. target' = target /\ spare'.data = spare.data
  <2>1. CASE FlushSetSpareValid
    BY <2>1, Basics, SetValid DEF FlushSetSpareValid
  <2> QED BY <2>1 DEF FlushSetWorkInvalid, FlushErase, FlushCopy
<1>2. ~EraseEnds => FALSE
  BY Basics DEF EraseEnds
<1>3. /\ pc \in {"f_spare", "f_invalid", "f_erase", "f_copy", "f_valid"}
      /\ pc' \in {"f_spare", "f_invalid", "f_erase", "f_copy", "f_valid"}
  BY <1>2 DEF FlushSetSpareValid, FlushSetWorkInvalid, FlushErase, FlushCopy, Goto
<1>4. FlushView /\ FlushView'
  BY FlushViewHolds, ViewsAfter
<1>5. \A b \in Block :
        After(target, work, spare, b) = IF b = WorkBlk THEN spare.data ELSE target[b]
  BY <1>3, <1>4 DEF FlushView
<1>6. \A b \in Block :
        After(target', work', spare', b) = IF b = WorkBlk THEN spare'.data ELSE target'[b]
  BY <1>3, <1>4 DEF FlushView
<1> QED BY <1>1, <1>5, <1>6 DEF Same

(* A reclaim calls the flush. *)
LEMMA ReclaimInvalidSame ==
  ASSUME TypeOK, FInv, Sound(config), TypeOK', FInv', config' = config, ReclaimSetWorkInvalid
  PROVE  Same
<1>1. target' = target /\ spare' = spare /\ pc = "rc_invalid" /\ pc' = "f_spare"
  BY DEF ReclaimSetWorkInvalid, Call
<1>2. HomeView /\ FlushView'
  BY HomeViewHolds, ViewsAfter
<1>3. spare.data = work.data
  BY <1>1 DEF FInv, Reclaiming
<1>4. \A b \in Block : After(target, work, spare, b) = Home(target, work, b)
  BY <1>1, <1>2 DEF HomeView, HomeLabels
<1>5. \A b \in Block :
        After(target', work', spare', b) = IF b = WorkBlk THEN spare'.data ELSE target'[b]
  BY <1>1, <1>2 DEF FlushView
<1> QED BY <1>1, <1>3, <1>4, <1>5 DEF Same, Home

(* The flush returns. *)
LEMMA FlushReturnSame ==
  ASSUME TypeOK, FInv, Sound(config), TypeOK', FInv', config' = config, FlushSetWorkValid
  PROVE  Same
<1>1. /\ target' = target /\ spare' = spare /\ pc = "f_valid" /\ op' = op
      /\ pc' = Head(stk) /\ stk' = Tail(stk)
  BY DEF FlushSetWorkValid, Return
<1>2. work'.data = work.data
  BY Basics, SetValid DEF FlushSetWorkValid
<1>3. HomeView' /\ FlushView
  BY FlushViewHolds, ViewsAfter
<1>4. \/ pc' \in HomeLabels
      \/ pc' = "refresh" /\ op'.f = "init" /\ stk' = <<"b_check", "refresh", "i_first">>
  <2>1. FlushStk(op.f, stk)
    BY <1>1 DEF FInv, Position
  <2> QED BY <1>1, <2>1, FlushReturn DEF HomeLabels
<1>5. /\ work.data = spare.data
      /\ \A b \in Block :
           After(target, work, spare, b) = IF b = WorkBlk THEN spare.data ELSE target[b]
  BY <1>1, <1>3 DEF FlushView
<1>6. \A b \in Block : After(target', work', spare', b) = Home(target', work', b)
  BY <1>3, <1>4 DEF HomeView
<1> QED BY <1>1, <1>2, <1>5, <1>6 DEF Same, Home

(* A header is written, and its second bit. *)
LEMMA AllocateSame ==
  ASSUME TypeOK, FInv, Sound(config), TypeOK', FInv', config' = config,
         AllocateHeader \/ AllocateWrites
  PROVE  Same
<1>1. /\ target' = target /\ spare' = spare /\ pc \in {"a_header", "a_writes"} /\ d.off = d.h
      /\ op' = op
  BY DEF AllocateHeader, AllocateWrites, FInv, Allocating
<1>2. /\ config \in Config /\ work \in AreaOf(config.queue) /\ d.h \in 1..config.queue
      /\ DOMAIN work.ws.q = 1..config.queue
  BY Basics, MemoryFields
<1>3. \A b \in Block : After(target, work, spare, b) = Home(target, work, b)
  BY <1>1, HomeViewHolds DEF HomeView, HomeLabels
<1>4. CASE AllocateHeader
  <2>1. pc = "a_header" /\ pc' = "a_writes"
    BY <1>4 DEF AllocateHeader, Goto
  <2>2. HomeView'
    BY ViewsAfter
  <2>3. \A b \in Block : After(target', work', spare', b) = Home(target', work', b)
    BY <2>1, <2>2 DEF HomeView, HomeLabels
  <2>4. work'.data = work.data
    <3>1. PICK c : work' = [work EXCEPT !.ws.q[d.off] = c]
      BY <1>4, Zenon DEF AllocateHeader
    <3> QED BY <1>2, <3>1 DEF AreaOf
  <2> QED BY <1>1, <1>3, <2>3, <2>4, HomesSame
<1>5. CASE AllocateWrites
  <2>1. /\ work' = FtwUpdateFvState(work, d.h, WRITES_ALLOCATED) /\ pc = "a_writes"
    BY <1>1, <1>5 DEF AllocateWrites
  <2>2. work'.data = work.data /\ work'.ws.q = Put(work.ws.q, d.h, Marked(work.ws.q[d.h], WRITES_ALLOCATED))
        /\ SameHeader(work'.ws, work.ws) /\ work' \in AreaOf(config.queue)
    BY <1>2, <2>1, AreaMark DEF WRITES_ALLOCATED
  <2>3. /\ IsValidWorkSpace(work.ws) /\ Homes(target, work)
        /\ Open(config, work.ws.q, d.h, d.r, {}) /\ d.h < config.queue
    BY <2>1 DEF FInv, Allocating, Loaded, FlashAt, Is, QueueSize
  <2>4. PICK c : c = Marked(work.ws.q[d.h], WRITES_ALLOCATED)
    OBVIOUS
  <2>5. c.body = work.ws.q[d.h].body /\ HEADER_ALLOCATED \in c.bits /\ WRITES_COMPLETED \notin c.bits
    BY <2>3, <2>4, MarkedFields DEF Open, OpenHeader, WRITES_ALLOCATED, WRITES_COMPLETED
  <2>6. Open(config, work'.ws.q, d.h, d.r, {})
    BY <1>2, <2>2, <2>3, <2>4, <2>5, HeaderKept
  <2>7. Homes(target, work') /\ IsValidWorkSpace(work'.ws)
    BY <2>2, <2>3, HomesData DEF SameHeader, IsValidWorkSpace
  <2>8. PICK S : S = {"open"}
    OBVIOUS
  <2>9. Is(config, target', work', spare', d.h, d.r, S) /\ "pending" \notin S
    BY <1>1, <2>6, <2>7, <2>8 DEF Is
  <2>10. DOMAIN work'.ws.q = 1..config.queue
    BY <2>2, AreaFields
  <2>11. \A b : After(target', work', spare', b) = Home(target', work', b)
    BY <1>2, <2>9, <2>10, AfterHome, ZenonT(40)
  <2> QED BY <1>1, <1>3, <2>2, <2>11, HomesSame
<1> QED BY <1>4, <1>5


(* The target is erased and written, or the flush is called. *)
LEMMA RecordStartSame ==
  ASSUME TypeOK, FInv, Sound(config), TypeOK', FInv', config' = config,
         WriteRecordStart \/ FlushSpareBlockToTargetBlock
  PROVE  Same
<1>1. /\ work' = work /\ pc \in {"t_start", "t_copy"} /\ target \in [Block \ {WorkBlk} -> Image]
  BY DEF WriteRecordStart, FlushSpareBlockToTargetBlock, TypeOK
<1>2. PendView /\ PendView' /\ FlushView'
  BY PendViewHolds, ViewsAfter
<1>3. /\ Record.body = work.ws.q[d.r].body /\ Record.body \in Block
      /\ \A b \in Block :
           After(target, work, spare, b) =
             IF b = Record.body THEN spare.data ELSE Home(target, work, b)
  BY <1>1, <1>2 DEF PendView
<1>4. CASE pc' = "f_spare"
  <2>1. /\ Record.body = WorkBlk /\ target' = target
        /\ spare' = FtwUpdateFvState(spare, d.r, SPARE_COMPLETED)
    BY <1>4 DEF WriteRecordStart, FlushSpareBlockToTargetBlock, Goto, Call
  <2>2. spare'.data = spare.data
    <3>1. d.r \in 1..config.queue /\ spare \in AreaOf(config.queue)
      BY Basics, MemoryFields
    <3> QED BY <2>1, <3>1, AreaMark DEF SPARE_COMPLETED
  <2>3. \A b \in Block :
          After(target', work', spare', b) = IF b = WorkBlk THEN spare'.data ELSE target'[b]
    BY <1>2, <1>4 DEF FlushView
  <2> QED BY <1>1, <1>3, <2>1, <2>2, <2>3 DEF Same, Home
<1>5. CASE pc' # "f_spare"
  <2>1. /\ Record.body # WorkBlk /\ pc' \in {"t_copy", "t_dest"} /\ spare' = spare
        /\ d'.r = d.r
        /\ \E i : target' = [target EXCEPT ![Record.body] = i]
    <3>1. CASE WriteRecordStart
      <4>1. Record.body # WorkBlk /\ pc' = "t_copy" /\ spare' = spare
            /\ d' = [d EXCEPT !.buf = spare] /\ target' = [target EXCEPT ![Record.body] = Lost]
        BY <1>5, <3>1 DEF WriteRecordStart, Call, Goto
      <4>2. d \in MemoryOf(config.queue)
        BY Basics
      <4>3. d'.r = d.r
        BY <4>1, <4>2 DEF MemoryOf
      <4> QED BY <4>1, <4>3
    <3>2. CASE FlushSpareBlockToTargetBlock
      <4>1. /\ pc = "t_copy" /\ pc' = "t_dest" /\ spare' = spare /\ d' = d
            /\ target' = [target EXCEPT ![Record.body] = d.buf.data]
        BY <3>2 DEF FlushSpareBlockToTargetBlock, Goto
      <4> QED BY <4>1 DEF FInv, Writing
    <3> QED BY <3>1, <3>2
  <2>2. /\ Record.body' = work'.ws.q[d'.r].body
        /\ \A b \in Block :
             After(target', work', spare', b) =
               IF b = Record.body' THEN spare'.data ELSE Home(target', work', b)
    BY <1>2, <2>1 DEF PendView
  <2>3. \A b \in Block \ {Record.body} : Home(target', work', b) = Home(target, work, b)
    BY <1>1, <1>3, <2>1 DEF Home
  <2>4. Record.body' = Record.body
    BY <1>1, <1>3, <2>1, <2>2
  <2>5. \A b \in Block :
          After(target', work', spare', b) =
            IF b = Record.body THEN spare.data ELSE Home(target', work', b)
    BY <2>1, <2>2, <2>4
  <2> QED BY <1>3, <2>3, <2>5 DEF Same
<1> QED BY <1>4, <1>5

(* The record, and then the header, is marked. *)
LEMMA RecordDoneSame ==
  ASSUME TypeOK, FInv, Sound(config), TypeOK', FInv', config' = config,
         WriteRecordDest \/ WriteRecordDone
  PROVE  Same
<1>1. /\ target' = target /\ spare' = spare /\ pc \in {"t_dest", "t_done"}
      /\ \/ pc' = "t_done"
         \/ pc' = Head(stk)
  BY DEF WriteRecordDest, WriteRecordDone, Return, Goto
<1>2. pc' \in HomeLabels /\ pc \in HomeLabels
  <2>1. RecordStk(op.f, stk)
    BY <1>1 DEF FInv, Position
  <2> QED BY <1>1, <2>1, RecordReturn DEF HomeLabels
<1>3. work'.data = work.data
  <2>1. d.r \in 1..config.queue /\ d.h \in 1..config.queue /\ work \in AreaOf(config.queue)
    BY Basics, MemoryFields
  <2>2. \/ work' = FtwUpdateFvState(work, d.r, DEST_COMPLETED)
        \/ work' = FtwUpdateFvState(work, d.h, WRITES_COMPLETED)
    BY DEF WriteRecordDest, WriteRecordDone
  <2> QED BY <2>1, <2>2, AreaMark DEF DEST_COMPLETED, WRITES_COMPLETED
<1>4. HomeView /\ HomeView'
  BY HomeViewHolds, ViewsAfter
<1>5. \A b \in Block : After(target, work, spare, b) = Home(target, work, b)
  BY <1>2, <1>4 DEF HomeView
<1>6. \A b \in Block : After(target', work', spare', b) = Home(target', work', b)
  BY <1>2, <1>4 DEF HomeView
<1> QED BY <1>1, <1>3, <1>5, <1>6, HomesSame

(* The record is written. *)
LEMMA RecordSame ==
  ASSUME TypeOK, FInv, Sound(config), TypeOK', FInv', config' = config, WriteRecord
  PROVE  Same
<1>1. /\ target' = target /\ spare' = spare /\ pc = "w_check" /\ pc' = "w_erase"
      /\ WriteVerdict = "SUCCESS"
  BY DEF WriteRecord, Goto
<1>2. config \in Config /\ work \in AreaOf(config.queue) /\ DOMAIN work.ws.q = 1..config.queue
  BY Basics
<1>3. /\ IsValidWorkSpace(work.ws) /\ Homes(target, work)
      /\ Open(config, work.ws.q, d.h, d.r, {})
  BY <1>1, WriteChecked
<1>4. PICK S : S = {"open"}
  OBVIOUS
<1>5. Is(config, target, work, spare, d.h, d.r, S) /\ "pending" \notin S
  BY <1>3, <1>4 DEF Is
<1>6. \A b : After(target, work, spare, b) = Home(target, work, b)
  BY <1>2, <1>5, AfterHome, ZenonT(40)
<1>7. HomeView'
  BY ViewsAfter
<1>8. \A b \in Block : After(target', work', spare', b) = Home(target', work', b)
  BY <1>1, <1>7 DEF HomeView, HomeLabels
<1>9. work'.data = work.data
  <2>1. PICK c : work' = [work EXCEPT !.ws.q[d.rc] = c]
    BY Zenon DEF WriteRecord
  <2> QED BY <1>2, <2>1 DEF AreaOf
<1> QED BY <1>1, <1>6, <1>8, <1>9, HomesSame

(* FtwAbort marks a header that says nothing recovery needs. *)
LEMMA AbortSame ==
  ASSUME TypeOK, FInv, Sound(config), FtwAbort
  PROVE  Same
<1>1. /\ pc = "b_check" /\ target' = target /\ spare' = spare
      /\ work' = FtwUpdateFvState(work, d.h, WRITES_COMPLETED)
      /\ HEADER_ALLOCATED \in Header.bits
  BY DEF FtwAbort
<1>2. /\ config \in Config /\ config.queue \in Nat /\ DOMAIN work.ws.q = 1..config.queue
      /\ work \in AreaOf(config.queue) /\ d.h \in 1..config.queue
  BY Basics, MemoryFields
<1>3. /\ d.ws = work.ws /\ d.h < config.queue
      /\ \/ FlashAt(d.h, d.r, {"vacant", "torn", "open", "tidy", "written"})
         \/ /\ FlashAt(d.h, d.r, {"pending"})
            /\ Record.body = WorkBlk /\ work.data = spare.data
  <2>1. \/ FlashAt(d.h, d.r, Settled)
        \/ FlashAt(d.h, d.r, Serving(fails) \cap {"tidy", "written"})
        \/ FlashAt(d.h, d.r, {"torn", "open"}) \/ FlashAt(d.h, d.r, {"written"})
        \/ FlashAt(d.h, d.r, {"vacant"})
        \/ FlashAt(d.h, d.r, {"pending"}) /\ Record.body = WorkBlk /\ work.data = spare.data
    BY <1>1, AbortCalled
  <2>2. ASSUME NEW S, S \subseteq {"vacant", "torn", "open", "tidy", "written"}, FlashAt(d.h, d.r, S)
        PROVE  FlashAt(d.h, d.r, {"vacant", "torn", "open", "tidy", "written"})
    BY <2>2, IsMore DEF FlashAt
  <2>3. d.ws = work.ws /\ d.h < config.queue
    BY <1>1, AbortCalled
  <2>4. Settled \subseteq {"vacant", "torn", "open", "tidy", "written"}
    BY DEF Settled
  <2> QED BY <2>1, <2>2, <2>3, <2>4
<1>4. HEADER_ALLOCATED \in work.ws.q[d.h].bits
  BY <1>1, <1>3 DEF Header
<1>5. /\ \A b \in Block : After(target, work, spare, b) = Home(target, work, b)
      /\ IsValidWorkSpace(work.ws) /\ Homes(target, work)
      /\ \/ \E bits : Open(config, work.ws.q, d.h, d.r, bits)
         \/ Written(config, work.ws.q, d.h, d.r)
         \/ Torn(config, work.ws.q, d.h, d.r)
  <2>1. CASE FlashAt(d.h, d.r, {"vacant", "torn", "open", "tidy", "written"})
    <3>1. PICK S : S = {"vacant", "torn", "open", "tidy", "written"}
      OBVIOUS
    <3>2. Is(config, target, work, spare, d.h, d.r, S) /\ "pending" \notin S
      BY <2>1, <3>1 DEF FlashAt
    <3>3. \A b : After(target, work, spare, b) = Home(target, work, b)
      BY <1>2, <3>2, AfterHome, ZenonT(40)
    <3>4. ~Vacant(config, work.ws.q, d.h, d.r)
      BY <1>2, <1>4, BlankFacts DEF Vacant, Clean
    <3> QED BY <3>2, <3>3, <3>4 DEF Is
  <2>2. CASE FlashAt(d.h, d.r, {"pending"}) /\ Record.body = WorkBlk /\ work.data = spare.data
    <3>1. \A b : After(target, work, spare, b) =
                   IF b = work.ws.q[d.r].body THEN spare.data ELSE Home(target, work, b)
      BY <1>2, <2>2, AfterPending DEF FlashAt
    <3>2. work.ws.q[d.r].body = WorkBlk /\ Home(target, work, WorkBlk) = spare.data
      BY <1>3, <2>2 DEF Record, Home
    <3>3. /\ IsValidWorkSpace(work.ws) /\ Open(config, work.ws.q, d.h, d.r, Spared)
          /\ Holds(spare.data, WorkBlk) /\ Others(target, work, WorkBlk)
      BY <2>2, <3>2 DEF FlashAt, Is, Pend
    <3>4. Homes(target, work)
      BY <3>2, <3>3, HomesOthers, BlockAssumption
    <3> QED BY <3>1, <3>2, <3>3, <3>4
  <2> QED BY <1>3, <2>1, <2>2
<1>6. PICK c : c = Marked(work.ws.q[d.h], WRITES_COMPLETED)
  OBVIOUS
<1>7. /\ c.body = work.ws.q[d.h].body /\ HEADER_ALLOCATED \in c.bits /\ WRITES_COMPLETED \in c.bits
  BY <1>4, <1>6, MarkedFields
<1>8. /\ work' \in AreaOf(config.queue) /\ work'.data = work.data
      /\ SameHeader(work'.ws, work.ws) /\ work'.ws.q = Put(work.ws.q, d.h, c)
  BY <1>1, <1>2, <1>6, AreaMark DEF WRITES_COMPLETED
<1>9. Homes(target, work') /\ IsValidWorkSpace(work'.ws) /\ DOMAIN work'.ws.q = 1..config.queue
  BY <1>5, <1>8, HomesData, AreaFields DEF SameHeader, IsValidWorkSpace
<1>10. PICK S : S = {"vacant", "torn"}
  OBVIOUS
<1>11. \E h, r : Is(config, target', work', spare', h, r, S)
  <2>1. CASE Torn(config, work.ws.q, d.h, d.r)
    <3>1. Torn(config, work'.ws.q, d.h, d.r)
      BY <1>2, <1>7, <1>8, <2>1, TornStays
    <3> QED BY <1>1, <1>9, <1>10, <3>1 DEF Is
  <2>2. CASE (\E bits : Open(config, work.ws.q, d.h, d.r, bits)) \/ Written(config, work.ws.q, d.h, d.r)
    <3>1. Vacant(config, work'.ws.q, d.h + Records(config) + 1, d.h + Records(config) + 2)
      BY <1>2, <1>7, <1>8, <2>2, HeaderDone
    <3> QED BY <1>1, <1>9, <1>10, <3>1 DEF Is
  <2> QED BY <1>5, <2>1, <2>2
<1>12. \A b : After(target', work', spare', b) = Home(target', work', b)
  <2>1. "pending" \notin S
    BY <1>10
  <2> QED BY <1>2, <1>9, <1>11, <2>1, AfterHome, ZenonT(40)
<1> QED BY <1>1, <1>5, <1>8, <1>12, HomesSame

LEMMA HeaderTornSame ==
  ASSUME TypeOK, FInv, Sound(config), PowerLossInHeader
  PROVE  Same
<1>1. /\ work' \in AreaOf(config.queue) /\ work'.data = work.data
      /\ Is(config, target, work, spare, d.h, d.r, {"vacant"})
      /\ Is(config, target, work', spare, d.h, d.r, {"torn"})
  BY HeaderTorn
<1>2. config \in Config /\ DOMAIN work.ws.q = 1..config.queue
  BY Basics
<1>3. target' = target /\ spare' = spare /\ DOMAIN work'.ws.q = 1..config.queue
  BY <1>1, AreaFields DEF PowerLossInHeader, Reset
<1>4. PICK S, T : S = {"vacant"} /\ T = {"torn"}
  OBVIOUS
<1>5. /\ Is(config, target, work, spare, d.h, d.r, S) /\ "pending" \notin S
      /\ Is(config, target', work', spare', d.h, d.r, T) /\ "pending" \notin T
  BY <1>1, <1>3, <1>4
<1>6. \A b : After(target, work, spare, b) = Home(target, work, b)
  BY <1>2, <1>5, AfterHome, ZenonT(40)
<1>7. \A b : After(target', work', spare', b) = Home(target', work', b)
  BY <1>2, <1>3, <1>5, AfterHome, ZenonT(40)
<1> QED BY <1>1, <1>3, <1>6, <1>7, HomesSame

(* SPARE_COMPLETED makes the update. *)
LEMMA SpareCompletedApplies ==
  ASSUME TypeOK, FInv, Sound(config), TypeOK', FInv', config' = config, WriteSpareCompleted
  PROVE  \A b \in Block : After(target', work', spare', b) =
                            IF b = op.b THEN <<op.b, op.v>> ELSE After(target, work, spare, b)
<1>1. /\ target' = target /\ spare' = spare /\ pc = "w_spare" /\ pc' = "t_start"
      /\ work' = FtwUpdateFvState(work, d.rc, SPARE_COMPLETED)
  BY DEF WriteSpareCompleted, Call
<1>2. /\ d.rc = d.r /\ work.ws.q[d.r].body = op.b /\ spare.data = <<op.b, op.v>>
  BY <1>1 DEF FInv, Writing
<1>3. /\ work \in AreaOf(config.queue) /\ d \in MemoryOf(config.queue) /\ d.r \in 1..config.queue
      /\ DOMAIN d.ws.q = 1..config.queue
  BY Basics, MemoryFields
<1>4. HomeView /\ PendView'
  BY HomeViewHolds, ViewsAfter
<1>5. SPARE_COMPLETED \in {1, 2, 4}
  BY DEF SPARE_COMPLETED
<1>6. work'.data = work.data /\ work'.ws.q[d.r] = Marked(work.ws.q[d.r], SPARE_COMPLETED)
  BY <1>1, <1>2, <1>3, <1>5, AreaMark
<1>7. d'.r = d.r
  <2>1. d' = FtwUpdateFvState(d, d.r, SPARE_COMPLETED)
    BY <1>2 DEF WriteSpareCompleted, FtwUpdateFvState
  <2> QED BY <1>3, <1>5, <2>1, MemoryMark
<1>8. \A b \in Block : After(target, work, spare, b) = Home(target, work, b)
  BY <1>1, <1>4 DEF HomeView, HomeLabels
<1>9. /\ Record.body' = work'.ws.q[d'.r].body
      /\ \A b \in Block :
           After(target', work', spare', b) =
             IF b = Record.body' THEN spare'.data ELSE Home(target', work', b)
  BY <1>1, <1>4 DEF PendView
<1>10. Record.body' = op.b
  BY <1>2, <1>6, <1>7, <1>9, MarkedFields
<1>11. \A b : Home(target', work', b) = Home(target, work, b)
  BY <1>1, <1>6 DEF Home
<1> QED BY <1>1, <1>2, <1>8, <1>9, <1>10, <1>11


-----------------------------------------------------------------------------
(* Refinement: steps                                                         *)
-----------------------------------------------------------------------------

Content == [b \in Block |-> Recovered(b)]
Update ==
  IF InWrite THEN [busy |-> TRUE, b |-> op.b, v |-> op.v, done |-> applied] ELSE [busy |-> FALSE]
Reply ==
  IF op.f # "write" \/ InWrite \/ pc = "off" THEN "none"
  ELSE IF status = "SUCCESS" THEN "success" ELSE "error"

LEMMA ContentAfter ==
  /\ Content = [b \in Block |-> After(target, work, spare, b)]
  /\ Content' = [b \in Block |-> After(target', work', spare', b)]
<1>1. \A b \in Block : Recovered(b) = After(target, work, spare, b)
  BY DEF Recovered, After, WorkFromSpare, FromSpareBlock, Home
<1>2. \A b \in Block : Recovered(b)' = After(target', work', spare', b)
  BY DEF Recovered, After, WorkFromSpare, FromSpareBlock, Home
<1> QED BY <1>1, <1>2, Zenon DEF Content

LEMMA ContentSame ==
  ASSUME Same
  PROVE  Content' = Content
BY ContentAfter DEF Same

(* Only SPARE_COMPLETED changes what recovery finds. *)
LEMMA StepSame ==
  ASSUME TypeOK, FInv, Sound(config), TypeOK', FInv', config' = config, Step, ~WriteSpareCompleted
  PROVE  Same
<1>1. CASE FtwEraseSpareBlock \/ ReclaimCopy \/ ReclaimSetSpareValid \/ WriteCopy
  BY <1>1, SpareSame
<1>2. CASE ReclaimRestore \/ WriteRestore \/ RestartErase
  BY <1>2, RestoreSame
<1>3. CASE FlushSetSpareValid \/ FlushSetWorkInvalid \/ FlushErase \/ FlushCopy
  BY <1>3, FlushSame
<1>4. CASE ReclaimSetWorkInvalid \/ FlushSetWorkValid \/ AllocateHeader \/ AllocateWrites
  BY <1>4, ReclaimInvalidSame, FlushReturnSame, AllocateSame
<1>5. CASE \/ WriteRecordStart \/ FlushSpareBlockToTargetBlock \/ WriteRecordDest
           \/ WriteRecordDone \/ WriteRecord \/ FtwAbort
  BY <1>5, RecordStartSame, RecordDoneSame, RecordSame, AbortSame
<1>6. CASE \/ WorkSpaceRefresh \/ Reread \/ FtwReclaimWorkSpace \/ AllocateCheck \/ WriteStart
           \/ WriteNotAllocated \/ WriteRefused \/ RestartRefused \/ FtwRestart \/ AbortNothing
           \/ FtwGetLastWrite \/ GetLastWriteAborted \/ Boot \/ InitWorkSpace \/ InitAbortFirst
           \/ InitAbortLast \/ InitReclaim \/ InitRestart \/ InitRestarted \/ InitDone
  <2>1. target' = target /\ work' = work /\ spare' = spare
    BY <1>6 DEF WorkSpaceRefresh, Reread, FtwReclaimWorkSpace, AllocateCheck, WriteStart,
       WriteNotAllocated, WriteRefused, RestartRefused, FtwRestart, AbortNothing,
       FtwGetLastWrite, GetLastWriteAborted, Boot, InitWorkSpace, InitAbortFirst,
       InitAbortLast, InitReclaim, InitRestart, InitRestarted, InitDone, flash
  <2> QED BY <2>1, FlashSame
<1> QED BY <1>1, <1>2, <1>3, <1>4, <1>5, <1>6 DEF Step

(* No function returns to "idle" or "off". *)
LEMMA ReturnLabel ==
  ASSUME NEW f, NEW s,
         FullStk(f, s) \/ RoomStk(f, s) \/ ReclaimStk(f, s) \/ RecordStk(f, s) \/ FlushStk(f, s)
  PROVE  Head(s) \notin {"idle", "off"}
<1>1. CASE FullStk(f, s)
  BY <1>1, FullReturn
<1>2. CASE RoomStk(f, s)
  BY <1>2, RoomReturn
<1>3. CASE ReclaimStk(f, s)
  BY <1>3, ReclaimReturn
<1>4. CASE RecordStk(f, s)
  BY <1>4, RecordReturn
<1>5. CASE FlushStk(f, s)
  BY <1>5, FlushReturn
<1> QED BY <1>1, <1>2, <1>3, <1>4, <1>5

(* While a write is under way, only its own returns end it. *)
LEMMA WriteGoesOn ==
  ASSUME TypeOK, FInv, Sound(config), Step, op.f = "write",
         ~WriteSpareCompleted, ~WriteRestore, ~WriteNotAllocated, ~WriteRefused
  PROVE  op' = op /\ applied' = applied /\ pc \notin {"idle", "off"} /\ pc' \notin {"idle", "off"}
<1>1. Position(pc, stk, op.f)
  BY DEF FInv
<1>2. CASE \/ FtwEraseSpareBlock \/ FtwReclaimWorkSpace \/ ReclaimCopy \/ ReclaimSetSpareValid
           \/ ReclaimSetWorkInvalid \/ FlushSetSpareValid \/ FlushSetWorkInvalid \/ FlushErase
           \/ FlushCopy \/ AllocateHeader \/ WriteRecordStart \/ FlushSpareBlockToTargetBlock
           \/ WriteStart \/ WriteRecord \/ WriteCopy
  BY <1>2 DEF FtwEraseSpareBlock, FtwReclaimWorkSpace, ReclaimCopy, ReclaimSetSpareValid,
     ReclaimSetWorkInvalid, FlushSetSpareValid, FlushSetWorkInvalid, FlushErase, FlushCopy,
     AllocateHeader, WriteRecordStart, FlushSpareBlockToTargetBlock, WriteStart, WriteRecord,
     WriteCopy, Goto, Call, AfterErase
<1>3. CASE \/ WorkSpaceRefresh \/ Reread \/ ReclaimRestore \/ FlushSetWorkValid
           \/ WriteRecordDest \/ WriteRecordDone
  <2>1. /\ pc \in {"refresh", "reread", "rc_restore", "f_valid", "t_dest", "t_done"}
        /\ op' = op /\ applied' = applied /\ pc' \in {"reclaim", "t_done", Head(stk)}
    BY <1>3 DEF WorkSpaceRefresh, Reread, ReclaimRestore, FlushSetWorkValid, WriteRecordDest,
       WriteRecordDone, Goto, Call, Return
  <2>2. \/ FullStk(op.f, stk) \/ RoomStk(op.f, stk) \/ ReclaimStk(op.f, stk)
        \/ RecordStk(op.f, stk) \/ FlushStk(op.f, stk)
    BY <1>1, <2>1 DEF Position
  <2>3. Head(stk) \notin {"idle", "off"}
    BY <2>2, ReturnLabel
  <2> QED BY <2>1, <2>3
<1>4. CASE AllocateCheck \/ AllocateWrites
  <2>1. pc \in {"a_check", "a_writes"} /\ op' = op /\ applied' = applied
    BY <1>4 DEF AllocateCheck, AllocateWrites
  <2>2. stk = <<"w_check">>
    BY <1>1, <2>1 DEF Position
  <2>3. stk # <<>> /\ Head(stk) = "w_check"
    BY <2>2, StackTop
  <2>4. pc' \in {"reclaim", "a_header", Head(stk)}
    BY <1>4, <2>3 DEF AllocateCheck, AllocateWrites, Finish, Return, Goto, Call
  <2> QED BY <2>1, <2>3, <2>4
<1>5. CASE \/ RestartRefused \/ FtwRestart \/ RestartErase \/ AbortNothing \/ FtwAbort
           \/ FtwGetLastWrite \/ GetLastWriteAborted \/ Boot \/ InitWorkSpace \/ InitAbortFirst
           \/ InitAbortLast \/ InitReclaim \/ InitRestart \/ InitRestarted \/ InitDone
  <2>1. pc \in {"s_check", "s_clear", "b_check", "l_check", "l_abort", "off", "i_valid", "i_first",
                "i_last", "i_tail", "i_restart", "i_abort", "i_done"}
    BY <1>5 DEF RestartRefused, FtwRestart, RestartErase, AbortNothing, FtwAbort,
       FtwGetLastWrite, GetLastWriteAborted, Boot, InitWorkSpace, InitAbortFirst,
       InitAbortLast, InitReclaim, InitRestart, InitRestarted, InitDone
  <2> QED BY <1>1, <2>1 DEF Position
<1> QED BY <1>2, <1>3, <1>4, <1>5 DEF Step

(* What a step is to the callers, see AtomicStore. *)
Unseen == Content' = Content /\ Update' = Update /\ Reply' = Reply
Begins ==
  \E b \in Block, v \in Version :
    /\ Update = [busy |-> FALSE]
    /\ Update' = [busy |-> TRUE, b |-> b, v |-> v, done |-> FALSE]
    /\ Reply' = "none" /\ Content' = Content
Applies ==
  \E b \in Block, v \in Version :
    /\ Update = [busy |-> TRUE, b |-> b, v |-> v, done |-> FALSE]
    /\ Update' = [busy |-> TRUE, b |-> b, v |-> v, done |-> TRUE]
    /\ Content' = [Content EXCEPT ![b] = <<b, v>>] /\ Reply' = Reply
Succeeds ==
  \E b, v :
    /\ Update = [busy |-> TRUE, b |-> b, v |-> v, done |-> TRUE]
    /\ Update' = [busy |-> FALSE] /\ Reply' = "success" /\ Content' = Content
GivesUp ==
  \E b, v, x :
    /\ Update = [busy |-> TRUE, b |-> b, v |-> v, done |-> x]
    /\ Update' = [busy |-> FALSE] /\ Reply' = "error" /\ Content' = Content
Forgets == Update' = [busy |-> FALSE] /\ Reply' = "none" /\ Content' = Content

LEMMA StepSeen ==
  ASSUME TypeOK, FInv, Sound(config), TypeOK', FInv', config' = config, Step
  PROVE  Unseen \/ Applies \/ Succeeds \/ GivesUp
<1>1. CASE op.f # "write"
  <2>1. ~WriteSpareCompleted
    BY <1>1 DEF WriteSpareCompleted, FInv, Position
  <2>2. Content' = Content
    BY <2>1, StepSame, ContentSame
  <2>3. op' = op \/ op' = [f |-> "init"]
    BY DEF Step, FtwEraseSpareBlock, FtwReclaimWorkSpace, ReclaimCopy, ReclaimSetSpareValid,
     ReclaimSetWorkInvalid, FlushSetSpareValid, FlushSetWorkInvalid, FlushErase, FlushCopy,
     AllocateHeader, WriteRecordStart, FlushSpareBlockToTargetBlock, WriteStart, WriteRecord,
     WriteCopy, WorkSpaceRefresh, Reread, ReclaimRestore, FlushSetWorkValid, WriteRecordDest,
     WriteRecordDone, AllocateCheck, AllocateWrites, RestartRefused, FtwRestart, RestartErase,
     AbortNothing, FtwAbort, FtwGetLastWrite, GetLastWriteAborted, Boot, InitWorkSpace,
     InitAbortFirst, InitAbortLast, InitReclaim, InitRestart, InitRestarted, InitDone,
     WriteSpareCompleted, WriteRestore, WriteNotAllocated, WriteRefused
  <2>4. op'.f # "write"
    BY <1>1, <2>3
  <2> QED BY <1>1, <2>2, <2>4 DEF Unseen, Update, Reply, InWrite
<1>2. CASE op.f = "write" /\ ~WriteSpareCompleted /\ ~WriteRestore /\ ~WriteNotAllocated /\ ~WriteRefused
  <2>1. op' = op /\ applied' = applied /\ pc \notin {"idle", "off"} /\ pc' \notin {"idle", "off"}
    BY <1>2, WriteGoesOn
  <2>2. Content' = Content
    BY <1>2, StepSame, ContentSame
  <2> QED BY <1>2, <2>1, <2>2 DEF Unseen, Update, Reply, InWrite
<1>3. CASE op.f = "write" /\ WriteSpareCompleted
  <2>1. /\ pc = "w_spare" /\ pc' = "t_start" /\ op' = op /\ applied' = TRUE
    BY <1>3 DEF WriteSpareCompleted, Call
  <2>2. applied = FALSE
    <3>1. stk = <<>>
      BY <2>1 DEF FInv, Position
    <3> QED BY <1>3, <2>1, <3>1 DEF FInv, Progress, Late, TypeOK
  <2>3. op.b \in Block /\ op.v \in Version
    <3>1. Called
      BY DEF FInv
    <3> QED BY <1>3, <3>1, Basics, WriteCall
  <2>4. Content' = [Content EXCEPT ![op.b] = <<op.b, op.v>>]
    <3>1. \A b \in Block : After(target', work', spare', b) =
                             IF b = op.b THEN <<op.b, op.v>> ELSE After(target, work, spare, b)
      BY <1>3, SpareCompletedApplies
    <3> QED BY <2>3, <3>1, ContentAfter
  <2>5. /\ Update = [busy |-> TRUE, b |-> op.b, v |-> op.v, done |-> FALSE]
        /\ Update' = [busy |-> TRUE, b |-> op.b, v |-> op.v, done |-> TRUE]
        /\ Reply' = Reply
    BY <1>3, <2>1, <2>2 DEF Update, Reply, InWrite
  <2> QED BY <2>3, <2>4, <2>5 DEF Applies
<1>4. CASE op.f = "write" /\ (WriteRestore \/ WriteNotAllocated \/ WriteRefused)
  <2>1. pc \in {"w_restore", "w_start", "w_check"} /\ op' = op
    BY <1>4 DEF WriteRestore, WriteNotAllocated, WriteRefused
  <2>2. stk = <<>>
    BY <2>1 DEF FInv, Position
  <2>3. pc' = "idle"
    BY <1>4, <2>2 DEF WriteRestore, WriteNotAllocated, WriteRefused, Finish, Goto
  <2>4. Content' = Content
    <3>1. ~WriteSpareCompleted
      BY <2>1 DEF WriteSpareCompleted
    <3> QED BY <3>1, StepSame, ContentSame
  <2>5. /\ Update = [busy |-> TRUE, b |-> op.b, v |-> op.v, done |-> applied]
        /\ Update' = [busy |-> FALSE]
        /\ Reply' = IF status' = "SUCCESS" THEN "success" ELSE "error"
    BY <1>4, <2>1, <2>3 DEF Update, Reply, InWrite
  <2>6. CASE WriteRestore
    <3>1. applied = TRUE /\ status' = "SUCCESS"
      BY <1>4, <2>6 DEF WriteRestore, Finish, FInv, Progress, Late, TypeOK
    <3> QED BY <2>4, <2>5, <3>1 DEF Succeeds
  <2>7. CASE WriteNotAllocated \/ WriteRefused
    <3>1. status' # "SUCCESS"
      BY <2>7 DEF WriteNotAllocated, WriteRefused, Finish
    <3> QED BY <2>4, <2>5, <3>1 DEF GivesUp
  <2> QED BY <1>4, <2>6, <2>7
<1> QED BY <1>1, <1>2, <1>3, <1>4

LEMMA CallersSeen ==
  ASSUME TypeOK, FInv, Sound(config), Callers
  PROVE  Begins \/ Forgets
<1> DEFINE IsWrite(o) == \E b \in config.targets, v \in Version, p \in config.private :
                           o = [f |-> "write", b |-> b, v |-> v, priv |-> p]
<1>1. PICK o, l : Request(o, l) /\ (o.f # "write" \/ IsWrite(o))
  <2>1. CASE CallAllocate
    <3>1. PICK n \in config.writes : Request([f |-> "allocate", n |-> n], "a_check")
      BY <2>1 DEF CallAllocate
    <3> QED BY <3>1
  <2>2. CASE CallWrite
    <3>1. PICK b \in config.targets, v \in Version, p \in config.private :
            Request([f |-> "write", b |-> b, v |-> v, priv |-> p], "w_start")
      BY <2>2 DEF CallWrite
    <3>2. IsWrite([f |-> "write", b |-> b, v |-> v, priv |-> p])
      BY DEF IsWrite
    <3> QED BY <3>1, <3>2
  <2>3. CASE CallRestart
    BY <2>3 DEF CallRestart
  <2>4. CASE CallAbort
    BY <2>4 DEF CallAbort
  <2>5. CASE CallGetLastWrite
    BY <2>5 DEF CallGetLastWrite
  <2> QED BY <2>1, <2>2, <2>3, <2>4, <2>5 DEF Callers
<1> HIDE DEF IsWrite
<1>2. /\ pc = "idle" /\ pc' = "refresh" /\ op' = o /\ applied' = FALSE
      /\ target' = target /\ work' = work /\ spare' = spare
  BY <1>1 DEF Request, Call, flash
<1>3. Content' = Content
  BY <1>2, FlashSame, ContentSame
<1>4. CASE o.f # "write"
  BY <1>2, <1>3, <1>4 DEF Forgets, Update, Reply, InWrite
<1>5. ASSUME NEW b \in config.targets, NEW v \in Version, NEW p \in config.private,
             o = [f |-> "write", b |-> b, v |-> v, priv |-> p]
      PROVE  Begins
  <2>1. b \in Block
    BY Basics DEF Config
  <2>2. op'.f = "write" /\ op'.b = b /\ op'.v = v
    BY <1>2, <1>5
  <2>3. /\ Update = [busy |-> FALSE]
        /\ Update' = [busy |-> TRUE, b |-> b, v |-> v, done |-> FALSE]
        /\ Reply' = "none"
    BY <1>2, <2>2 DEF Update, Reply, InWrite
  <2> QED BY <1>3, <2>1, <2>3 DEF Begins
<1> QED BY <1>1, <1>4, <1>5 DEF IsWrite

LEMMA FailureSeen ==
  ASSUME TypeOK, FInv, Sound(config), PowerLoss \/ PowerLossInHeader \/ FlashError
  PROVE  Unseen \/ Forgets \/ GivesUp
<1>1. CASE PowerLoss \/ PowerLossInHeader
  <2>1. Content' = Content
    <3>1. CASE PowerLoss
      BY <3>1, FlashSame, ContentSame DEF PowerLoss, Reset
    <3>2. CASE PowerLossInHeader
      BY <3>2, HeaderTornSame, ContentSame
    <3> QED BY <1>1, <3>1, <3>2
  <2>2. op' = [f |-> "init"]
    BY <1>1 DEF PowerLoss, PowerLossInHeader, Reset
  <2> QED BY <2>1, <2>2 DEF Forgets, Update, Reply, InWrite
<1>2. CASE FlashError
  <2>1. /\ op' = op /\ pc' = "idle" /\ status' = "ABORTED" /\ pc \in config.failOps
        /\ target' = target /\ work' = work /\ spare' = spare
    BY <1>2 DEF FlashError, flash
  <2>2. Content' = Content
    BY <2>1, FlashSame, ContentSame
  <2>3. pc \notin {"idle", "off"}
    <3>1. config \in Configs
      BY DEF TypeOK
    <3>2. pc \in FlashOps
      BY <2>1, <3>1, FailAssumption
    <3> QED BY <3>2 DEF FlashOps, AfterErase
  <2>4. CASE op.f = "write"
    BY <2>1, <2>2, <2>3, <2>4 DEF GivesUp, Update, Reply, InWrite
  <2>5. CASE op.f # "write"
    BY <2>1, <2>2, <2>5 DEF Unseen, Update, Reply, InWrite
  <2> QED BY <2>4, <2>5
<1> QED BY <1>1, <1>2

LEMMA StutterSeen ==
  ASSUME UNCHANGED vars
  PROVE  Unseen
<1>1. /\ target' = target /\ work' = work /\ spare' = spare /\ op' = op /\ pc' = pc
      /\ applied' = applied /\ status' = status
  BY DEF vars, flash, control
<1>2. Content' = Content
  BY <1>1, FlashSame, ContentSame
<1> QED BY <1>1, <1>2 DEF Unseen, Update, Reply, InWrite

(* An initial state is one of the abstract store. *)
LEMMA InitSeen ==
  ASSUME Init, Sound(config)
  PROVE  /\ Content = [b \in Block |-> <<b, 0>>]
         /\ Update = [busy |-> FALSE] /\ Reply = "none"
<1>1. /\ target = [b \in Block \ {WorkBlk} |-> <<b, 0>>]
      /\ work.data = <<WorkBlk, 0>> /\ work.ws = BlankSpace /\ spare = Erased
      /\ op = [f |-> "init"]
  BY DEF Init
<1>2. ~IsValidWorkSpace(work.ws) /\ ~IsValidWorkSpace(spare.ws)
  BY <1>1 DEF BlankSpace, Erased, IsValidWorkSpace
<1>3. TypeOK /\ config \in Config /\ DOMAIN work.ws.q = 1..config.queue
  BY InitHolds, Basics
<1>4. \A b : After(target, work, spare, b) = Home(target, work, b)
  BY <1>2, <1>3, AfterHome
<1>5. \A b \in Block : Home(target, work, b) = <<b, 0>>
  BY <1>1 DEF Home
<1>6. Content = [b \in Block |-> <<b, 0>>]
  BY <1>4, <1>5, ContentAfter
<1> QED BY <1>1, <1>6 DEF Update, Reply, InWrite

(* The platform does not change. *)
LEMMA StepConfig ==
  ASSUME Step
  PROVE  config' = config
BY DEF Step, FtwEraseSpareBlock, FtwReclaimWorkSpace, ReclaimCopy, ReclaimSetSpareValid,
   ReclaimSetWorkInvalid, FlushSetSpareValid, FlushSetWorkInvalid, FlushErase, FlushCopy,
   AllocateHeader, WriteRecordStart, FlushSpareBlockToTargetBlock, WriteStart, WriteRecord,
   WriteCopy, WorkSpaceRefresh, Reread, ReclaimRestore, FlushSetWorkValid, WriteRecordDest,
   WriteRecordDone, AllocateCheck, AllocateWrites, RestartRefused, FtwRestart, RestartErase,
   AbortNothing, FtwAbort, FtwGetLastWrite, GetLastWriteAborted, Boot, InitWorkSpace,
   InitAbortFirst, InitAbortLast, InitReclaim, InitRestart, InitRestarted, InitDone,
   WriteSpareCompleted, WriteRestore, WriteNotAllocated, WriteRefused, bounds

(* Every step is one of the abstract store, or no step of it. *)
LEMMA NextSeen ==
  ASSUME TypeOK, FInv, Sound(config), TypeOK', FInv', [Next]_vars
  PROVE  Unseen \/ Begins \/ Applies \/ Succeeds \/ GivesUp \/ Forgets
<1>1. CASE Step
  <2>1. config' = config
    BY <1>1, StepConfig
  <2> QED BY <1>1, <2>1, StepSeen
<1>2. CASE Callers
  BY <1>2, CallersSeen
<1>3. CASE PowerLoss \/ PowerLossInHeader \/ FlashError
  BY <1>3, FailureSeen
<1>4. CASE Quiet \/ UNCHANGED vars
  BY <1>4, StutterSeen DEF Quiet
<1> QED BY <1>1, <1>2, <1>3, <1>4 DEF Next

(* The steps of the abstract store, with the state of the driver put in. *)
LEMMA StoreSteps ==
  /\ Store!Init <=> /\ Content \in [Block -> {<<b, v>> : b \in Block, v \in Version}]
                    /\ \A b \in Block : Content[b][1] = b
                    /\ Update = [busy |-> FALSE]
                    /\ Reply = "none"
  /\ Begins => Store!Next
  /\ Applies => Store!Next
  /\ Succeeds => Store!Next
  /\ GivesUp => Store!Next
  /\ Forgets => Store!Next
<1>1. Store!Init <=> /\ Content \in [Block -> {<<b, v>> : b \in Block, v \in Version}]
                     /\ \A b \in Block : Content[b][1] = b
                     /\ Update = [busy |-> FALSE]
                     /\ Reply = "none"
  BY DEF Store!Init, Store!NoCall, Content, Update, Reply
<1>2. \A b, v : Store!Begin(b, v) <=>
                  /\ Update = [busy |-> FALSE]
                  /\ Update' = [busy |-> TRUE, b |-> b, v |-> v, done |-> FALSE]
                  /\ Reply' = "none" /\ Content' = Content
  BY DEF Store!Begin, Store!NoCall, Content, Update, Reply
<1>3. Store!Apply <=>
        /\ Update # [busy |-> FALSE] /\ ~Update.done
        /\ Update' = [Update EXCEPT !.done = TRUE]
        /\ Content' = [Content EXCEPT ![Update.b] = <<Update.b, Update.v>>]
        /\ Reply' = Reply
  BY DEF Store!Apply, Store!NoCall, Content, Update, Reply
<1>4. Store!Succeed <=>
        /\ Update # [busy |-> FALSE] /\ Update.done
        /\ Update' = [busy |-> FALSE] /\ Reply' = "success" /\ Content' = Content
  BY DEF Store!Succeed, Store!NoCall, Content, Update, Reply
<1>5. Store!GiveUp <=>
        /\ Update # [busy |-> FALSE]
        /\ Update' = [busy |-> FALSE] /\ Reply' = "error" /\ Content' = Content
  BY DEF Store!GiveUp, Store!NoCall, Content, Update, Reply
<1>6. Store!Forget <=>
        /\ Update' = [busy |-> FALSE] /\ Reply' = "none" /\ Content' = Content
  BY DEF Store!Forget, Store!NoCall, Content, Update, Reply
<1>7. Begins => Store!Next
  BY <1>2 DEF Begins, Store!Next
<1>8. Applies => Store!Next
  <2> SUFFICES ASSUME NEW b \in Block, NEW v \in Version,
                      Update = [busy |-> TRUE, b |-> b, v |-> v, done |-> FALSE],
                      Update' = [busy |-> TRUE, b |-> b, v |-> v, done |-> TRUE],
                      Content' = [Content EXCEPT ![b] = <<b, v>>], Reply' = Reply
               PROVE  Store!Apply
    BY DEF Applies, Store!Next
  <2>1. Update.busy = TRUE /\ Update.done = FALSE /\ Update.b = b /\ Update.v = v
    OBVIOUS
  <2>2. Update # [busy |-> FALSE]
    BY <2>1
  <2>3. Update' = [Update EXCEPT !.done = TRUE]
    <3> DEFINE at(done) == [busy |-> TRUE, b |-> b, v |-> v, done |-> done]
    <3>1. \A x, y : [at(x) EXCEPT !.done = y] = at(y)
      <4> TAKE x, y
      <4>1. \A z : [[busy |-> z, b |-> b, v |-> v, done |-> x] EXCEPT !.done = y]
                   = [busy |-> z, b |-> b, v |-> v, done |-> y]
        OBVIOUS
      <4> QED BY <4>1, Zenon
    <3>2. Update = at(FALSE) /\ Update' = at(TRUE)
      OBVIOUS
    <3> HIDE DEF at
    <3>3. [at(FALSE) EXCEPT !.done = TRUE] = at(TRUE)
      BY <3>1, Zenon
    <3>4. [Update EXCEPT !.done = TRUE] = [at(FALSE) EXCEPT !.done = TRUE]
      BY <3>2, Zenon
    <3> QED BY <3>2, <3>3, <3>4, Zenon
  <2> QED BY <1>3, <2>1, <2>2, <2>3
<1>9. Succeeds => Store!Next
  BY <1>4 DEF Succeeds, Store!Next
<1>10. GivesUp => Store!Next
  BY <1>5 DEF GivesUp, Store!Next
<1>11. Forgets => Store!Next
  BY <1>6 DEF Forgets, Store!Next
<1> QED BY <1>1, <1>7, <1>8, <1>9, <1>10, <1>11

(* "either the original contents or the modified contents are available": the
   driver implements AtomicStore. Whatever flash operation of FtwWrite, of a
   reclaim or of the recovery power is lost before, what InitFtwProtocol makes of
   the target blocks, the working block and the spare block changes at one step
   only, the one that marks the spare block complete, to exactly what the caller
   passed, and FtwWrite returns EFI_SUCCESS only after that step. *)
THEOREM FtwImplementsAtomicStore ==
  ASSUME \A c \in Configs : Sound(c)
  PROVE  Spec => WritesAreAtomic
<1>1. Init => Store!Init
  <2> SUFFICES ASSUME Init PROVE Store!Init
    OBVIOUS
  <2>1. Sound(config)
    BY DEF Init
  <2>2. 0 \in Version
    BY BlockAssumption
  <2>3. Content = [b \in Block |-> <<b, 0>>] /\ Update = [busy |-> FALSE] /\ Reply = "none"
    BY <2>1, InitSeen
  <2>4. /\ Content \in [Block -> {<<b, v>> : b \in Block, v \in Version}]
        /\ \A b \in Block : Content[b][1] = b
    BY <2>2, <2>3
  <2> QED BY <2>3, <2>4, StoreSteps
<1>2. /\ TypeOK /\ FInv /\ TypeOK' /\ FInv' /\ [Next]_vars
      => [Store!Next]_<<Content, Update, Reply>>
  <2> SUFFICES ASSUME TypeOK, FInv, TypeOK', FInv', [Next]_vars
               PROVE  [Store!Next]_<<Content, Update, Reply>>
    OBVIOUS
  <2>1. Sound(config)
    BY DEF TypeOK
  <2>2. Unseen \/ Begins \/ Applies \/ Succeeds \/ GivesUp \/ Forgets
    BY <2>1, NextSeen
  <2> QED BY <2>2, StoreSteps DEF Unseen
<1>3. WritesAreAtomic <=> Store!Init /\ [][Store!Next]_<<Content, Update, Reply>>
  BY DEF WritesAreAtomic, Store!Spec, Content, Update, Reply
<1> QED BY <1>1, <1>2, <1>3, Invariant, PTL DEF Spec

=============================================================================
