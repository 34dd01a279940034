---------------------------- MODULE VariableProofs ----------------------------
(* Invariants of the variable driver, for every store size and every number of
   calls, restarts and flash errors. *)
EXTENDS VariableStore, ListLemmas, FiniteSetTheorems

-----------------------------------------------------------------------------
(* What the operators on logs compute: the size of a log, the records Reclaim
   keeps, and what FindVariableEx finds. *)

(* The function behind SizeOf: the size of each prefix of a log. *)
SizeFcn(log) ==
  CHOOSE size : size = [i \in 0 .. Len(log) |-> IF i = 0 THEN 0 ELSE size[i - 1] + RecordSize(log[i])]

(* The function behind Reinstall: what is copied of each prefix of a log. *)
CopyFcn(log, S) ==
  CHOOSE copied : copied = [i \in 0 .. Len(log) |->
    IF i = 0 THEN <<>>
    ELSE IF i \in S THEN Append(copied[i - 1], [log[i] EXCEPT !.state = "added"])
    ELSE copied[i - 1]]

(* The data of a variable is a sequence, of bounded length. *)
LEMMA ValueIsSeq ==
  \A x : x \in Value <=> x \in Seq(Datum) /\ Len(x) <= MaxData
<1>1. MaxData \in Nat
  BY VariableAssumption
<1>2. ASSUME NEW x \in Value PROVE x \in Seq(Datum) /\ Len(x) <= MaxData
  <2>1. PICK n \in 0 .. MaxData : x \in [1 .. n -> Datum]
    BY <1>2 DEF Value
  <2>2. n \in Nat
    BY <1>1
  <2> QED BY <1>1, <2>1, <2>2
<1>3. ASSUME NEW x, x \in Seq(Datum), Len(x) <= MaxData PROVE x \in Value
  <2>1. Len(x) \in 0 .. MaxData /\ x \in [1 .. Len(x) -> Datum]
    BY <1>1, <1>3
  <2> QED BY <2>1 DEF Value
<1> QED BY <1>2, <1>3

(* A record has a size. *)
LEMMA RecordSizeNat ==
  ASSUME NEW r \in Record
  PROVE  /\ RecordSize(r) \in Nat /\ RecordSize(r) >= 1
         /\ Len(r.data) \in Nat
         /\ r.state = "blank" => RecordSize(r) = 1
         /\ r.state # "blank" => RecordSize(r) = 1 + Len(r.data)
<1>1. r.data \in Seq(Datum)
  BY ValueIsSeq DEF Record
<1>2. Len(r.data) \in Nat
  BY <1>1
<1> QED BY <1>2 DEF RecordSize

(* Changing the state of a record makes a record. *)
LEMMA RecordState ==
  ASSUME NEW r \in Record, NEW s \in State
  PROVE  /\ [r EXCEPT !.state = s] \in Record
         /\ [r EXCEPT !.state = s].state = s
         /\ [r EXCEPT !.state = s].name = r.name
         /\ [r EXCEPT !.state = s].attr = r.attr
         /\ [r EXCEPT !.state = s].data = r.data
BY DEF Record

(* The recursion of SizeOf. *)
LEMMA SizeFcnDef ==
  ASSUME NEW log \in Seq(Record)
  PROVE  /\ SizeFcn(log) \in [0 .. Len(log) -> Nat]
         /\ SizeFcn(log)[0] = 0
         /\ \A i \in 1 .. Len(log) : SizeFcn(log)[i] = SizeFcn(log)[i - 1] + RecordSize(log[i])
         /\ SizeOf(log) = SizeFcn(log)[Len(log)]
<1> DEFINE n == Len(log)
           h == [p \in (1 .. n) \X Nat |-> p[2] + RecordSize(log[p[1]])]
<1>1. n \in Nat /\ \A i \in 1 .. n : log[i] \in Record
  OBVIOUS
<1>2. \A i \in 1 .. n : RecordSize(log[i]) \in Nat
  BY <1>1, RecordSizeNat
<1>3. h \in [(1 .. n) \X Nat -> Nat]
  BY <1>1, <1>2
<1>4. \A i \in 1 .. n : \A x \in Nat : h[<<i, x>>] = x + RecordSize(log[i])
  OBVIOUS
<1>5. PICK f : f \in [0 .. n -> Nat] /\ f[0] = 0 /\ \A i \in 1 .. n : f[i] = h[<<i, f[i - 1]>>]
  <2>1. n \in Nat /\ 0 \in Nat
    BY <1>1
  <2>2. \E f : Iterates(f, n, Nat, 0, h)
    <3> HIDE DEF n, h
    <3> QED BY <1>3, <2>1, IntervalRecursion, Zenon
  <2> QED BY <2>2 DEF Iterates
<1> HIDE DEF h
<1> DEFINE G(g) == [i \in 0 .. n |-> IF i = 0 THEN 0 ELSE g[i - 1] + RecordSize(log[i])]
<1>6. f = G(f)
  <2>1. ASSUME NEW i \in 0 .. n PROVE f[i] = G(f)[i]
    <3>1. CASE i = 0
      BY <1>5, <3>1
    <3>2. CASE i # 0
      <4>1. i \in 1 .. n /\ i - 1 \in 0 .. n
        BY <1>1, <3>2
      <4>2. f[i - 1] \in Nat
        BY <1>5, <4>1
      <4>3. f[i] = f[i - 1] + RecordSize(log[i])
        BY <1>4, <1>5, <4>1, <4>2
      <4> QED BY <3>2, <4>3
    <3> QED BY <3>1, <3>2
  <2> HIDE DEF n
  <2> QED BY <1>5, <2>1
<1>7. SizeFcn(log) = G(SizeFcn(log))
  <2>1. SizeFcn(log) = CHOOSE g : g = G(g)
    BY DEF SizeFcn
  <2> HIDE DEF G
  <2> QED BY <1>6, <2>1
<1> DEFINE s == SizeFcn(log)
<1>8. s = G(s)
  BY <1>7
<1> HIDE DEF s
<1>9. s[0] = 0 /\ DOMAIN s = 0 .. n
  BY <1>1, <1>8
<1>10. \A i \in 1 .. n : s[i] = s[i - 1] + RecordSize(log[i])
  <2> TAKE i \in 1 .. n
  <2>1. i \in 0 .. n /\ i # 0
    BY <1>1
  <2>2. s[i] = G(s)[i]
    BY <1>8
  <2> QED BY <2>1, <2>2
<1>11. \A i \in 0 .. n : s[i] \in Nat
  <2> DEFINE T == {i \in 0 .. n : s[i] \in Nat}
  <2>1. 0 \in T
    BY <1>1, <1>9
  <2>2. ASSUME NEW i \in 0 .. (n - 1), i \in T PROVE i + 1 \in T
    <3>1. i + 1 \in 1 .. n /\ i + 1 - 1 = i
      BY <1>1
    <3>2. s[i + 1] = s[i] + RecordSize(log[i + 1])
      BY <1>10, <3>1
    <3> QED BY <1>2, <2>2, <3>1, <3>2
  <2> HIDE DEF T
  <2>3. \A i \in 0 .. n : i \in T
    BY <1>1, <2>1, <2>2, IntervalInduction
  <2> QED BY <2>3 DEF T
<1>12. s \in [0 .. n -> Nat]
  <2>1. s = [i \in 0 .. n |-> s[i]]
    BY <1>8, <1>9
  <2> QED BY <1>11, <2>1
<1>13. SizeOf(log) = SizeFcn(log)[Len(log)]
  BY DEF SizeOf, SizeFcn
<1> QED BY <1>9, <1>10, <1>12, <1>13 DEF s

(* Prefixes with records of the same sizes have the same size. *)
LEMMA SizeFcnSame ==
  ASSUME NEW log \in Seq(Record), NEW log2 \in Seq(Record), NEW m \in Nat,
         m <= Len(log), m <= Len(log2),
         \A i \in 1 .. m : RecordSize(log[i]) = RecordSize(log2[i])
  PROVE  SizeFcn(log)[m] = SizeFcn(log2)[m]
<1> DEFINE T == {i \in 0 .. m : SizeFcn(log)[i] = SizeFcn(log2)[i]}
<1>0. Len(log) \in Nat /\ Len(log2) \in Nat
  OBVIOUS
<1>1. 0 \in T
  BY SizeFcnDef
<1>2. ASSUME NEW i \in 0 .. (m - 1), i \in T PROVE i + 1 \in T
  <2>1. i + 1 \in 1 .. m /\ i + 1 - 1 = i /\ i + 1 \in 1 .. Len(log) /\ i + 1 \in 1 .. Len(log2)
    BY <1>0
  <2>2. SizeFcn(log)[i + 1] = SizeFcn(log)[i] + RecordSize(log[i + 1])
    BY <2>1, SizeFcnDef
  <2>3. SizeFcn(log2)[i + 1] = SizeFcn(log2)[i] + RecordSize(log2[i + 1])
    BY <2>1, SizeFcnDef
  <2>4. RecordSize(log[i + 1]) = RecordSize(log2[i + 1])
    BY <2>1
  <2>5. SizeFcn(log)[i + 1] = SizeFcn(log2)[i + 1]
    BY <1>2, <2>2, <2>3, <2>4
  <2> QED BY <2>1, <2>5
<1>3. \A i \in 0 .. m : i \in T
  <2> HIDE DEF T
  <2> QED BY <1>1, <1>2, IntervalInduction
<1>4. m \in T
  BY <1>3
<1> QED BY <1>4

(* A prefix is not larger than the log. *)
LEMMA SizeFcnBound ==
  ASSUME NEW log \in Seq(Record), NEW m \in 0 .. Len(log)
  PROVE  SizeFcn(log)[m] \in Nat /\ SizeFcn(log)[m] <= SizeOf(log) /\ SizeOf(log) \in Nat
<1> DEFINE n == Len(log)
           T == {i \in 0 .. n : i >= m => SizeFcn(log)[m] <= SizeFcn(log)[i]}
<1>0. n \in Nat /\ \A i \in 0 .. n : SizeFcn(log)[i] \in Nat
  BY SizeFcnDef
<1>1. 0 \in T
  BY <1>0
<1>2. ASSUME NEW i \in 0 .. (n - 1), i \in T PROVE i + 1 \in T
  <2>1. i + 1 \in 1 .. n /\ i + 1 - 1 = i /\ i \in 0 .. n /\ i + 1 \in 0 .. n
    BY <1>0
  <2>2. SizeFcn(log)[i + 1] = SizeFcn(log)[i] + RecordSize(log[i + 1])
    BY <2>1, SizeFcnDef
  <2>3. RecordSize(log[i + 1]) \in Nat
    <3>1. log[i + 1] \in Record
      BY <2>1
    <3> QED BY <3>1, RecordSizeNat
  <2>4. SizeFcn(log)[i] \in Nat /\ SizeFcn(log)[i + 1] \in Nat /\ SizeFcn(log)[m] \in Nat
    BY <1>0, <2>1
  <2>5. CASE i >= m
    <3>1. SizeFcn(log)[m] <= SizeFcn(log)[i]
      BY <1>2, <2>5
    <3>2. SizeFcn(log)[m] <= SizeFcn(log)[i + 1]
      BY <2>2, <2>3, <2>4, <3>1
    <3> QED BY <2>1, <3>2
  <2>6. CASE i + 1 = m
    BY <2>1, <2>4, <2>6
  <2>7. CASE i + 1 < m
    BY <2>1, <2>7
  <2> QED BY <1>0, <2>5, <2>6, <2>7
<1>3. \A i \in 0 .. n : i \in T
  <2> HIDE DEF T, n
  <2> QED BY <1>0, <1>1, <1>2, IntervalInduction
<1>4. n \in T
  BY <1>0, <1>3
<1> QED BY <1>0, <1>4, SizeFcnDef

(* The first m records of a log. *)
LEMMA PrefixProperties ==
  ASSUME NEW S, NEW log \in Seq(S), NEW m \in 0 .. Len(log)
  PROVE  /\ SubSeq(log, 1, m) \in Seq(S)
         /\ Len(SubSeq(log, 1, m)) = m
         /\ \A i \in 1 .. m : SubSeq(log, 1, m)[i] = log[i]
<1>1. m \in Nat /\ \A i \in 1 .. m : log[i] \in S
  OBVIOUS
<1>2. (1 <= m => m - 1 + 1 = m) /\ (~ 1 <= m => m = 0) /\ m - 1 + 1 = m
  BY <1>1
<1>3. /\ SubSeq(log, 1, m) \in Seq(S)
      /\ Len(SubSeq(log, 1, m)) = IF 1 <= m THEN m - 1 + 1 ELSE 0
      /\ \A i \in 1..(m - 1 + 1) : SubSeq(log, 1, m)[i] = log[1 + i - 1]
  BY <1>1, SubSeqProperties
<1>4. \A i \in 1 .. m : SubSeq(log, 1, m)[i] = log[i]
  BY <1>1, <1>2, <1>3
<1> QED BY <1>1, <1>2, <1>3, <1>4

(* The size of a prefix. *)
LEMMA SizeOfPrefix ==
  ASSUME NEW log \in Seq(Record), NEW m \in 0 .. Len(log)
  PROVE  /\ SizeOf(SubSeq(log, 1, m)) = SizeFcn(log)[m]
         /\ SizeOf(SubSeq(log, 1, m)) \in Nat
         /\ SizeOf(SubSeq(log, 1, m)) <= SizeOf(log) /\ SizeOf(log) \in Nat
<1> DEFINE p == SubSeq(log, 1, m)
<1>1. p \in Seq(Record) /\ Len(p) = m /\ \A i \in 1 .. m : p[i] = log[i]
  BY PrefixProperties
<1> HIDE DEF p
<1>2. SizeOf(p) = SizeFcn(p)[m]
  BY <1>1, SizeFcnDef
<1>3. SizeFcn(p)[m] = SizeFcn(log)[m]
  BY <1>1, SizeFcnSame
<1> QED BY <1>2, <1>3, SizeFcnBound DEF p

(* Logs with records of the same sizes have the same size. *)
LEMMA SizeOfSame ==
  ASSUME NEW log \in Seq(Record), NEW log2 \in Seq(Record), Len(log) = Len(log2),
         \A i \in 1 .. Len(log) : RecordSize(log[i]) = RecordSize(log2[i])
  PROVE  SizeOf(log) = SizeOf(log2)
<1>1. Len(log) \in Nat /\ Len(log) <= Len(log) /\ Len(log) <= Len(log2)
  OBVIOUS
<1>2. SizeFcn(log)[Len(log)] = SizeFcn(log2)[Len(log)]
  BY <1>1, SizeFcnSame
<1> QED BY <1>2, SizeFcnDef

(* The size of a log with one record more. *)
LEMMA SizeOfAppend ==
  ASSUME NEW log \in Seq(Record), NEW r \in Record
  PROVE  /\ Append(log, r) \in Seq(Record)
         /\ SizeOf(Append(log, r)) = SizeOf(log) + RecordSize(r)
         /\ SizeOf(log) \in Nat
<1> DEFINE a == Append(log, r)
           n == Len(log)
<1>1. a \in Seq(Record) /\ Len(a) = n + 1 /\ a[n + 1] = r /\ \A i \in 1 .. n : a[i] = log[i]
  OBVIOUS
<1>2. n \in Nat /\ n + 1 \in 1 .. Len(a) /\ n + 1 - 1 = n /\ n <= Len(a)
  BY <1>1
<1> HIDE DEF a
<1>3. SizeOf(a) = SizeFcn(a)[n + 1] /\ SizeFcn(a)[n + 1] = SizeFcn(a)[n] + RecordSize(a[n + 1])
  BY <1>1, <1>2, SizeFcnDef
<1>4. SizeFcn(a)[n] = SizeFcn(log)[n]
  BY <1>1, <1>2, SizeFcnSame
<1>5. SizeOf(log) = SizeFcn(log)[n]
  BY SizeFcnDef
<1>6. SizeOf(log) \in Nat
  BY <1>2, SizeFcnBound
<1> QED BY <1>1, <1>3, <1>4, <1>5, <1>6 DEF a

(* The size of the empty log. *)
LEMMA SizeOfEmpty == SizeOf(<<>>) = 0 /\ <<>> \in Seq(Record)
<1> DEFINE e == <<>>
<1>1. e \in Seq(Record) /\ Len(e) = 0
  OBVIOUS
<1> HIDE DEF e
<1>2. SizeOf(e) = SizeFcn(e)[0] /\ SizeFcn(e)[0] = 0
  BY <1>1, SizeFcnDef
<1> QED BY <1>1, <1>2 DEF e

(* The size of two logs one after the other. *)
LEMMA SizeOfConcat ==
  ASSUME NEW log \in Seq(Record), NEW log2 \in Seq(Record)
  PROVE  SizeOf(log \o log2) = SizeOf(log) + SizeOf(log2)
<1> DEFINE c == log \o log2
           m == Len(log)
           n == Len(log2)
           T == {i \in 0 .. n : SizeFcn(c)[m + i] = SizeOf(log) + SizeFcn(log2)[i]}
<1>1. m \in Nat /\ n \in Nat
  OBVIOUS
<1>2. /\ c \in Seq(Record) /\ Len(c) = m + n
      /\ \A i \in 1 .. m : c[i] = log[i]
      /\ \A i \in 1 .. n : c[m + i] = log2[i]
  OBVIOUS
<1> HIDE DEF c
<1>3. 0 \in T
  <2>1. SizeFcn(c)[m] = SizeFcn(log)[m]
    <3>1. m <= Len(c) /\ m <= Len(log)
      BY <1>1, <1>2
    <3>2. \A i \in 1 .. m : RecordSize(c[i]) = RecordSize(log[i])
      BY <1>2
    <3> QED BY <1>1, <1>2, <3>1, <3>2, SizeFcnSame
  <2>2. SizeFcn(log2)[0] = 0 /\ SizeOf(log) = SizeFcn(log)[m] /\ SizeOf(log) \in Nat
    BY <1>1, SizeFcnDef, SizeFcnBound
  <2> QED BY <1>1, <2>1, <2>2
<1>4. ASSUME NEW i \in 0 .. (n - 1), i \in T PROVE i + 1 \in T
  <2>1. i + 1 \in 1 .. n /\ i + 1 - 1 = i /\ m + (i + 1) \in 1 .. Len(c) /\ m + (i + 1) - 1 = m + i
    BY <1>1, <1>2
  <2>2. SizeFcn(log2)[i + 1] = SizeFcn(log2)[i] + RecordSize(log2[i + 1])
    BY <2>1, SizeFcnDef
  <2>3. SizeFcn(c)[m + (i + 1)] = SizeFcn(c)[m + i] + RecordSize(c[m + (i + 1)])
    <3>1. \A j \in 1 .. Len(c) : SizeFcn(c)[j] = SizeFcn(c)[j - 1] + RecordSize(c[j])
      BY <1>2, SizeFcnDef
    <3> QED BY <2>1, <3>1
  <2>4. c[m + (i + 1)] = log2[i + 1]
    BY <1>2, <2>1
  <2>5. SizeFcn(log2)[i] \in Nat /\ SizeOf(log) \in Nat /\ RecordSize(log2[i + 1]) \in Nat
    <3>1. i \in 0 .. n /\ log2[i + 1] \in Record /\ m \in 0 .. Len(log)
      BY <1>1, <2>1
    <3> QED BY <3>1, SizeFcnBound, RecordSizeNat
  <2>6. SizeFcn(c)[m + i] = SizeOf(log) + SizeFcn(log2)[i]
    BY <1>4
  <2>7. SizeFcn(c)[m + (i + 1)] = SizeOf(log) + SizeFcn(log2)[i + 1]
    BY <2>2, <2>3, <2>4, <2>5, <2>6
  <2>8. i + 1 \in 0 .. n
    BY <2>1
  <2> QED BY <2>7, <2>8
<1>5. \A i \in 0 .. n : i \in T
  <2> HIDE DEF T, n
  <2> QED BY <1>1, <1>3, <1>4, IntervalInduction
<1>6. n \in T
  BY <1>1, <1>5
<1> QED BY <1>2, <1>6, SizeFcnDef DEF c

-----------------------------------------------------------------------------
(* What Reclaim keeps. *)

(* The reinstalled copy of a record. *)
Added(r) == [r EXCEPT !.state = "added"]

(* The recursion of Reinstall. *)
LEMMA CopyFcnDef ==
  ASSUME NEW log \in Seq(Record), NEW S
  PROVE  /\ CopyFcn(log, S)[0] = <<>>
         /\ \A i \in 0 .. Len(log) : CopyFcn(log, S)[i] \in Seq(Record)
         /\ \A i \in 1 .. Len(log) :
              /\ i \in S => CopyFcn(log, S)[i] = Append(CopyFcn(log, S)[i - 1], Added(log[i]))
              /\ i \notin S => CopyFcn(log, S)[i] = CopyFcn(log, S)[i - 1]
         /\ Reinstall(log, S) = CopyFcn(log, S)[Len(log)]
<1> DEFINE n == Len(log)
           X == Seq(Record)
           step(i, x) == IF i \in S THEN Append(x, Added(log[i])) ELSE x
           h == [p \in (1 .. n) \X X |-> step(p[1], p[2])]
<1>1. n \in Nat /\ \A i \in 1 .. n : Added(log[i]) \in Record
  <2>1. "added" \in State
    BY DEF State
  <2> QED BY <2>1, RecordState DEF Added
<1>2. ASSUME NEW i \in 1 .. n, NEW x \in X PROVE step(i, x) \in X
  BY <1>1
<1>3. h \in [(1 .. n) \X X -> X]
  <2> HIDE DEF n, X, step
  <2> QED BY <1>2
<1>4. \A i \in 1 .. n : \A x \in X : h[<<i, x>>] = step(i, x)
  <2> HIDE DEF step
  <2> QED OBVIOUS
<1>5. PICK f : f \in [0 .. n -> X] /\ f[0] = <<>> /\ \A i \in 1 .. n : f[i] = h[<<i, f[i - 1]>>]
  <2>1. n \in Nat /\ <<>> \in X
    BY <1>1
  <2>2. \E f : Iterates(f, n, X, <<>>, h)
    <3> HIDE DEF n, h, X
    <3> QED BY <1>3, <2>1, IntervalRecursion, Zenon
  <2> QED BY <2>2 DEF Iterates
<1> HIDE DEF h
<1> DEFINE G(g) == [i \in 0 .. n |-> IF i = 0 THEN <<>> ELSE step(i, g[i - 1])]
<1>6. f = G(f)
  <2>1. ASSUME NEW i \in 0 .. n PROVE f[i] = G(f)[i]
    <3>1. CASE i = 0
      BY <1>5, <3>1
    <3>2. CASE i # 0
      <4>1. i \in 1 .. n /\ i - 1 \in 0 .. n
        BY <1>1, <3>2
      <4>2. f[i - 1] \in X
        BY <1>5, <4>1
      <4>3. f[i] = step(i, f[i - 1])
        <5> HIDE DEF step
        <5> QED BY <1>4, <1>5, <4>1, <4>2
      <4> HIDE DEF step
      <4> QED BY <3>2, <4>3
    <3> QED BY <3>1, <3>2
  <2> HIDE DEF n, step
  <2> QED BY <1>5, <2>1
<1>7. CopyFcn(log, S) = G(CopyFcn(log, S))
  <2>1. CopyFcn(log, S) = CHOOSE g : g = G(g)
    BY DEF CopyFcn, Added
  <2> HIDE DEF G
  <2> QED BY <1>6, <2>1
<1> DEFINE s == CopyFcn(log, S)
<1>8. s = G(s)
  BY <1>7
<1> HIDE DEF s
<1>9. s[0] = <<>>
  BY <1>1, <1>8
<1>10. \A i \in 1 .. n : s[i] = step(i, s[i - 1])
  <2> TAKE i \in 1 .. n
  <2>1. i \in 0 .. n /\ i # 0
    BY <1>1
  <2>2. s[i] = G(s)[i]
    BY <1>8
  <2> HIDE DEF step
  <2> QED BY <2>1, <2>2
<1>11. \A i \in 0 .. n : s[i] \in X
  <2> DEFINE T == {i \in 0 .. n : s[i] \in X}
  <2>1. 0 \in T
    <3>1. s[0] \in X /\ 0 \in 0 .. n
      BY <1>1, <1>9
    <3> HIDE DEF X
    <3> QED BY <3>1
  <2>2. ASSUME NEW i \in 0 .. (n - 1), i \in T PROVE i + 1 \in T
    <3>1. i + 1 \in 1 .. n /\ i + 1 - 1 = i /\ i + 1 \in 0 .. n
      BY <1>1
    <3>2. s[i + 1] = step(i + 1, s[i])
      BY <1>10, <3>1
    <3>3. s[i + 1] \in X
      <4> HIDE DEF step, X
      <4> QED BY <1>2, <2>2, <3>1, <3>2
    <3> QED BY <3>1, <3>3
  <2>3. \A i \in 0 .. n : i \in T
    <3> HIDE DEF T, n, X
    <3> QED BY <1>1, <2>1, <2>2, IntervalInduction
  <2> QED BY <2>3 DEF T
<1>12. Reinstall(log, S) = CopyFcn(log, S)[Len(log)]
  BY DEF Reinstall, CopyFcn
<1> QED BY <1>9, <1>10, <1>11, <1>12 DEF s

(* c holds copies of records of log from S, each from a place of its own. *)
Copies(c, log, S) ==
  \E src \in [1 .. Len(c) -> S] :
    /\ \A a, b \in 1 .. Len(c) : src[a] = src[b] => a = b
    /\ \A a \in 1 .. Len(c) : c[a] = Added(log[src[a]])

(* A copy of one record more. *)
LEMMA CopiesAppend ==
  ASSUME NEW log \in Seq(Record), NEW S, NEW c \in Seq(Record), Copies(c, log, S),
         NEW i, i \notin S, Added(log[i]) \in Record
  PROVE  Copies(Append(c, Added(log[i])), log, S \union {i})
<1> DEFINE n == Len(c)
           d == Append(c, Added(log[i]))
<1>1. /\ n \in Nat /\ Len(d) = n + 1 /\ d[n + 1] = Added(log[i])
      /\ \A a \in 1 .. n : d[a] = c[a]
  OBVIOUS
<1>2. PICK src \in [1 .. n -> S] :
        /\ \A a, b \in 1 .. n : src[a] = src[b] => a = b
        /\ \A a \in 1 .. n : c[a] = Added(log[src[a]])
  BY DEF Copies
<1> DEFINE new == [a \in 1 .. n + 1 |-> IF a <= n THEN src[a] ELSE i]
<1> HIDE DEF d, n
<1>3. /\ \A a \in 1 .. n : new[a] = src[a] /\ new[a] \in S
      /\ new[n + 1] = i
      /\ new \in [1 .. n + 1 -> S \union {i}]
  BY <1>1, <1>2
<1> HIDE DEF new
<1>4. ASSUME NEW a \in 1 .. n + 1, NEW b \in 1 .. n + 1, new[a] = new[b] PROVE a = b
  <2>1. (a \in 1 .. n \/ a = n + 1) /\ (b \in 1 .. n \/ b = n + 1)
    BY <1>1
  <2> QED BY <1>2, <1>3, <1>4, <2>1
<1>5. ASSUME NEW a \in 1 .. n + 1 PROVE d[a] = Added(log[new[a]])
  <2>1. a \in 1 .. n \/ a = n + 1
    BY <1>1
  <2> QED BY <1>1, <1>2, <1>3, <2>1
<1>6. Copies(d, log, S \union {i})
  <2>1. new \in [1 .. Len(d) -> S \union {i}]
    BY <1>1, <1>3
  <2>2. \A a, b \in 1 .. Len(d) : new[a] = new[b] => a = b
    BY <1>1, <1>4
  <2>3. \A a \in 1 .. Len(d) : d[a] = Added(log[new[a]])
    BY <1>1, <1>5
  <2> QED BY <2>1, <2>2, <2>3 DEF Copies
<1> QED BY <1>6 DEF d

(* Copies from a set are copies from a larger one. *)
LEMMA CopiesMore ==
  ASSUME NEW c, NEW log, NEW S, NEW T, Copies(c, log, S), S \subseteq T
  PROVE  Copies(c, log, T)
<1>1. PICK src \in [1 .. Len(c) -> S] :
        /\ \A a, b \in 1 .. Len(c) : src[a] = src[b] => a = b
        /\ \A a \in 1 .. Len(c) : c[a] = Added(log[src[a]])
  BY DEF Copies
<1>2. src \in [1 .. Len(c) -> T]
  BY <1>1
<1> QED BY <1>1, <1>2 DEF Copies

(* Reinstall copies records of the set, each once. *)
LEMMA ReinstallCopies ==
  ASSUME NEW log \in Seq(Record), NEW S
  PROVE  Reinstall(log, S) \in Seq(Record) /\ Copies(Reinstall(log, S), log, S \intersect (1 .. Len(log)))
<1> DEFINE n == Len(log)
           f == CopyFcn(log, S)
           T == {i \in 0 .. n : Copies(f[i], log, S \intersect (1 .. i))}
<1>0. n \in Nat
  OBVIOUS
<1>1. /\ f[0] = <<>>
      /\ \A i \in 0 .. n : f[i] \in Seq(Record)
      /\ \A i \in 1 .. n : /\ i \in S => f[i] = Append(f[i - 1], Added(log[i]))
                           /\ i \notin S => f[i] = f[i - 1]
      /\ Reinstall(log, S) = f[n]
  BY CopyFcnDef
<1> HIDE DEF f
<1>2. 0 \in T
  <2> DEFINE e == f[0]
  <2>1. Len(e) = 0
    BY <1>1
  <2> HIDE DEF e
  <2> DEFINE src == [a \in 1 .. 0 |-> 0]
  <2>2. src \in [1 .. Len(e) -> S \intersect (1 .. 0)] /\ \A a \in 1 .. Len(e) : FALSE
    BY <2>1
  <2>3. Copies(e, log, S \intersect (1 .. 0))
    <3> HIDE DEF src
    <3> QED BY <2>2 DEF Copies
  <2> QED BY <1>0, <1>1, <2>3 DEF e
<1>3. ASSUME NEW i \in 0 .. (n - 1), i \in T PROVE i + 1 \in T
  <2> DEFINE j == i + 1
  <2>1. j \in 1 .. n /\ j - 1 = i /\ i \in 0 .. n /\ j \in 0 .. n
    BY <1>0
  <2>2. f[i] \in Seq(Record) /\ Copies(f[i], log, S \intersect (1 .. i))
    BY <1>1, <1>3, <2>1
  <2>3. 1 .. j = (1 .. i) \union {j} /\ j \notin 1 .. i
    BY <2>1
  <2>4. j \in S => f[j] = Append(f[i], Added(log[j]))
    BY <1>1, <2>1
  <2>5. j \notin S => f[j] = f[i]
    BY <1>1, <2>1
  <2> HIDE DEF j
  <2>6. CASE j \in S
    <3>1. Added(log[j]) \in Record
      <4>1. log[j] \in Record /\ "added" \in State
        BY <2>1 DEF State
      <4> QED BY <4>1, RecordState DEF Added
    <3>2. j \notin S \intersect (1 .. i)
      BY <2>3
    <3>3. Copies(Append(f[i], Added(log[j])), log, (S \intersect (1 .. i)) \union {j})
      BY <2>2, <3>1, <3>2, CopiesAppend
    <3>4. (S \intersect (1 .. i)) \union {j} = S \intersect (1 .. j)
      BY <2>3, <2>6
    <3> QED BY <2>1, <2>4, <2>6, <3>3, <3>4 DEF j
  <2>7. CASE j \notin S
    <3>1. S \intersect (1 .. i) \subseteq S \intersect (1 .. j)
      BY <2>3
    <3>2. Copies(f[i], log, S \intersect (1 .. j))
      BY <2>2, <3>1, CopiesMore
    <3> QED BY <2>1, <2>5, <2>7, <3>2 DEF j
  <2> QED BY <2>6, <2>7
<1>4. \A i \in 0 .. n : i \in T
  <2> HIDE DEF T, n
  <2> QED BY <1>0, <1>2, <1>3, IntervalInduction
<1>5. n \in T /\ n \in 0 .. n
  <2>1. n \in 0 .. n
    BY <1>0
  <2> HIDE DEF T
  <2> QED BY <1>4, <2>1
<1> QED BY <1>1, <1>5

(* The copies from two disjoint sets of records are together not larger than the
   log they come from. *)
LEMMA ReinstallSize ==
  ASSUME NEW log \in Seq(Record), NEW S, NEW R, S \intersect R = {},
         \A i \in 1 .. Len(log) : i \in S \union R => log[i].state # "blank"
  PROVE  SizeOf(Reinstall(log, S)) + SizeOf(Reinstall(log, R)) <= SizeOf(log)
<1> DEFINE n == Len(log)
           f == CopyFcn(log, S)
           g == CopyFcn(log, R)
           T == {i \in 0 .. n : SizeOf(f[i]) + SizeOf(g[i]) <= SizeFcn(log)[i]}
<1>0. n \in Nat
  OBVIOUS
<1>1. /\ f[0] = <<>>
      /\ \A i \in 0 .. n : f[i] \in Seq(Record)
      /\ \A i \in 1 .. n : /\ i \in S => f[i] = Append(f[i - 1], Added(log[i]))
                           /\ i \notin S => f[i] = f[i - 1]
      /\ Reinstall(log, S) = f[n]
  BY CopyFcnDef
<1>2. /\ g[0] = <<>>
      /\ \A i \in 0 .. n : g[i] \in Seq(Record)
      /\ \A i \in 1 .. n : /\ i \in R => g[i] = Append(g[i - 1], Added(log[i]))
                           /\ i \notin R => g[i] = g[i - 1]
      /\ Reinstall(log, R) = g[n]
  BY CopyFcnDef
<1> HIDE DEF f, g
<1>3. 0 \in T
  BY <1>0, <1>1, <1>2, SizeOfEmpty, SizeFcnDef
<1>4. ASSUME NEW i \in 0 .. (n - 1), i \in T PROVE i + 1 \in T
  <2> DEFINE j == i + 1
  <2>1. j \in 1 .. n /\ j - 1 = i /\ i \in 0 .. n /\ j \in 0 .. n
    BY <1>0
  <2>2. f[i] \in Seq(Record) /\ g[i] \in Seq(Record) /\ SizeOf(f[i]) + SizeOf(g[i]) <= SizeFcn(log)[i]
    BY <1>1, <1>2, <1>4, <2>1
  <2>3. SizeFcn(log)[j] = SizeFcn(log)[i] + RecordSize(log[j])
    BY <2>1, SizeFcnDef
  <2>4. /\ j \in S => f[j] = Append(f[i], Added(log[j]))
        /\ j \notin S => f[j] = f[i]
    BY <1>1, <2>1
  <2>5. /\ j \in R => g[j] = Append(g[i], Added(log[j]))
        /\ j \notin R => g[j] = g[i]
    BY <1>2, <2>1
  <2>6. log[j] \in Record /\ "added" \in State /\ "added" # "blank"
    BY <2>1 DEF State
  <2> HIDE DEF j
  <2>7. /\ Added(log[j]) \in Record
        /\ Added(log[j]).state = "added" /\ Added(log[j]).data = log[j].data
    BY <2>6, RecordState DEF Added
  <2>8. RecordSize(log[j]) \in Nat /\ RecordSize(Added(log[j])) \in Nat
    BY <2>6, <2>7, RecordSizeNat
  <2>9. j \in S \union R => RecordSize(Added(log[j])) = RecordSize(log[j])
    <3>1. j \in S \union R => log[j].state # "blank"
      BY <2>1
    <3> QED BY <2>6, <2>7, <3>1 DEF RecordSize
  <2>10. SizeOf(f[i]) \in Nat /\ SizeOf(g[i]) \in Nat /\ SizeFcn(log)[i] \in Nat
    BY <2>1, <2>2, <2>7, SizeOfAppend, SizeFcnBound
  <2>11. /\ SizeOf(Append(f[i], Added(log[j]))) = SizeOf(f[i]) + RecordSize(Added(log[j]))
         /\ SizeOf(Append(g[i], Added(log[j]))) = SizeOf(g[i]) + RecordSize(Added(log[j]))
    BY <2>2, <2>7, SizeOfAppend
  <2>12. SizeOf(f[j]) + SizeOf(g[j]) <= SizeFcn(log)[j]
    <3>1. CASE j \in S
      <4>1. j \notin R
        BY <3>1
      <4>2. SizeOf(f[j]) = SizeOf(f[i]) + RecordSize(log[j]) /\ SizeOf(g[j]) = SizeOf(g[i])
        BY <2>4, <2>5, <2>9, <2>11, <3>1, <4>1
      <4> QED BY <2>2, <2>3, <2>8, <2>10, <4>2
    <3>2. CASE j \in R /\ j \notin S
      <4>2. SizeOf(g[j]) = SizeOf(g[i]) + RecordSize(log[j]) /\ SizeOf(f[j]) = SizeOf(f[i])
        BY <2>4, <2>5, <2>9, <2>11, <3>2
      <4> QED BY <2>2, <2>3, <2>8, <2>10, <4>2
    <3>3. CASE j \notin R /\ j \notin S
      <4>2. SizeOf(g[j]) = SizeOf(g[i]) /\ SizeOf(f[j]) = SizeOf(f[i])
        BY <2>4, <2>5, <3>3
      <4> QED BY <2>2, <2>3, <2>8, <2>10, <4>2
    <3> QED BY <3>1, <3>2, <3>3
  <2> QED BY <2>1, <2>12 DEF j
<1>5. \A i \in 0 .. n : i \in T
  <2> HIDE DEF T, n
  <2> QED BY <1>0, <1>3, <1>4, IntervalInduction
<1>6. n \in T
  BY <1>0, <1>5
<1> QED BY <1>1, <1>2, <1>6, SizeFcnDef

(* A record that readers may find, and a log that has one for a name. *)
Live(r) == r.state \in {"added", "inDeleted"}
Has(log, k) == \E i \in 1 .. Len(log) : log[i].name = k /\ Live(log[i])

(* Every record of a buffer is the copy of a live record other than curr and,
   in transition, trans. *)
FromLog(buffer, log, curr, trans) ==
  \A a \in 1 .. Len(buffer) :
    /\ buffer[a].state = "added"
    /\ \E i \in 1 .. Len(log) :
         /\ Live(log[i]) /\ i # curr
         /\ log[i].state = "inDeleted" => i # trans
         /\ log[i].name = buffer[a].name

(* A name has at most one ADDED record in a log. *)
OneAdded(log) ==
  \A i, j \in 1 .. Len(log) :
    log[i].name = log[j].name /\ log[i].state = "added" /\ log[j].state = "added" => i = j

(* What Reclaim puts into its buffer: not more than there was, ADDED copies of
   live records only and, if no name had two ADDED records, one of each name. *)
LEMMA ReclaimBufferProperties ==
  ASSUME NEW log \in Seq(Record), NEW curr, NEW trans
  PROVE  /\ ReclaimBuffer(log, curr, trans) \in Seq(Record)
         /\ SizeOf(ReclaimBuffer(log, curr, trans)) \in Nat
         /\ SizeOf(ReclaimBuffer(log, curr, trans)) <= SizeOf(log)
         /\ FromLog(ReclaimBuffer(log, curr, trans), log, curr, trans)
         /\ OneAdded(log) => OneAdded(ReclaimBuffer(log, curr, trans))
<1> DEFINE added == {i \in DOMAIN log \ {curr} : log[i].state = "added"}
           inDeleted == {i \in DOMAIN log \ {curr, trans} : log[i].state = "inDeleted"}
           promoted == PromotedFirst(log, added, inDeleted)
           A == Reinstall(log, added)
           P == Reinstall(log, promoted)
           B == A \o P
<1>1. DOMAIN log = 1 .. Len(log) /\ Len(log) \in Nat
  OBVIOUS
<1>2. promoted \subseteq inDeleted
  BY DEF PromotedFirst
<1>3. /\ \A i \in added : i \in 1 .. Len(log) /\ i # curr /\ log[i].state = "added"
      /\ \A i \in promoted : /\ i \in 1 .. Len(log) /\ i # curr /\ i # trans
                             /\ log[i].state = "inDeleted"
  BY <1>1, <1>2
<1>4. ReclaimBuffer(log, curr, trans) = B
  BY DEF ReclaimBuffer
<1>5. /\ \A i \in promoted, j \in added : log[i].name # log[j].name
      /\ \A i, j \in promoted : log[i].name = log[j].name => i = j
  <2>1. ASSUME NEW i \in promoted, NEW j \in added PROVE log[i].name # log[j].name
    <3>1. j \notin inDeleted
      BY <1>3
    <3> QED BY <3>1 DEF PromotedFirst
  <2>2. ASSUME NEW i \in promoted, NEW j \in promoted, log[i].name = log[j].name PROVE i = j
    <3>1. i \in inDeleted /\ j \in inDeleted
      BY <1>2
    <3>2. i <= j /\ j <= i
      BY <2>2, <3>1 DEF PromotedFirst
    <3>3. i \in Nat /\ j \in Nat
      BY <1>3
    <3> QED BY <3>2, <3>3
  <2> QED BY <2>1, <2>2
<1>6. \A i \in added : \A j \in added : OneAdded(log) /\ log[i].name = log[j].name => i = j
  BY <1>3 DEF OneAdded
<1> HIDE DEF promoted, inDeleted, added
<1>7. A \in Seq(Record) /\ P \in Seq(Record)
  BY ReinstallCopies
<1>8. PICK srcA \in [1 .. Len(A) -> added \intersect (1 .. Len(log))] :
        /\ \A a, b \in 1 .. Len(A) : srcA[a] = srcA[b] => a = b
        /\ \A a \in 1 .. Len(A) : A[a] = Added(log[srcA[a]])
  <2>1. Copies(A, log, added \intersect (1 .. Len(log)))
    BY ReinstallCopies
  <2> HIDE DEF A
  <2> QED BY <2>1 DEF Copies
<1>9. PICK srcP \in [1 .. Len(P) -> promoted \intersect (1 .. Len(log))] :
        /\ \A a, b \in 1 .. Len(P) : srcP[a] = srcP[b] => a = b
        /\ \A a \in 1 .. Len(P) : P[a] = Added(log[srcP[a]])
  <2>1. Copies(P, log, promoted \intersect (1 .. Len(log)))
    BY ReinstallCopies
  <2> HIDE DEF P
  <2> QED BY <2>1 DEF Copies
<1>10. SizeOf(A) + SizeOf(P) <= SizeOf(log)
  <2>1. added \intersect promoted = {}
    BY <1>3
  <2>2. \A i \in 1 .. Len(log) : i \in added \union promoted => log[i].state # "blank"
    BY <1>3
  <2> QED BY <2>1, <2>2, ReinstallSize
<1>11. /\ \A a \in 1 .. Len(A) : srcA[a] \in added
       /\ \A a \in 1 .. Len(P) : srcP[a] \in promoted
  BY <1>8, <1>9
<1>12. ASSUME NEW i \in 1 .. Len(log)
       PROVE  Added(log[i]).state = "added" /\ Added(log[i]).name = log[i].name
  <2>1. log[i] \in Record /\ "added" \in State
    BY DEF State
  <2> QED BY <2>1, RecordState DEF Added
<1>13. /\ \A a \in 1 .. Len(A) : A[a].state = "added" /\ A[a].name = log[srcA[a]].name
       /\ \A a \in 1 .. Len(P) : P[a].state = "added" /\ P[a].name = log[srcP[a]].name
  BY <1>3, <1>8, <1>9, <1>11, <1>12, SMTT(30)
<1> HIDE DEF A, P
<1>14. /\ B \in Seq(Record) /\ Len(B) = Len(A) + Len(P) /\ Len(A) \in Nat /\ Len(P) \in Nat
       /\ \A a \in 1 .. Len(A) : B[a] = A[a]
       /\ \A a \in 1 .. Len(P) : B[Len(A) + a] = P[a]
  BY <1>7
<1>15. SizeOf(B) = SizeOf(A) + SizeOf(P)
  BY <1>7, SizeOfConcat
<1>16. SizeOf(B) \in Nat
  <2>1. 0 \in 0 .. Len(B)
    BY <1>14
  <2> QED BY <1>14, <2>1, SizeFcnBound
<1> HIDE DEF B
(* Where a record of the buffer comes from. *)
<1>17. ASSUME NEW a \in 1 .. Len(B)
       PROVE  a \in 1 .. Len(A) \/ \E b \in 1 .. Len(P) : a = Len(A) + b
  <2>1. a <= Len(A) => a \in 1 .. Len(A)
    BY <1>14
  <2>2. a > Len(A) => a - Len(A) \in 1 .. Len(P) /\ a = Len(A) + (a - Len(A))
    BY <1>14
  <2>3. a <= Len(A) \/ a > Len(A)
    BY <1>14
  <2> QED BY <2>1, <2>2, <2>3
<1>18. FromLog(B, log, curr, trans)
  <2>1. ASSUME NEW a \in 1 .. Len(A)
        PROVE  /\ A[a].state = "added"
               /\ \E i \in 1 .. Len(log) :
                    /\ Live(log[i]) /\ i # curr
                    /\ log[i].state = "inDeleted" => i # trans
                    /\ log[i].name = A[a].name
    BY <1>3, <1>11, <1>13, ZenonT(30) DEF Live
  <2>2. ASSUME NEW a \in 1 .. Len(P)
        PROVE  /\ P[a].state = "added"
               /\ \E i \in 1 .. Len(log) :
                    /\ Live(log[i]) /\ i # curr
                    /\ log[i].state = "inDeleted" => i # trans
                    /\ log[i].name = P[a].name
    BY <1>3, <1>11, <1>13 DEF Live
  <2> SUFFICES ASSUME NEW a \in 1 .. Len(B)
               PROVE  /\ B[a].state = "added"
                      /\ \E i \in 1 .. Len(log) :
                           /\ Live(log[i]) /\ i # curr
                           /\ log[i].state = "inDeleted" => i # trans
                           /\ log[i].name = B[a].name
    BY DEF FromLog
  <2>3. CASE a \in 1 .. Len(A)
    BY <1>14, <2>1, <2>3
  <2>4. CASE \E b \in 1 .. Len(P) : a = Len(A) + b
    <3>1. PICK b \in 1 .. Len(P) : a = Len(A) + b
      BY <2>4
    <3>2. B[a] = P[b]
      BY <1>14, <3>1
    <3> QED BY <2>2, <3>2
  <2> QED BY <1>17, <2>3, <2>4
<1>19. ASSUME OneAdded(log) PROVE OneAdded(B)
  <2>1. \A a, b \in 1 .. Len(A) : A[a].name = A[b].name => a = b
    BY <1>6, <1>8, <1>11, <1>13, <1>19
  <2>2. \A a, b \in 1 .. Len(P) : P[a].name = P[b].name => a = b
    BY <1>5, <1>9, <1>11, <1>13
  <2>3. \A a \in 1 .. Len(A), b \in 1 .. Len(P) : A[a].name # P[b].name
    BY <1>5, <1>11, <1>13
  <2> SUFFICES ASSUME NEW a \in 1 .. Len(B), NEW b \in 1 .. Len(B), B[a].name = B[b].name
               PROVE  a = b
    BY DEF OneAdded
  <2>4. (\E p \in 1 .. Len(A) : a = p) \/ (\E p \in 1 .. Len(P) : a = Len(A) + p)
    BY <1>17
  <2>5. (\E p \in 1 .. Len(A) : b = p) \/ (\E p \in 1 .. Len(P) : b = Len(A) + p)
    BY <1>17
  <2>6. CASE a \in 1 .. Len(A) /\ b \in 1 .. Len(A)
    BY <1>14, <2>1, <2>6
  <2>7. CASE a \in 1 .. Len(A) /\ \E p \in 1 .. Len(P) : b = Len(A) + p
    <3>1. PICK p \in 1 .. Len(P) : b = Len(A) + p
      BY <2>7
    <3>2. B[b] = P[p] /\ B[a] = A[a]
      BY <1>14, <3>1, <2>7
    <3> QED BY <2>3, <3>2, <2>7
  <2>8. CASE b \in 1 .. Len(A) /\ \E p \in 1 .. Len(P) : a = Len(A) + p
    <3>1. PICK p \in 1 .. Len(P) : a = Len(A) + p
      BY <2>8
    <3>2. B[a] = P[p] /\ B[b] = A[b]
      BY <1>14, <3>1, <2>8
    <3> QED BY <2>3, <3>2, <2>8
  <2>9. CASE (\E p \in 1 .. Len(P) : a = Len(A) + p) /\ \E p \in 1 .. Len(P) : b = Len(A) + p
    <3>1. PICK p \in 1 .. Len(P) : a = Len(A) + p
      BY <2>9
    <3>2. PICK q \in 1 .. Len(P) : b = Len(A) + q
      BY <2>9
    <3>3. P[p].name = P[q].name
      BY <1>14, <3>1, <3>2
    <3> QED BY <2>2, <3>1, <3>2, <3>3
  <2> QED BY <2>4, <2>5, <2>6, <2>7, <2>8, <2>9
<1> QED BY <1>4, <1>10, <1>14, <1>15, <1>16, <1>18, <1>19

-----------------------------------------------------------------------------
(* What FindVariableEx finds. *)

(* The first of a set of positions, 0 if there is none. *)
LEMMA FirstOfProperties ==
  ASSUME NEW n \in Nat, NEW S, S \subseteq 1 .. n
  PROVE  /\ S = {} => FirstOf(S) = 0
         /\ S # {} => FirstOf(S) \in S /\ \A j \in S : FirstOf(S) <= j
         /\ FirstOf(S) \in 0 .. n
         /\ FirstOf(S) # 0 => FirstOf(S) \in S
<1>1. CASE S = {}
  BY <1>1 DEF FirstOf
<1>2. CASE S # {}
  <2>1. S \subseteq Nat
    OBVIOUS
  <2>2. \E x \in S : \A y \in S : x <= y
    BY <1>2, <2>1, LeastMember
  <2>3. FirstOf(S) \in S /\ \A j \in S : FirstOf(S) <= j
    BY <1>2, <2>2 DEF FirstOf
  <2>4. FirstOf(S) \in 1 .. n
    BY <2>3
  <2>5. FirstOf(S) \in 0 .. n
    BY <2>4
  <2> HIDE DEF FirstOf
  <2> QED BY <1>2, <2>3, <2>5, Zenon
<1> QED BY <1>1, <1>2

(* The last of a set of positions, 0 if there is none. *)
LEMMA LastOfProperties ==
  ASSUME NEW n \in Nat, NEW S, S \subseteq 1 .. n
  PROVE  /\ S = {} => LastOf(S) = 0
         /\ S # {} => LastOf(S) \in S /\ \A j \in S : j <= LastOf(S)
         /\ LastOf(S) \in 0 .. n
         /\ LastOf(S) # 0 => LastOf(S) \in S
<1>1. CASE S = {}
  BY <1>1 DEF LastOf
<1>2. CASE S # {}
  <2>1. S \subseteq 0 .. n
    OBVIOUS
  <2>2. \E x \in S : \A y \in S : y <= x
    BY <1>2, <2>1, GreatestMember
  <2>3. LastOf(S) \in S /\ \A j \in S : j <= LastOf(S)
    BY <1>2, <2>2 DEF LastOf
  <2>4. LastOf(S) \in 1 .. n
    BY <2>3
  <2>5. LastOf(S) \in 0 .. n
    BY <2>4
  <2> HIDE DEF LastOf
  <2> QED BY <1>2, <2>3, <2>5, Zenon
<1> QED BY <1>1, <1>2

(* Position i, if not 0, is a live record of variable k. *)
Found(log, k, i) == i \in 0 .. Len(log) /\ (i # 0 => log[i].name = k /\ Live(log[i]))

(* FindVariableEx with IgnoreRtCheck: curr is 0 only if the name has no live
   record; it is an ADDED record if the name has one; trans comes before it. *)
LEMMA FindProperties ==
  ASSUME NEW log \in Seq(Record), NEW k
  PROVE  /\ Found(log, k, FindVariableEx(log, k, TRUE).curr)
         /\ Found(log, k, FindVariableEx(log, k, TRUE).trans)
         /\ FindVariableEx(log, k, TRUE).curr = 0 <=> ~Has(log, k)
         /\ FindVariableEx(log, k, TRUE).trans # 0 =>
              /\ FindVariableEx(log, k, TRUE).curr # 0
              /\ FindVariableEx(log, k, TRUE).trans # FindVariableEx(log, k, TRUE).curr
         /\ \A i \in 1 .. Len(log) :
              log[i].name = k /\ log[i].state = "added" =>
                /\ FindVariableEx(log, k, TRUE).curr # 0
                /\ log[FindVariableEx(log, k, TRUE).curr].state = "added"
<1> DEFINE n == Len(log)
           copies == {i \in DOMAIN log : log[i].name = k /\ Visible(log[i], TRUE)}
           as == {i \in copies : log[i].state = "added"}
           added == FirstOf(as)
           before == {i \in copies : i < added}
           F == FindVariableEx(log, k, TRUE)
<1>1. n \in Nat /\ DOMAIN log = 1 .. n
  OBVIOUS
<1>2. \A i : i \in copies <=> i \in 1 .. n /\ log[i].name = k /\ Live(log[i])
  BY <1>1 DEF Visible, Live
<1>3. copies \subseteq 1 .. n
  BY <1>2
<1>4. Has(log, k) <=> copies # {}
  BY <1>2 DEF Has
<1>5. F = IF added # 0 THEN [curr |-> added, trans |-> LastOf(before)]
                       ELSE [curr |-> LastOf(copies), trans |-> 0]
  BY DEF FindVariableEx
<1> HIDE DEF copies, F
<1>6. as \subseteq 1 .. n /\ before \subseteq 1 .. n /\ as \subseteq copies /\ before \subseteq copies
  BY <1>3
<1>7. /\ as = {} => added = 0
      /\ as # {} => added \in as
      /\ added \in 0 .. n
      /\ added # 0 => added \in as
  <2> HIDE DEF as
  <2> QED BY <1>1, <1>6, FirstOfProperties
<1>8. \A i \in 1 .. n : log[i].name = k /\ log[i].state = "added" => i \in as
  BY <1>2 DEF Live
<1>9. \A i \in as : i \in copies /\ log[i].state = "added" /\ i # 0 /\ i \in 1 .. n
  BY <1>6
<1> DEFINE lb == LastOf(before)
           lc == LastOf(copies)
<1>10. lb \in 0 .. n /\ (lb # 0 => lb \in before)
  <2> HIDE DEF before
  <2> QED BY <1>1, <1>6, LastOfProperties
<1>11. /\ lc \in 0 .. n /\ (lc # 0 => lc \in copies)
       /\ copies = {} => lc = 0
       /\ copies # {} => lc \in copies
  BY <1>1, <1>3, LastOfProperties
<1>12. lb # 0 => lb \in copies /\ lb # added
  BY <1>1, <1>7, <1>10, <1>6
<1> HIDE DEF lb, lc, added, as, before
<1>13. CASE added # 0
  <2>1. F.curr = added /\ F.trans = lb
    BY <1>5, <1>13 DEF lb
  <2>2. added \in copies /\ log[added].state = "added"
    BY <1>7, <1>9, <1>13
  <2>3. Found(log, k, added)
    BY <1>2, <1>7, <2>2 DEF Found
  <2>4. Found(log, k, lb)
    BY <1>2, <1>10, <1>12 DEF Found
  <2>5. copies # {}
    BY <2>2
  <2> QED BY <1>4, <1>12, <1>13, <2>1, <2>2, <2>3, <2>4, <2>5 DEF F
<1>14. CASE added = 0
  <2>1. F.curr = lc /\ F.trans = 0
    BY <1>5, <1>14 DEF lc
  <2>2. \A i \in 1 .. n : ~(log[i].name = k /\ log[i].state = "added")
    BY <1>7, <1>8, <1>9, <1>14
  <2>3. Found(log, k, lc)
    BY <1>2, <1>11 DEF Found
  <2>4. Found(log, k, 0)
    BY <1>1 DEF Found
  <2>5. lc = 0 <=> copies = {}
    BY <1>3, <1>11
  <2> QED BY <1>4, <2>1, <2>2, <2>3, <2>4, <2>5 DEF F
<1> QED BY <1>13, <1>14

(* A variable with a value has a live record. *)
LEMMA ValueHas ==
  ASSUME NEW log \in Seq(Record), NEW k, ValueIn(log, k, TRUE) # <<>>
  PROVE  Has(log, k)
BY FindProperties DEF ValueIn

(* Logs whose live records are the same have the same values. *)
LEMMA ValueInSame ==
  ASSUME NEW log \in Seq(Record), NEW log2 \in Seq(Record), NEW n \in Nat,
         n <= Len(log), n <= Len(log2),
         \A i \in 1 .. n : log[i] = log2[i],
         \A i \in 1 .. Len(log) : i > n => ~Live(log[i]),
         \A i \in 1 .. Len(log2) : i > n => ~Live(log2[i]),
         NEW k
  PROVE  ValueIn(log, k, TRUE) = ValueIn(log2, k, TRUE)
<1> DEFINE Cs(l) == {i \in DOMAIN l : l[i].name = k /\ Visible(l[i], TRUE)}
<1>1. /\ DOMAIN log = 1 .. Len(log) /\ DOMAIN log2 = 1 .. Len(log2)
      /\ Len(log) \in Nat /\ Len(log2) \in Nat
  OBVIOUS
<1>2. Cs(log) = {i \in 1 .. n : log[i].name = k /\ Live(log[i])}
  BY <1>1 DEF Visible, Live
<1>3. Cs(log2) = {i \in 1 .. n : log[i].name = k /\ Live(log[i])}
  BY <1>1 DEF Visible, Live
<1>4. Cs(log) = Cs(log2) /\ \A i \in Cs(log) : i \in 1 .. n /\ log[i] = log2[i]
  BY <1>2, <1>3
<1>5. {i \in Cs(log) : log[i].state = "added"} = {i \in Cs(log2) : log2[i].state = "added"}
  <2> HIDE DEF Cs
  <2> QED BY <1>4
<1>6. FindVariableEx(log, k, TRUE) = FindVariableEx(log2, k, TRUE)
  BY <1>4, <1>5, Zenon DEF FindVariableEx
<1>7. Found(log, k, FindVariableEx(log, k, TRUE).curr)
  BY FindProperties
<1>8. FindVariableEx(log, k, TRUE).curr # 0 =>
        log[FindVariableEx(log, k, TRUE).curr] = log2[FindVariableEx(log, k, TRUE).curr]
  <2> DEFINE c == FindVariableEx(log, k, TRUE).curr
  <2> SUFFICES ASSUME c # 0 PROVE log[c] = log2[c]
    OBVIOUS
  <2>0. Found(log, k, c)
    BY <1>7
  <2> HIDE DEF c
  <2>1. c \in 1 .. Len(log) /\ Live(log[c])
    BY <1>1, <2>0 DEF Found
  <2>2. c \in 1 .. n
    BY <1>1, <2>1
  <2> QED BY <2>2
<1> QED BY <1>6, <1>8 DEF ValueIn

(* L is log with the state of record i set to s. *)
Marked(L, log, i, s) ==
  /\ L \in Seq(Record) /\ Len(L) = Len(log)
  /\ \A j \in 1 .. Len(log) :
       /\ j # i => L[j] = log[j]
       /\ j = i => L[j] = [log[j] EXCEPT !.state = s]
       /\ L[j].name = log[j].name
       /\ j = i => L[j].state = s
       /\ log[j].state # "blank" => L[j].state # "blank"

(* Setting the state of a record keeps everything else, names and other records. *)
LEMMA SetStateProperties ==
  ASSUME NEW log \in Seq(Record), NEW i \in 0 .. Len(log), NEW s \in State \ {"blank"}
  PROVE  Marked(SetState(log, i, s), log, i, s)
<1> DEFINE L == SetState(log, i, s)
<1>1. Len(log) \in Nat /\ \A j \in 1 .. Len(log) : log[j] \in Record
  OBVIOUS
<1>2. CASE i = 0
  <2>1. L = log
    BY <1>2 DEF SetState
  <2> QED BY <1>1, <1>2, <2>1 DEF Marked
<1>3. CASE i # 0
  <2>1. L = [log EXCEPT ![i].state = s] /\ i \in 1 .. Len(log)
    BY <1>3 DEF SetState
  <2>2. [log[i] EXCEPT !.state = s] \in Record
    BY <1>1, <2>1, RecordState
  <2>3. L \in Seq(Record) /\ Len(L) = Len(log)
    BY <2>1, <2>2
  <2>4. \A j \in 1 .. Len(log) : /\ j # i => L[j] = log[j]
                                 /\ j = i => L[j] = [log[j] EXCEPT !.state = s]
    BY <2>1
  <2>5. /\ [log[i] EXCEPT !.state = s].name = log[i].name
        /\ [log[i] EXCEPT !.state = s].state = s
    BY <1>1, <2>1, RecordState
  <2> HIDE DEF L
  <2>6. ASSUME NEW j \in 1 .. Len(log)
        PROVE  /\ L[j].name = log[j].name
               /\ j = i => L[j].state = s
               /\ log[j].state # "blank" => L[j].state # "blank"
    <3>1. CASE j = i
      BY <2>4, <2>5, <3>1
    <3>2. CASE j # i
      BY <2>4, <3>2
    <3> QED BY <3>1, <3>2
  <2> QED BY <2>3, <2>4, <2>6 DEF L, Marked
<1> QED BY <1>2, <1>3

(* It keeps the sizes of all prefixes. *)
LEMMA SetStateSize ==
  ASSUME NEW log \in Seq(Record), NEW i \in 0 .. Len(log), NEW s \in State \ {"blank"},
         i # 0 => log[i].state # "blank", NEW m \in 0 .. Len(log)
  PROVE  /\ SizeOf(SetState(log, i, s)) = SizeOf(log)
         /\ SizeOf(SubSeq(SetState(log, i, s), 1, m)) = SizeOf(SubSeq(log, 1, m))
<1> DEFINE L == SetState(log, i, s)
<1>0. Marked(L, log, i, s)
  BY SetStateProperties
<1> HIDE DEF L
<1>1. /\ L \in Seq(Record) /\ Len(L) = Len(log)
      /\ \A j \in 1 .. Len(log) : /\ j # i => L[j] = log[j]
                                  /\ j = i => L[j] = [log[j] EXCEPT !.state = s]
  BY <1>0 DEF Marked
<1>2. ASSUME NEW j \in 1 .. Len(log) PROVE RecordSize(L[j]) = RecordSize(log[j])
  <2>1. CASE j # i
    BY <1>1, <2>1
  <2>2. CASE j = i
    <3>1. log[j] \in Record /\ s \in State /\ s # "blank" /\ log[j].state # "blank"
      BY <2>2
    <3>2. /\ [log[j] EXCEPT !.state = s].state = s
          /\ [log[j] EXCEPT !.state = s].data = log[j].data
      BY <3>1, RecordState
    <3> QED BY <1>1, <2>2, <3>1, <3>2 DEF RecordSize
  <2> QED BY <2>1, <2>2
<1>3. SizeOf(L) = SizeOf(log)
  BY <1>1, <1>2, SizeOfSame
<1>4. m \in Nat /\ m <= Len(L) /\ m <= Len(log) /\ m \in 0 .. Len(L)
  BY <1>1
<1>5. \A j \in 1 .. m : RecordSize(L[j]) = RecordSize(log[j])
  BY <1>2, <1>4
<1>6. SizeFcn(L)[m] = SizeFcn(log)[m]
  BY <1>1, <1>4, <1>5, SizeFcnSame
<1>7. SizeOf(SubSeq(L, 1, m)) = SizeFcn(L)[m] /\ SizeOf(SubSeq(log, 1, m)) = SizeFcn(log)[m]
  BY <1>1, <1>4, SizeOfPrefix
<1> QED BY <1>3, <1>6, <1>7 DEF L

-----------------------------------------------------------------------------
(* The store on flash and its copy in memory. *)

(* The log has l records and at most one more that was begun and not finished. *)
Settled(log, l) ==
  \/ Len(log) = l
  \/ Len(log) = l + 1 /\ log[l + 1].state \in {"blank", "headerValid"}

(* A log f on flash, its cache c, the number l of records, their total size t and
   the number h of programmed units fit together in a store of sp units. *)
Consistent(f, c, l, t, h, sp) ==
  /\ f \in Seq(Record) /\ c \in Seq(Record) /\ l \in Nat
  /\ Settled(f, l) /\ Settled(c, l)
  /\ \A i \in 1 .. l : c[i] = f[i]
  /\ t = SizeOf(SubSeq(f, 1, l))
  /\ SizeOf(f) <= sp
  /\ h \in Nat /\ h <= sp

(* What follows of lengths and sizes. *)
LEMMA ConsistentBasics ==
  ASSUME NEW f, NEW c, NEW l, NEW t, NEW h, NEW sp \in Nat, Consistent(f, c, l, t, h, sp)
  PROVE  /\ l \in 0 .. Len(f) /\ l \in 0 .. Len(c)
         /\ t \in Nat /\ t <= SizeOf(f) /\ t <= sp /\ SizeOf(f) \in Nat
         /\ SubSeq(f, 1, l) \in Seq(Record) /\ SubSeq(c, 1, l) \in Seq(Record)
         /\ Len(SubSeq(f, 1, l)) = l /\ Len(SubSeq(c, 1, l)) = l
         /\ \A i \in 1 .. l : SubSeq(f, 1, l)[i] = f[i] /\ SubSeq(c, 1, l)[i] = f[i]
         /\ SubSeq(c, 1, l) = SubSeq(f, 1, l)
<1>1. f \in Seq(Record) /\ c \in Seq(Record) /\ l \in Nat
  BY DEF Consistent
<1>2. l \in 0 .. Len(f) /\ l \in 0 .. Len(c)
  BY <1>1 DEF Consistent, Settled
<1>3. t \in Nat /\ t <= SizeOf(f) /\ SizeOf(f) \in Nat
  BY <1>1, <1>2, SizeOfPrefix DEF Consistent
<1>4. t <= sp
  BY <1>3 DEF Consistent
<1> DEFINE p == SubSeq(f, 1, l)
           q == SubSeq(c, 1, l)
<1>5. p \in Seq(Record) /\ Len(p) = l /\ \A i \in 1 .. l : p[i] = f[i]
  BY <1>1, <1>2, PrefixProperties
<1>6. q \in Seq(Record) /\ Len(q) = l /\ \A i \in 1 .. l : q[i] = c[i]
  BY <1>1, <1>2, PrefixProperties
<1>7. \A i \in 1 .. l : q[i] = f[i]
  BY <1>6 DEF Consistent
<1> HIDE DEF p, q
<1>8. p = q
  <2>1. \A i \in 1 .. Len(p) : p[i] = q[i]
    BY <1>5, <1>6, <1>7
  <2> QED BY <1>5, <1>6, <2>1, SeqEqual
<1> QED BY <1>2, <1>3, <1>4, <1>5, <1>6, <1>7, <1>8 DEF p, q

(* A whole log is its own prefix. *)
LEMMA WholePrefix ==
  ASSUME NEW log \in Seq(Record)
  PROVE  SubSeq(log, 1, Len(log)) = log
<1> DEFINE p == SubSeq(log, 1, Len(log))
<1>1. Len(log) \in 0 .. Len(log)
  OBVIOUS
<1>2. p \in Seq(Record) /\ Len(p) = Len(log) /\ \A i \in 1 .. Len(log) : p[i] = log[i]
  BY <1>1, PrefixProperties
<1> HIDE DEF p
<1>3. p = log
  BY <1>2, SeqEqual
<1> QED BY <1>3 DEF p

(* Reclaim succeeded with buffer b. *)
LEMMA ConsistentReplaced ==
  ASSUME NEW b \in Seq(Record), NEW sp \in Nat, SizeOf(b) <= sp
  PROVE  Consistent(b, b, Len(b), SizeOf(b), SizeOf(b), sp)
<1>1. Len(b) \in Nat /\ 0 \in 0 .. Len(b)
  OBVIOUS
<1>2. SizeOf(b) \in Nat
  BY <1>1, SizeFcnBound
<1> QED BY <1>1, <1>2, WholePrefix DEF Consistent, Settled

(* The cache and the sizes are read from flash again, units up to h2 being programmed. *)
LEMMA ConsistentReread ==
  ASSUME NEW f, NEW c, NEW l, NEW t, NEW h, NEW sp \in Nat, Consistent(f, c, l, t, h, sp),
         NEW h2 \in Nat, h2 <= sp
  PROVE  Consistent(f, f, Len(f), SizeOf(f), h2, sp)
<1>1. f \in Seq(Record) /\ SizeOf(f) <= sp
  BY DEF Consistent
<1>2. Len(f) \in Nat
  BY <1>1
<1> QED BY <1>1, <1>2, WholePrefix DEF Consistent, Settled

(* The cache alone is restored from flash. *)
LEMMA ConsistentCache ==
  ASSUME NEW f, NEW c, NEW l, NEW t, NEW h, NEW sp \in Nat, Consistent(f, c, l, t, h, sp)
  PROVE  Consistent(f, f, l, t, h, sp)
BY DEF Consistent

(* More of flash is programmed. *)
LEMMA ConsistentHigh ==
  ASSUME NEW f, NEW c, NEW l, NEW t, NEW h, NEW sp \in Nat, Consistent(f, c, l, t, h, sp),
         NEW h2 \in Nat, h2 <= sp
  PROVE  Consistent(f, c, l, t, h2, sp)
BY DEF Consistent

(* The state of a record is written to flash and to the cache. *)
LEMMA ConsistentMark ==
  ASSUME NEW f, NEW c, NEW l, NEW t, NEW h, NEW sp \in Nat, Consistent(f, c, l, t, h, sp),
         NEW i \in 0 .. l, i # 0 => f[i].state # "blank", NEW s \in State \ {"blank"}
  PROVE  Consistent(SetState(f, i, s), SetState(c, i, s), l, t, h, sp)
<1> DEFINE F == SetState(f, i, s)
           C == SetState(c, i, s)
<1>0. f \in Seq(Record) /\ c \in Seq(Record) /\ l \in Nat /\ \A j \in 1 .. l : c[j] = f[j]
  BY DEF Consistent
<1>1. l \in 0 .. Len(f) /\ l \in 0 .. Len(c)
  BY ConsistentBasics
<1>2. i \in 0 .. Len(f) /\ i \in 0 .. Len(c)
  BY <1>0, <1>1
<1>3. Marked(F, f, i, s)
  BY <1>0, <1>2, SetStateProperties
<1>4. Marked(C, c, i, s)
  BY <1>0, <1>2, SetStateProperties
<1>5. SizeOf(F) = SizeOf(f) /\ SizeOf(SubSeq(F, 1, l)) = SizeOf(SubSeq(f, 1, l))
  BY <1>0, <1>1, <1>2, SetStateSize
<1> HIDE DEF F, C
<1>6. \A j \in 1 .. l : C[j] = F[j]
  <2> TAKE j \in 1 .. l
  <2>1. j \in 1 .. Len(f) /\ j \in 1 .. Len(c) /\ c[j] = f[j]
    BY <1>0, <1>1
  <2>2. (j # i => C[j] = c[j]) /\ (j = i => C[j] = [c[j] EXCEPT !.state = s])
    BY <1>4, <2>1 DEF Marked
  <2>3. (j # i => F[j] = f[j]) /\ (j = i => F[j] = [f[j] EXCEPT !.state = s])
    BY <1>3, <2>1 DEF Marked
  <2> QED BY <2>1, <2>2, <2>3
<1>7. Settled(F, l)
  <2>1. Settled(f, l)
    BY DEF Consistent
  <2>2. CASE Len(f) = l
    BY <1>3, <2>2 DEF Settled, Marked
  <2>3. CASE Len(f) = l + 1 /\ f[l + 1].state \in {"blank", "headerValid"}
    <3>1. l + 1 \in 1 .. Len(f) /\ l + 1 # i
      BY <1>0, <2>3
    <3> QED BY <1>3, <2>3, <3>1 DEF Settled, Marked
  <2> QED BY <2>1, <2>2, <2>3 DEF Settled
<1>8. Settled(C, l)
  <2>1. Settled(c, l)
    BY DEF Consistent
  <2>2. CASE Len(c) = l
    BY <1>4, <2>2 DEF Settled, Marked
  <2>3. CASE Len(c) = l + 1 /\ c[l + 1].state \in {"blank", "headerValid"}
    <3>1. l + 1 \in 1 .. Len(c) /\ l + 1 # i
      BY <1>0, <2>3
    <3> QED BY <1>4, <2>3, <3>1 DEF Settled, Marked
  <2> QED BY <2>1, <2>2, <2>3 DEF Settled
<1>9. F \in Seq(Record) /\ C \in Seq(Record)
  BY <1>3, <1>4 DEF Marked
<1> QED BY <1>5, <1>6, <1>7, <1>8, <1>9 DEF Consistent, F, C

(* A record is begun behind the last one. *)
LEMMA ConsistentBegin ==
  ASSUME NEW f, NEW c, NEW l, NEW t, NEW h, NEW sp \in Nat, Consistent(f, c, l, t, h, sp),
         NEW r \in Record, r.state \in {"blank", "headerValid"}, t + RecordSize(r) <= sp
  PROVE  Consistent(Append(SubSeq(f, 1, l), r), c, l, t, h, sp)
<1> DEFINE p == SubSeq(f, 1, l)
           F == Append(p, r)
<1>1. p \in Seq(Record) /\ Len(p) = l /\ \A i \in 1 .. l : p[i] = f[i]
  BY ConsistentBasics
<1>2. t = SizeOf(p) /\ l \in Nat
  BY DEF Consistent
<1> HIDE DEF p
<1>3. F \in Seq(Record) /\ Len(F) = l + 1 /\ F[l + 1] = r /\ \A i \in 1 .. l : F[i] = p[i]
  BY <1>1
<1>4. SizeOf(F) = t + RecordSize(r)
  BY <1>1, <1>2, SizeOfAppend
<1> HIDE DEF F
<1>5. SizeOf(SubSeq(F, 1, l)) = SizeOf(p)
  <2> DEFINE q == SubSeq(F, 1, l)
  <2>1. l \in 0 .. Len(F)
    BY <1>2, <1>3
  <2>2. q \in Seq(Record) /\ Len(q) = l /\ \A i \in 1 .. l : q[i] = F[i]
    BY <1>3, <2>1, PrefixProperties
  <2> HIDE DEF q
  <2>3. q = p
    BY <1>1, <1>3, <2>2, SeqEqual
  <2> QED BY <2>3 DEF q
<1>6. \A i \in 1 .. l : c[i] = F[i]
  BY <1>1, <1>3 DEF Consistent
<1>7. Settled(F, l)
  BY <1>3 DEF Settled
<1>8. Consistent(F, c, l, t, h, sp)
  BY <1>2, <1>3, <1>4, <1>5, <1>6, <1>7 DEF Consistent
<1> QED BY <1>8 DEF F, p

(* A record is added behind the last one, on flash and in the cache. *)
LEMMA ConsistentAdd ==
  ASSUME NEW f, NEW c, NEW l, NEW t, NEW h, NEW sp \in Nat, Consistent(f, c, l, t, h, sp),
         NEW r \in Record, t + RecordSize(r) <= sp
  PROVE  Consistent(Append(SubSeq(f, 1, l), r), Append(SubSeq(c, 1, l), r), l + 1,
                    t + RecordSize(r), h, sp)
<1> DEFINE p == SubSeq(f, 1, l)
           F == Append(p, r)
<1>1. p \in Seq(Record) /\ Len(p) = l /\ SubSeq(c, 1, l) = p
  BY ConsistentBasics
<1>2. t = SizeOf(p) /\ l \in Nat /\ h \in Nat /\ h <= sp
  BY DEF Consistent
<1> HIDE DEF p
<1>3. F \in Seq(Record) /\ Len(F) = l + 1
  BY <1>1
<1>4. SizeOf(F) = t + RecordSize(r)
  BY <1>1, <1>2, SizeOfAppend
<1> HIDE DEF F
<1>5. SubSeq(F, 1, l + 1) = F
  BY <1>3, WholePrefix
<1>6. Consistent(F, F, l + 1, t + RecordSize(r), h, sp)
  <2>1. l + 1 \in Nat /\ Settled(F, l + 1)
    BY <1>2, <1>3 DEF Settled
  <2>2. SizeOf(F) <= sp /\ t + RecordSize(r) = SizeOf(SubSeq(F, 1, l + 1))
    BY <1>4, <1>5
  <2> QED BY <1>2, <1>3, <2>1, <2>2 DEF Consistent
<1> QED BY <1>1, <1>6 DEF F, p

-----------------------------------------------------------------------------
(* The inductive invariant *)

WritePc == {"header", "headerValid", "data", "added"}
NvPc == FlashPc \union {"space", "reclaim"}

OpType == [nv : BOOLEAN, name : Name \union {""}, attr : SUBSET {"BS", "RT", "NV"},
           value : Value, curr : Nat, trans : Nat, done : BOOLEAN]

DataOK ==
  /\ config \in Configs
  /\ volatile \in Seq(Record)
  /\ runtime \in BOOLEAN /\ reclaimed \in BOOLEAN
  /\ pc \in Pc
  /\ op \in OpType
  /\ pc \notin {"start", "idle"} => op.name \in Name
  /\ status \in {"none", "success", "error"}
  /\ errors \in Nat

StoreOK == Consistent(flash, cache, last, total, high, config.space)

(* As long as no flash service has failed, what is programmed behind the last
   record is the record being written; and there is room for all of it. *)
Clean ==
  /\ errors = 0 /\ pc \notin {"start", "headerValid", "data", "added"} => high <= total
  /\ errors = 0 /\ pc \in {"headerValid", "data"} => high <= total + 1
  /\ errors = 0 /\ pc = "added" => high <= total + NewSize
  /\ pc \in WritePc => total + NewSize <= config.space

(* Position i of the first n records of a log, if not 0, is a record of variable k
   whose sizes count. *)
Points(log, n, k, i) == i \in 0 .. n /\ (i # 0 => log[i].state # "blank" /\ log[i].name = k)

(* CurrPtr and InDeletedTransitionPtr stay good until the call ends. *)
Pointers ==
  /\ pc \in NvPc =>
       Points(flash, last, op.name, op.curr) /\ Points(flash, last, op.name, op.trans)
  /\ pc \in {"volatile", "volatileDelete"} =>
       /\ Points(volatile, Len(volatile), op.name, op.curr)
       /\ Points(volatile, Len(volatile), op.name, op.trans)

VInv == DataOK /\ StoreOK /\ Clean /\ Pointers

(* The platform's numbers. *)
LEMMA SpaceNat ==
  ASSUME DataOK
  PROVE  config.space \in Nat /\ config.attributes \subseteq SUBSET {"BS", "RT", "NV"}
<1>1. config \in Config
  BY VariableAssumption DEF DataOK
<1> QED BY <1>1 DEF Config

(* The numbers that describe the store. *)
LEMMA StoreBasics ==
  ASSUME DataOK, StoreOK
  PROVE  /\ config.space \in Nat
         /\ flash \in Seq(Record) /\ cache \in Seq(Record) /\ last \in Nat
         /\ last \in 0 .. Len(flash) /\ last \in 0 .. Len(cache)
         /\ Settled(flash, last) /\ Settled(cache, last)
         /\ \A i \in 1 .. last : cache[i] = flash[i]
         /\ total \in Nat /\ total <= config.space /\ total = SizeOf(Prefix(flash))
         /\ Prefix(cache) = Prefix(flash)
         /\ Prefix(flash) \in Seq(Record) /\ Len(Prefix(flash)) = last
         /\ \A i \in 1 .. last : Prefix(flash)[i] = flash[i]
         /\ high \in Nat /\ high <= config.space
         /\ SizeOf(flash) \in Nat /\ SizeOf(flash) <= config.space
<1>1. config.space \in Nat
  BY SpaceNat
<1>2. /\ last \in 0 .. Len(flash) /\ last \in 0 .. Len(cache)
      /\ total \in Nat /\ total <= config.space /\ SizeOf(flash) \in Nat
  BY <1>1, ConsistentBasics DEF StoreOK
<1>3. /\ SubSeq(flash, 1, last) \in Seq(Record) /\ Len(SubSeq(flash, 1, last)) = last
      /\ \A i \in 1 .. last : SubSeq(flash, 1, last)[i] = flash[i]
      /\ SubSeq(cache, 1, last) = SubSeq(flash, 1, last)
  BY <1>1, ConsistentBasics DEF StoreOK
<1> QED BY <1>1, <1>2, <1>3 DEF StoreOK, Consistent, Prefix

(* The record being written is one, and its sizes in its states. *)
LEMMA NewRecordProperties ==
  ASSUME DataOK, pc \notin {"start", "idle"}
  PROVE  /\ \A s \in State : NewRecord(s) \in Record /\ NewRecord(s).state = s
                             /\ NewRecord(s).name = op.name
         /\ NewSize \in Nat /\ NewSize >= 1
         /\ RecordSize(NewRecord("blank")) = 1
         /\ RecordSize(NewRecord("headerValid")) = NewSize
         /\ RecordSize(NewRecord("added")) = NewSize
<1>1. op.name \in Name /\ op.attr \in SUBSET {"BS", "RT", "NV"} /\ op.value \in Value
  BY DEF DataOK, OpType
<1>2. ASSUME NEW s \in State
      PROVE  /\ NewRecord(s) \in Record /\ NewRecord(s).state = s
             /\ NewRecord(s).name = op.name /\ NewRecord(s).data = op.value
  BY <1>1 DEF NewRecord, Record
<1>3. "blank" \in State /\ "headerValid" \in State /\ "added" \in State
  BY DEF State
<1>4. RecordSize(NewRecord("blank")) = 1
  BY <1>2, <1>3 DEF RecordSize
<1>5. RecordSize(NewRecord("headerValid")) = RecordSize(NewRecord("added"))
  BY <1>2, <1>3 DEF RecordSize
<1>6. NewSize \in Nat /\ NewSize >= 1
  BY <1>2, <1>3, RecordSizeNat DEF NewSize
<1> QED BY <1>2, <1>4, <1>5, <1>6 DEF NewSize

(* What FindVariable (k, IgnoreRtCheck) returns. *)
FoundOK(f, k) ==
  /\ f.nv \in BOOLEAN
  /\ f.curr \in Nat /\ f.trans \in Nat
  /\ f.curr = 0 => f.trans = 0 /\ f.nv
  /\ f.trans # 0 => f.trans # f.curr
  /\ ~f.nv => /\ f.log = volatile /\ Has(volatile, k)
              /\ Found(volatile, k, f.curr) /\ Found(volatile, k, f.trans)
  /\ f.nv => /\ f.log = cache /\ ~Has(volatile, k)
             /\ Found(cache, k, f.curr) /\ Found(cache, k, f.trans)
             /\ f.curr = 0 => ~Has(cache, k)
             /\ \A i \in 1 .. Len(cache) :
                  cache[i].name = k /\ cache[i].state = "added" =>
                    f.curr # 0 /\ cache[f.curr].state = "added"

(* FindVariable finds what there is, in the volatile store first. *)
LEMMA FindVariableProperties ==
  ASSUME DataOK, StoreOK, NEW k
  PROVE  FoundOK(FindVariable(k, TRUE), k)
<1> DEFINE v == FindVariableEx(volatile, k, TRUE)
           n == FindVariableEx(cache, k, TRUE)
           f == FindVariable(k, TRUE)
<1>1. volatile \in Seq(Record) /\ cache \in Seq(Record)
  BY DEF DataOK, StoreOK, Consistent
<1>2. /\ Found(volatile, k, v.curr) /\ Found(volatile, k, v.trans)
      /\ v.curr = 0 <=> ~Has(volatile, k)
      /\ v.trans # 0 => v.curr # 0 /\ v.trans # v.curr
  BY <1>1, FindProperties
<1>3. /\ Found(cache, k, n.curr) /\ Found(cache, k, n.trans)
      /\ n.curr = 0 <=> ~Has(cache, k)
      /\ n.trans # 0 => n.curr # 0 /\ n.trans # n.curr
  BY <1>1, FindProperties
<1>4. \A i \in 1 .. Len(cache) :
        cache[i].name = k /\ cache[i].state = "added" =>
          n.curr # 0 /\ cache[n.curr].state = "added"
  BY <1>1, FindProperties
<1>5. f = IF v.curr # 0
          THEN [nv |-> FALSE, curr |-> v.curr, trans |-> v.trans, log |-> volatile]
          ELSE [nv |-> TRUE, curr |-> n.curr, trans |-> n.trans, log |-> cache]
  BY DEF FindVariable
<1> HIDE DEF v, n, f
<1>6. v.curr \in Nat /\ v.trans \in Nat /\ n.curr \in Nat /\ n.trans \in Nat
  BY <1>2, <1>3 DEF Found
<1>7. CASE v.curr # 0
  <2>1. ~f.nv /\ f.nv \in BOOLEAN /\ f.curr = v.curr /\ f.trans = v.trans /\ f.log = volatile
    BY <1>5, <1>7
  <2>2. FoundOK(f, k)
    BY <1>2, <1>6, <1>7, <2>1 DEF FoundOK
  <2> QED BY <2>2 DEF f
<1>8. CASE v.curr = 0
  <2>1. f.nv /\ f.nv \in BOOLEAN /\ f.curr = n.curr /\ f.trans = n.trans /\ f.log = cache
    BY <1>5, <1>8
  <2>2. FoundOK(f, k)
    BY <1>2, <1>3, <1>4, <1>6, <1>8, <2>1 DEF FoundOK
  <2> QED BY <2>2 DEF f
<1> QED BY <1>7, <1>8

(* A live record of the cache is one of the records on flash. *)
LEMMA FoundPoints ==
  ASSUME DataOK, StoreOK, NEW k, NEW i, Found(cache, k, i)
  PROVE  Points(flash, last, k, i) /\ (i # 0 => flash[i] = cache[i])
<1>1. last \in Nat /\ Settled(cache, last) /\ \A j \in 1 .. last : cache[j] = flash[j]
  BY DEF StoreOK, Consistent
<1>2. CASE i = 0
  BY <1>1, <1>2 DEF Points
<1>3. CASE i # 0
  <2>1. i \in 1 .. Len(cache) /\ cache[i].name = k /\ cache[i].state \in {"added", "inDeleted"}
    BY <1>3 DEF Found, Live
  <2>2. i \in 1 .. last
    BY <1>1, <2>1 DEF Settled
  <2>3. flash[i] = cache[i]
    BY <1>1, <2>2
  <2> QED BY <1>1, <2>1, <2>2, <2>3 DEF Points
<1> QED BY <1>2, <1>3

(* Where a SetVariable begins, and the value it is to store. *)
FirstPc(f, attr, append, d) ==
  IF Len(d) > MaxData THEN "refused"
  ELSE IF f.curr # 0 THEN ExistingPc(f, f.log[f.curr], attr, append, d)
  ELSE NewPc(attr, append, d)
FirstValue(f, attr, append, d) ==
  IF FirstPc(f, attr, append, d) = "refused" \/ IsDelete(attr, append, d) THEN <<>>
  ELSE IF append /\ f.curr # 0 THEN f.log[f.curr].data \o d ELSE d

(* No data at all is data. *)
LEMMA EmptyIsValue == <<>> \in Value
<1> DEFINE e == <<>>
<1>1. e \in Seq(Datum) /\ Len(e) = 0 /\ MaxData \in Nat
  BY VariableAssumption
<1> HIDE DEF e
<1>2. Len(e) <= MaxData
  BY <1>1
<1>3. e \in Value
  BY <1>1, <1>2, ValueIsSeq
<1> QED BY <1>3 DEF e

(* A call begins in the store where its variable was found. *)
LEMMA FirstPcProperties ==
  ASSUME DataOK, StoreOK, NEW k, NEW f, FoundOK(f, k), NEW attr, NEW append \in BOOLEAN,
         NEW d \in Seq(Datum)
  PROVE  /\ FirstPc(f, attr, append, d) \in
              {"refused", "unchanged", "volatileDelete", "volatile", "markOld", "delTrans",
               "delCurr", "space"}
         /\ FirstPc(f, attr, append, d) \in {"markOld", "delTrans", "delCurr"} => f.nv /\ f.curr # 0
         /\ FirstPc(f, attr, append, d) = "space" => f.nv /\ f.curr = 0
         /\ FirstPc(f, attr, append, d) = "volatileDelete" => ~f.nv
         /\ FirstPc(f, attr, append, d) = "volatile" => f.curr = 0 \/ ~f.nv
         /\ FirstValue(f, attr, append, d) \in Value
<1> DEFINE p == FirstPc(f, attr, append, d)
           r == f.log[f.curr]
<1>0. f.nv \in BOOLEAN /\ (f.curr = 0 => f.nv)
  BY DEF FoundOK
<1>1. CASE Len(d) > MaxData
  <2>1. p = "refused"
    BY <1>1 DEF FirstPc
  <2>2. FirstValue(f, attr, append, d) = <<>>
    BY <2>1 DEF FirstValue
  <2>3. <<>> \in Value
    BY EmptyIsValue
  <2> QED BY <2>1, <2>2, <2>3
<1>2. CASE ~(Len(d) > MaxData) /\ f.curr # 0
  <2>1. p = ExistingPc(f, r, attr, append, d)
    BY <1>2 DEF FirstPc
  <2>2. /\ p \in {"refused", "unchanged", "volatileDelete", "volatile", "markOld", "delTrans", "delCurr"}
        /\ p \in {"markOld", "delTrans", "delCurr"} => f.nv
        /\ p \in {"volatileDelete", "volatile"} => ~f.nv
        /\ p # "refused" => ~ExistingRefused(f, r, attr, append, d)
    <3> HIDE DEF p, r
    <3>1. CASE ExistingRefused(f, r, attr, append, d)
      BY <2>1, <3>1 DEF ExistingPc
    <3>2. CASE ~ExistingRefused(f, r, attr, append, d) /\ IsDelete(attr, append, d)
      <4>1. p = IF ~f.nv THEN "volatileDelete" ELSE IF f.trans # 0 THEN "delTrans" ELSE "delCurr"
        BY <2>1, <3>2 DEF ExistingPc
      <4> QED BY <1>0, <3>2, <4>1
    <3>3. CASE ~ExistingRefused(f, r, attr, append, d) /\ ~IsDelete(attr, append, d)
      <4>1. p = IF ~append /\ d = r.data THEN "unchanged" ELSE IF f.nv THEN "markOld" ELSE "volatile"
        BY <2>1, <3>3 DEF ExistingPc
      <4> QED BY <1>0, <3>3, <4>1
    <3> QED BY <3>1, <3>2, <3>3
  <2>3. r \in Record
    <3>1. volatile \in Seq(Record) /\ cache \in Seq(Record)
      BY DEF DataOK, StoreOK, Consistent
    <3>2. CASE f.nv
      BY <1>2, <3>1, <3>2 DEF FoundOK, Found
    <3>3. CASE ~f.nv
      BY <1>2, <3>1, <3>3 DEF FoundOK, Found
    <3> QED BY <1>0, <3>2, <3>3
  <2>4. r.data \in Seq(Datum) /\ <<>> \in Value
    BY <2>3, ValueIsSeq, EmptyIsValue DEF Record
  <2>5. FirstValue(f, attr, append, d) \in Value
    <3> DEFINE w == FirstValue(f, attr, append, d)
    <3>1. CASE p = "refused" \/ IsDelete(attr, append, d)
      BY <2>4, <3>1 DEF FirstValue
    <3>2. CASE p # "refused" /\ ~IsDelete(attr, append, d) /\ append
      <4>1. w = r.data \o d
        BY <1>2, <3>2 DEF FirstValue
      <4>2. ~(Len(r.data) + Len(d) > MaxData)
        BY <2>2, <3>2 DEF ExistingRefused
      <4>3. r.data \o d \in Seq(Datum) /\ Len(r.data \o d) = Len(r.data) + Len(d)
        BY <2>4
      <4>4. Len(r.data \o d) <= MaxData
        BY <2>4, <4>2, <4>3, VariableAssumption
      <4> QED BY <4>1, <4>3, <4>4, ValueIsSeq
    <3>3. CASE p # "refused" /\ ~IsDelete(attr, append, d) /\ ~append
      <4>1. w = d
        BY <3>3 DEF FirstValue
      <4>2. Len(d) <= MaxData
        BY <1>2, VariableAssumption
      <4> QED BY <4>1, <4>2, ValueIsSeq
    <3> QED BY <3>1, <3>2, <3>3
  <2> QED BY <1>2, <2>2, <2>5
<1>3. CASE ~(Len(d) > MaxData) /\ f.curr = 0
  <2>1. p = NewPc(attr, append, d)
    BY <1>3 DEF FirstPc
  <2>2. p \in {"refused", "unchanged", "space", "volatile"}
    <3> HIDE DEF p
    <3>1. CASE NewRefused(attr, append, d)
      BY <2>1, <3>1 DEF NewPc
    <3>2. CASE ~NewRefused(attr, append, d)
      <4>1. p = IF d = <<>> THEN "unchanged" ELSE IF "NV" \in attr THEN "space" ELSE "volatile"
        BY <2>1, <3>2 DEF NewPc
      <4> QED BY <4>1
    <3> QED BY <3>1, <3>2
  <2>3. FirstValue(f, attr, append, d) \in Value
    <3> DEFINE w == FirstValue(f, attr, append, d)
    <3>1. CASE p = "refused" \/ IsDelete(attr, append, d)
      <4>1. w = <<>>
        BY <3>1 DEF FirstValue
      <4> QED BY <4>1, EmptyIsValue
    <3>2. CASE p # "refused" /\ ~IsDelete(attr, append, d)
      <4>1. w = d
        BY <1>3, <3>2 DEF FirstValue
      <4>2. Len(d) <= MaxData
        BY <1>3, VariableAssumption
      <4> QED BY <4>1, <4>2, ValueIsSeq
    <3> QED BY <3>1, <3>2
  <2> QED BY <1>0, <1>3, <2>2, <2>3
<1> QED BY <1>1, <1>2, <1>3

(* The state after SetVariable has looked for the variable. *)
LEMMA SetVariableStart ==
  ASSUME VInv, NEW k \in Name, NEW attr \in config.attributes, NEW append \in BOOLEAN,
         NEW d \in Inputs, SetVariable(k, attr, append, d)
  PROVE  /\ FoundOK(FindVariable(k, TRUE), k)
         /\ pc = "idle"
         /\ pc' = FirstPc(FindVariable(k, TRUE), attr, append, d)
         /\ pc' \in {"refused", "unchanged", "volatileDelete", "volatile", "markOld", "delTrans",
                     "delCurr", "space"}
         /\ pc' \in {"markOld", "delTrans", "delCurr"} =>
              FindVariable(k, TRUE).nv /\ FindVariable(k, TRUE).curr # 0
         /\ pc' = "space" => FindVariable(k, TRUE).nv /\ FindVariable(k, TRUE).curr = 0
         /\ pc' = "volatileDelete" => ~FindVariable(k, TRUE).nv
         /\ pc' = "volatile" => FindVariable(k, TRUE).curr = 0 \/ ~FindVariable(k, TRUE).nv
         /\ op' \in OpType /\ op'.name = k
         /\ op'.curr = FindVariable(k, TRUE).curr /\ op'.trans = FindVariable(k, TRUE).trans
<1> DEFINE f == FindVariable(k, TRUE)
           found == f.curr # 0
           first == FirstPc(f, attr, append, d)
           value == FirstValue(f, attr, append, d)
           o == [nv |-> IF found THEN f.nv ELSE "NV" \in attr,
                 name |-> k,
                 attr |-> IF found THEN f.log[f.curr].attr ELSE attr,
                 value |-> value,
                 curr |-> f.curr, trans |-> f.trans, done |-> FALSE]
<1>1. DataOK /\ StoreOK
  BY DEF VInv
<1>2. FoundOK(f, k)
  BY <1>1, FindVariableProperties
<1>3. d \in Seq(Datum)
  BY VariableAssumption
<1>4. pc = "idle" /\ pc' = first /\ op' = o
  BY DEF SetVariable, FirstPc, FirstValue
<1>5. attr \in SUBSET {"BS", "RT", "NV"}
  BY <1>1, SpaceNat
<1>6. value \in Value
  <2> HIDE DEF f
  <2> QED BY <1>1, <1>2, <1>3, FirstPcProperties
<1>7. found => f.log[f.curr] \in Record
  <2>1. volatile \in Seq(Record) /\ cache \in Seq(Record)
    BY <1>1 DEF DataOK, StoreOK, Consistent
  <2> HIDE DEF f
  <2>2. CASE f.nv
    BY <1>2, <2>1, <2>2 DEF FoundOK, Found
  <2>3. CASE ~f.nv
    BY <1>2, <2>1, <2>3 DEF FoundOK, Found
  <2> QED BY <2>2, <2>3
<1>8. op' \in OpType /\ op'.name = k /\ op'.curr = f.curr /\ op'.trans = f.trans
  <2> HIDE DEF f, value, first
  <2>1. f.nv \in BOOLEAN /\ f.curr \in Nat /\ f.trans \in Nat
    BY <1>2 DEF FoundOK
  <2>2. (IF found THEN f.log[f.curr].attr ELSE attr) \in SUBSET {"BS", "RT", "NV"}
    BY <1>5, <1>7 DEF Record
  <2>3. (IF found THEN f.nv ELSE "NV" \in attr) \in BOOLEAN
    <3>1. ("NV" \in attr) \in BOOLEAN
      <4> DEFINE b == "NV" \in attr
      <4>1. b = TRUE \/ b = FALSE
        OBVIOUS
      <4>2. b \in BOOLEAN
        <5> HIDE DEF b
        <5> QED BY <4>1
      <4> QED BY <4>2
    <3> HIDE DEF found
    <3>2. CASE found
      BY <2>1, <3>2, Zenon
    <3>3. CASE ~found
      BY <3>1, <3>3, Zenon
    <3> QED BY <3>2, <3>3
  <2> QED BY <1>4, <1>6, <2>1, <2>2, <2>3 DEF OpType
<1> HIDE DEF f
<1>9. /\ first \in {"refused", "unchanged", "volatileDelete", "volatile", "markOld", "delTrans",
                    "delCurr", "space"}
      /\ first \in {"markOld", "delTrans", "delCurr"} => f.nv /\ f.curr # 0
      /\ first = "space" => f.nv /\ f.curr = 0
      /\ first = "volatileDelete" => ~f.nv
      /\ first = "volatile" => f.curr = 0 \/ ~f.nv
  BY <1>1, <1>2, <1>3, FirstPcProperties
<1> QED BY <1>2, <1>4, <1>8, <1>9 DEF f

-----------------------------------------------------------------------------
(* Every step keeps it *)

(* The end of what is programmed when n more units are. *)
LEMMA ProgrammedBounds ==
  ASSUME DataOK, StoreOK, NEW n \in Nat, total + n <= config.space
  PROVE  /\ Programmed(n) \in Nat /\ Programmed(n) <= config.space
         /\ high <= total + n => Programmed(n) <= total + n
<1>1. /\ total \in Nat /\ total = SizeOf(Prefix(flash)) /\ high \in Nat /\ high <= config.space
      /\ config.space \in Nat
  BY StoreBasics
<1>2. Programmed(n) = IF total + n > high THEN total + n ELSE high
  BY <1>1 DEF Programmed
<1> QED BY <1>1, <1>2

(* Steps that leave the stores alone. *)
LEMMA QuietSteps ==
  ASSUME VInv,
         \/ Refuse \/ Unchanged \/ ReleaseLock \/ WriteFails \/ ExitBootServices
         \/ ProgramOver \/ UNCHANGED vars
  PROVE  VInv'
<1>0. DataOK /\ StoreOK /\ Clean /\ Pointers
  BY DEF VInv
<1>1. /\ config' = config /\ flash' = flash /\ cache' = cache /\ last' = last /\ total' = total
      /\ volatile' = volatile /\ reclaimed' = reclaimed /\ (~WriteFails => high' = high)
  BY DEF Refuse, Unchanged, ReleaseLock, WriteFails, ExitBootServices, ProgramOver, vars, nvVars,
         bootVars, used, FlashError
<1>2. high' = high => StoreOK'
  BY <1>0, <1>1 DEF StoreOK
<1>3. CASE Refuse \/ Unchanged \/ ReleaseLock
  <2>1. /\ pc' \in {"return", "idle"} /\ pc \in {"refused", "unchanged", "return"}
        /\ errors' = errors /\ runtime' = runtime /\ status' \in {"none", "success", "error"}
        /\ op' = op \/ op' = [op EXCEPT !.done = TRUE]
        /\ high' = high
    BY <1>0, <1>3 DEF Refuse, Unchanged, ReleaseLock, Return, Done, DataOK, bootVars, used, nvVars
  <2>2. op' \in OpType /\ op'.name = op.name
    BY <1>0, <2>1 DEF DataOK, OpType
  <2>3. DataOK'
    BY <1>0, <1>1, <2>1, <2>2 DEF DataOK, Pc
  <2>4. Clean' /\ Pointers'
    BY <1>0, <1>1, <2>1 DEF Clean, Pointers, NvPc, FlashPc, WritePc
  <2> QED BY <1>2, <2>1, <2>3, <2>4 DEF VInv
<1>4. CASE WriteFails
  <2>1. /\ pc' = "return" /\ pc \in FlashPc /\ op' = op /\ errors' = errors + 1
        /\ runtime' = runtime /\ status' = "error" /\ high' \in {high, Attempted}
    BY <1>4 DEF WriteFails, FlashError, Return, bootVars
  <2>2. DataOK'
    BY <1>0, <1>1, <2>1 DEF DataOK, Pc, FlashPc
  <2>3. errors' # 0
    BY <1>0, <2>1 DEF DataOK
  <2>4. Clean' /\ Pointers'
    BY <2>1, <2>3 DEF Clean, Pointers, NvPc, FlashPc, WritePc
  <2>5. high' \in Nat /\ high' <= config.space
    <3>1. /\ high \in Nat /\ high <= config.space /\ config.space \in Nat /\ total \in Nat
          /\ NewSize \in Nat /\ NewSize >= 1
      <4>1. pc \notin {"start", "idle"}
        BY <2>1 DEF FlashPc
      <4> QED BY <1>0, <4>1, StoreBasics, NewRecordProperties
    <3>2. CASE pc \in {"header", "data"}
      <4>1. total + NewSize <= config.space
        BY <1>0, <3>2 DEF Clean, WritePc
      <4>2. total + 1 <= config.space
        BY <3>1, <4>1
      <4>3. \/ high' = high \/ high' = Programmed(1) \/ high' = Programmed(NewSize)
        BY <2>1, <3>2 DEF Attempted
      <4> QED BY <1>0, <3>1, <4>1, <4>2, <4>3, ProgrammedBounds
    <3>3. CASE pc \notin {"header", "data"}
      BY <2>1, <3>1, <3>3 DEF Attempted
    <3> QED BY <3>2, <3>3
  <2>6. Consistent(flash, cache, last, total, high', config.space)
    <3>1. config.space \in Nat
      BY <1>0, StoreBasics
    <3> QED BY <1>0, <2>5, <3>1, ConsistentHigh DEF StoreOK
  <2>7. StoreOK'
    BY <1>1, <2>6 DEF StoreOK
  <2> QED BY <2>2, <2>4, <2>7 DEF VInv
<1>5. CASE ExitBootServices
  <2>1. /\ pc' = pc /\ op' = op /\ errors' = errors /\ runtime' = TRUE /\ status' = status
        /\ high' = high
    BY <1>5 DEF ExitBootServices, used, nvVars
  <2>2. DataOK'
    BY <1>0, <1>1, <2>1 DEF DataOK
  <2>3. Clean' /\ Pointers'
    BY <1>0, <1>1, <2>1 DEF Clean, Pointers, NewSize, NewRecord
  <2> QED BY <1>2, <2>1, <2>2, <2>3 DEF VInv
<1>6. CASE UNCHANGED vars
  <2>1. /\ pc' = pc /\ op' = op /\ errors' = errors /\ runtime' = runtime /\ status' = status
        /\ high' = high
    BY <1>6 DEF vars, used, bootVars, nvVars
  <2>2. DataOK'
    BY <1>0, <1>1, <2>1 DEF DataOK
  <2>3. Clean' /\ Pointers'
    BY <1>0, <1>1, <2>1 DEF Clean, Pointers, NewSize, NewRecord
  <2> QED BY <1>2, <2>1, <2>2, <2>3 DEF VInv
<1>7. CASE ProgramOver
  <2>1. /\ pc = "header" /\ pc' = "unpredictable" /\ op' = op /\ errors' = errors
        /\ runtime' = runtime /\ status' = status /\ high' = high
    BY <1>7 DEF ProgramOver, used, bootVars, nvVars
  <2>2. DataOK'
    BY <1>0, <1>1, <2>1 DEF DataOK, Pc
  <2>3. Clean' /\ Pointers'
    BY <1>0, <1>1, <2>1 DEF Clean, Pointers, NvPc, FlashPc, WritePc
  <2> QED BY <1>2, <2>1, <2>2, <2>3 DEF VInv
<1> QED BY <1>3, <1>4, <1>5, <1>6, <1>7

(* A call begins. *)
LEMMA SetVariableStep ==
  ASSUME VInv, NEW k \in Name, NEW attr \in config.attributes, NEW append \in BOOLEAN,
         NEW d \in Inputs, SetVariable(k, attr, append, d)
  PROVE  VInv'
<1> DEFINE f == FindVariable(k, TRUE)
<1>0. DataOK /\ StoreOK /\ Clean /\ Pointers
  BY DEF VInv
<1>1. /\ config' = config /\ flash' = flash /\ cache' = cache /\ last' = last /\ total' = total
      /\ high' = high /\ volatile' = volatile /\ reclaimed' = reclaimed /\ runtime' = runtime
      /\ errors' = errors /\ status' = "none"
  BY DEF SetVariable, nvVars, bootVars
<1>2. /\ FoundOK(f, k) /\ pc = "idle"
      /\ pc' \in {"refused", "unchanged", "volatileDelete", "volatile", "markOld", "delTrans",
                  "delCurr", "space"}
      /\ pc' \in {"markOld", "delTrans", "delCurr"} => f.nv
      /\ pc' = "space" => f.nv
      /\ pc' = "volatileDelete" => ~f.nv
      /\ pc' = "volatile" => f.curr = 0 \/ ~f.nv
      /\ op' \in OpType /\ op'.name = k /\ op'.curr = f.curr /\ op'.trans = f.trans
  BY SetVariableStart
<1> HIDE DEF f
<1>3. StoreOK'
  BY <1>0, <1>1 DEF StoreOK
<1>4. DataOK'
  BY <1>0, <1>1, <1>2 DEF DataOK, Pc, FlashPc
<1>5. Clean'
  BY <1>0, <1>1, <1>2 DEF Clean, WritePc
<1>6. f.nv => Points(flash, last, k, f.curr) /\ Points(flash, last, k, f.trans)
  BY <1>0, <1>2, FoundPoints DEF FoundOK
<1>7. ~f.nv \/ f.curr = 0 =>
        /\ Points(volatile, Len(volatile), k, f.curr)
        /\ Points(volatile, Len(volatile), k, f.trans)
  <2>1. volatile \in Seq(Record) /\ Len(volatile) \in Nat
    BY <1>0 DEF DataOK
  <2>2. CASE ~f.nv
    BY <1>2, <2>2 DEF FoundOK, Found, Live, Points
  <2>3. CASE f.curr = 0
    BY <1>2, <2>1, <2>3 DEF FoundOK, Points
  <2> QED BY <2>2, <2>3
<1>8. Pointers'
  <2>1. pc' \in NvPc => f.nv
    BY <1>2 DEF NvPc, FlashPc
  <2>2. pc' \in {"volatile", "volatileDelete"} => ~f.nv \/ f.curr = 0
    BY <1>2
  <2> QED BY <1>1, <1>2, <1>6, <1>7, <2>1, <2>2 DEF Pointers
<1> QED BY <1>3, <1>4, <1>5, <1>8 DEF VInv

(* The room behind the last record is looked at. *)
LEMMA CheckSpaceStep ==
  ASSUME VInv, CheckSpace
  PROVE  VInv'
<1>0. DataOK /\ StoreOK /\ Clean /\ Pointers
  BY DEF VInv
<1>1. /\ config' = config /\ flash' = flash /\ cache' = cache /\ last' = last /\ total' = total
      /\ high' = high /\ volatile' = volatile /\ reclaimed' = reclaimed /\ runtime' = runtime
      /\ errors' = errors /\ op' = op /\ pc = "space"
  BY DEF CheckSpace, nvVars, bootVars, used
<1>2. /\ pc' \in {"return", "reclaim", "header"} /\ status' \in {"error", status}
      /\ pc' = "header" => ~Full
  <2>1. runtime \in BOOLEAN
    BY <1>0 DEF DataOK
  <2>2. CASE runtime /\ (Full \/ FullForRuntime)
    BY <2>2 DEF CheckSpace, Return
  <2>3. CASE Full /\ ~runtime
    BY <2>3 DEF CheckSpace, Return
  <2>4. CASE ~Full /\ ~(runtime /\ (Full \/ FullForRuntime))
    BY <2>4 DEF CheckSpace, Return
  <2> QED BY <2>1, <2>2, <2>3, <2>4
<1>3. StoreOK'
  BY <1>0, <1>1 DEF StoreOK
<1>4. DataOK'
  BY <1>0, <1>1, <1>2 DEF DataOK, Pc, FlashPc
<1>5. config.space \in Nat /\ total \in Nat /\ NewSize \in Nat
  <2>1. pc \notin {"start", "idle"}
    BY <1>1
  <2> QED BY <1>0, <2>1, SpaceNat, NewRecordProperties, ConsistentBasics DEF StoreOK
<1>6. Clean'
  <2>1. NewSize' = NewSize
    BY <1>1 DEF NewSize, NewRecord
  <2>2. pc' = "header" => total + NewSize <= config.space
    BY <1>2, <1>5 DEF Full
  <2> QED BY <1>0, <1>1, <1>2, <2>1, <2>2 DEF Clean, WritePc
<1>7. Pointers'
  BY <1>0, <1>1, <1>2 DEF Pointers, NvPc, FlashPc
<1> QED BY <1>3, <1>4, <1>6, <1>7 DEF VInv

(* Records of a log are marked deleted. *)
LEMMA MarkedDeletedProperties ==
  ASSUME NEW log \in Seq(Record), op.curr \in 0 .. Len(log), op.trans \in 0 .. Len(log)
  PROVE  /\ MarkedDeleted(log) \in Seq(Record)
         /\ Len(MarkedDeleted(log)) = Len(log)
         /\ \A i \in 1 .. Len(log) :
              /\ MarkedDeleted(log)[i].name = log[i].name
              /\ Live(MarkedDeleted(log)[i]) => MarkedDeleted(log)[i] = log[i]
<1> DEFINE L == SetState(log, op.trans, "deleted")
           M == SetState(L, op.curr, "deleted")
<1>0. "deleted" \in State \ {"blank"}
  BY DEF State
<1>1. Marked(L, log, op.trans, "deleted")
  BY <1>0, SetStateProperties
<1> HIDE DEF L
<1>2. L \in Seq(Record) /\ Len(L) = Len(log)
  BY <1>1 DEF Marked
<1>3. Marked(M, L, op.curr, "deleted")
  BY <1>0, <1>2, SetStateProperties
<1> HIDE DEF M
<1>4. M \in Seq(Record) /\ Len(M) = Len(log)
  BY <1>2, <1>3 DEF Marked
<1>5. ASSUME NEW i \in 1 .. Len(log)
      PROVE  M[i].name = log[i].name /\ (Live(M[i]) => M[i] = log[i])
  <2>1. /\ i # op.trans => L[i] = log[i]
        /\ i = op.trans => L[i].state = "deleted"
        /\ L[i].name = log[i].name
    BY <1>1 DEF Marked
  <2>2. /\ i # op.curr => M[i] = L[i]
        /\ i = op.curr => M[i].state = "deleted"
        /\ M[i].name = L[i].name
    BY <1>2, <1>3 DEF Marked
  <2> QED BY <2>1, <2>2 DEF Live
<1>6. MarkedDeleted(log) = M
  BY DEF MarkedDeleted, L, M
<1> QED BY <1>4, <1>5, <1>6

(* A call on the volatile store ends. *)
LEMMA VolatileSteps ==
  ASSUME VInv, VolatileDelete \/ VolatileUpdate \/ VolatileReclaim
  PROVE  VInv'
<1>0. DataOK /\ StoreOK /\ Clean /\ Pointers
  BY DEF VInv
<1>1. /\ config' = config /\ flash' = flash /\ cache' = cache /\ last' = last /\ total' = total
      /\ high' = high /\ reclaimed' = reclaimed /\ runtime' = runtime
      /\ errors' = errors /\ pc \in {"volatile", "volatileDelete"} /\ pc' = "return"
      /\ status' \in {"success", "error"}
  BY DEF VolatileDelete, VolatileUpdate, VolatileReclaim, nvVars, bootVars, used, Return
<1>2. op' \in OpType /\ op'.name = op.name
  <2>1. op \in OpType
    BY <1>0 DEF DataOK
  <2>2. CASE VolatileDelete \/ VolatileUpdate
    <3>1. op' = [op EXCEPT !.done = TRUE]
      BY <2>2 DEF VolatileDelete, VolatileUpdate, Done
    <3> QED BY <2>1, <3>1 DEF OpType
  <2>3. CASE VolatileReclaim
    <3> DEFINE b == SizeOf(ReclaimBuffer(SetState(volatile, op.curr, "inDeleted"), op.curr, op.trans)) + NewSize <= VolatileSpace
    <3>1. op' = [op EXCEPT !.done = b]
      BY <2>3 DEF VolatileReclaim
    <3>2. b = TRUE \/ b = FALSE
      OBVIOUS
    <3> HIDE DEF b
    <3>3. b \in BOOLEAN
      BY <3>2
    <3> QED BY <2>1, <3>1, <3>3 DEF OpType
  <2> QED BY <2>2, <2>3
<1>3. volatile \in Seq(Record) /\ op.curr \in 0 .. Len(volatile) /\ op.trans \in 0 .. Len(volatile)
  BY <1>0, <1>1 DEF DataOK, Pointers, Points
<1>4. NewRecord("added") \in Record
  <2>1. "added" \in State /\ pc \notin {"start", "idle"}
    BY <1>1 DEF State
  <2> QED BY <1>0, <2>1, NewRecordProperties
<1>5. volatile' \in Seq(Record)
  <2>1. CASE VolatileDelete
    BY <1>3, <2>1, MarkedDeletedProperties DEF VolatileDelete
  <2>2. CASE VolatileUpdate
    <3> DEFINE a == Append(volatile, NewRecord("added"))
    <3>1. a \in Seq(Record) /\ op.curr \in 0 .. Len(a) /\ op.trans \in 0 .. Len(a)
      BY <1>3, <1>4
    <3>2. volatile' = MarkedDeleted(a)
      BY <2>2 DEF VolatileUpdate
    <3> HIDE DEF a
    <3> QED BY <3>1, <3>2, MarkedDeletedProperties
  <2>3. CASE VolatileReclaim
    <3> DEFINE marked == SetState(volatile, op.curr, "inDeleted")
               buffer == ReclaimBuffer(marked, op.curr, op.trans)
    <3>1. marked \in Seq(Record)
      <4>1. "inDeleted" \in State \ {"blank"}
        BY DEF State
      <4> QED BY <1>3, <4>1, SetStateProperties DEF Marked
    <3>2. volatile' = Append(buffer, NewRecord("added")) \/ volatile' = marked
      BY <2>3 DEF VolatileReclaim
    <3> HIDE DEF marked
    <3>3. buffer \in Seq(Record)
      BY <3>1, ReclaimBufferProperties
    <3> HIDE DEF buffer
    <3> QED BY <1>4, <3>1, <3>2, <3>3
  <2> QED BY <2>1, <2>2, <2>3
<1>6. StoreOK'
  BY <1>0, <1>1 DEF StoreOK
<1>7. DataOK'
  BY <1>0, <1>1, <1>2, <1>5 DEF DataOK, Pc, FlashPc
<1>8. Clean' /\ Pointers'
  BY <1>0, <1>1 DEF Clean, Pointers, NvPc, FlashPc, WritePc
<1> QED BY <1>6, <1>7, <1>8 DEF VInv

(* The state of an old record is written. *)
LEMMA MarkSteps ==
  ASSUME VInv, MarkOld \/ DeleteTransition \/ DeleteCurrent
  PROVE  VInv'
<1>0. DataOK /\ StoreOK /\ Clean /\ Pointers /\ config.space \in Nat
  BY SpaceNat DEF VInv
<1>1. /\ config' = config /\ last' = last /\ total' = total
      /\ high' = high /\ reclaimed' = reclaimed /\ runtime' = runtime /\ volatile' = volatile
      /\ errors' = errors /\ pc \in {"markOld", "delTrans", "delCurr"}
      /\ pc' \in {"space", "delCurr", "return"}
      /\ status' \in {"success", status}
      /\ op' \in OpType /\ op'.name = op.name /\ op'.curr = op.curr /\ op'.trans = op.trans
  <2>1. op \in OpType
    BY <1>0 DEF DataOK
  <2>2. CASE MarkOld \/ DeleteTransition
    BY <2>1, <2>2 DEF MarkOld, DeleteTransition, bootVars, used
  <2>3. CASE DeleteCurrent
    <3>1. op' = [op EXCEPT !.done = TRUE]
      BY <2>3 DEF DeleteCurrent, Done
    <3>2. op' \in OpType /\ op'.name = op.name /\ op'.curr = op.curr /\ op'.trans = op.trans
      BY <2>1, <3>1 DEF OpType
    <3> QED BY <2>3, <3>2 DEF DeleteCurrent, bootVars, used, Return
  <2> QED BY <2>2, <2>3
<1>2. PICK i \in {op.curr, op.trans}, s \in {"inDeleted", "deleted"} : MarkState(i, s)
  BY DEF MarkOld, DeleteTransition, DeleteCurrent
<1>3. /\ Points(flash, last, op.name, op.curr) /\ Points(flash, last, op.name, op.trans)
      /\ Points(flash, last, op.name, i)
  BY <1>0, <1>1, <1>2 DEF Pointers, NvPc, FlashPc
<1>4. i \in 0 .. last /\ (i # 0 => flash[i].state # "blank") /\ s \in State \ {"blank"}
  BY <1>3 DEF Points, State
<1>5. flash' = SetState(flash, i, s) /\ cache' = SetState(cache, i, s)
  BY <1>2 DEF MarkState
<1>6. StoreOK'
  BY <1>0, <1>1, <1>4, <1>5, ConsistentMark DEF StoreOK
<1>7. DataOK'
  BY <1>0, <1>1 DEF DataOK, Pc, FlashPc
<1>8. Clean'
  BY <1>0, <1>1 DEF Clean, WritePc
<1>9. Pointers'
  <2>1. last \in 0 .. Len(flash) /\ flash \in Seq(Record) /\ last \in Nat
    BY <1>0, StoreBasics
  <2>2. i \in 0 .. Len(flash)
    BY <1>4, <2>1
  <2>3. Marked(flash', flash, i, s)
    BY <1>4, <1>5, <2>1, <2>2, SetStateProperties
  <2>4. ASSUME NEW j, Points(flash, last, op.name, j) PROVE Points(flash', last, op.name, j)
    <3>1. j # 0 => j \in 1 .. Len(flash)
      BY <2>1, <2>4 DEF Points
    <3> QED BY <2>3, <2>4, <3>1 DEF Points, Marked
  <2>5. Points(flash', last', op'.name, op'.curr) /\ Points(flash', last', op'.name, op'.trans)
    BY <1>1, <1>3, <2>4
  <2> QED BY <1>1, <2>5 DEF Pointers
<1> QED BY <1>6, <1>7, <1>8, <1>9 DEF VInv

(* The header of a new record leaves a state in which the record is not live. *)
HeaderState == IF Unfinished THEN flash[last + 1].state ELSE "blank"

LEMMA HeaderStates ==
  ASSUME DataOK, StoreOK PROVE HeaderState \in {"blank", "headerValid"}
<1>1. last \in Nat /\ last \in 0 .. Len(flash) /\ Settled(flash, last)
  BY StoreBasics
<1> QED BY <1>1 DEF HeaderState, Unfinished, Settled

(* Header, state or data of a new record are written behind the last one. *)
LEMMA WriteSteps ==
  ASSUME VInv, WriteHeader \/ SetHeaderValid \/ WriteData
  PROVE  VInv'
<1>0. DataOK /\ StoreOK /\ Clean /\ Pointers
  BY DEF VInv
<1>1. /\ config' = config /\ last' = last /\ total' = total /\ cache' = cache
      /\ reclaimed' = reclaimed /\ runtime' = runtime /\ volatile' = volatile
      /\ errors' = errors /\ op' = op /\ status' = status
      /\ pc \in {"header", "headerValid", "data"} /\ pc' \in {"headerValid", "data", "added"}
  BY DEF WriteHeader, SetHeaderValid, WriteData, bootVars, used
<1>2. /\ total \in Nat /\ config.space \in Nat /\ last \in Nat /\ high \in Nat
      /\ flash \in Seq(Record) /\ last \in 0 .. Len(flash)
      /\ Prefix(flash) \in Seq(Record) /\ Len(Prefix(flash)) = last
      /\ \A i \in 1 .. last : Prefix(flash)[i] = flash[i]
  BY <1>0, StoreBasics
<1>3. /\ \A s \in State : NewRecord(s) \in Record /\ NewRecord(s).state = s
      /\ NewSize \in Nat /\ NewSize >= 1
      /\ RecordSize(NewRecord("blank")) = 1 /\ RecordSize(NewRecord("headerValid")) = NewSize
  <2>1. pc \notin {"start", "idle"}
    BY <1>1
  <2> QED BY <1>0, <2>1, NewRecordProperties
<1>4. total + NewSize <= config.space
  BY <1>0, <1>1 DEF Clean, WritePc
<1>5. /\ NewSize' = NewSize /\ total + 1 <= config.space
  BY <1>1, <1>2, <1>3, <1>4 DEF NewSize, NewRecord
<1>6. Points(flash, last, op.name, op.curr) /\ Points(flash, last, op.name, op.trans)
  BY <1>0, <1>1 DEF Pointers, NvPc, FlashPc
<1>7. ASSUME NEW s \in {"blank", "headerValid"}
      PROVE  /\ Consistent(AtLast(s), cache, last, total, high, config.space)
             /\ \A j : Points(flash, last, op.name, j) => Points(AtLast(s), last, op.name, j)
  <2> DEFINE r == NewRecord(s)
             F == Append(Prefix(flash), r)
  <2>1. r \in Record /\ r.state \in {"blank", "headerValid"} /\ total + RecordSize(r) <= config.space
    <3>1. s \in State
      BY DEF State
    <3>2. RecordSize(r) \in {1, NewSize}
      BY <1>3
    <3> QED BY <1>3, <1>4, <1>5, <3>1, <3>2
  <2> HIDE DEF r
  <2>2. Consistent(Append(SubSeq(flash, 1, last), r), cache, last, total, high, config.space)
    BY <1>0, <1>2, <2>1, ConsistentBegin DEF StoreOK
  <2>3. \A j \in 1 .. last : F[j] = flash[j]
    BY <1>2, <2>1
  <2>4. AtLast(s) = F
    BY DEF AtLast, r
  <2>5. F = Append(SubSeq(flash, 1, last), r)
    BY DEF Prefix
  <2> HIDE DEF F
  <2>6. ASSUME NEW j, Points(flash, last, op.name, j) PROVE Points(F, last, op.name, j)
    <3>1. j # 0 => j \in 1 .. last
      BY <1>2, <2>6 DEF Points
    <3> QED BY <2>3, <2>6, <3>1 DEF Points
  <2> QED BY <2>2, <2>4, <2>5, <2>6
<1>8. DataOK'
  BY <1>0, <1>1 DEF DataOK, Pc, FlashPc
<1>9. CASE WriteHeader
  <2>1. /\ flash' = AtLast(HeaderState) /\ high' = Programmed(1) /\ pc = "header"
        /\ pc' = "headerValid" /\ HeaderState \in {"blank", "headerValid"}
    BY <1>0, <1>9, HeaderStates DEF WriteHeader, HeaderState
  <2>2. high' \in Nat /\ high' <= config.space /\ (high <= total + 1 => high' <= total + 1)
    BY <1>0, <1>5, <2>1, ProgrammedBounds
  <2>3. Consistent(flash', cache, last, total, high', config.space)
    BY <1>2, <1>7, <2>1, <2>2, ConsistentHigh
  <2>4. StoreOK'
    BY <1>1, <2>3 DEF StoreOK
  <2>5. Pointers'
    BY <1>1, <1>6, <1>7, <2>1 DEF Pointers
  <2>6. errors = 0 => high <= total + 1
    BY <1>0, <1>2, <2>1 DEF Clean
  <2>7. Clean'
    BY <1>1, <1>4, <1>5, <2>1, <2>2, <2>6 DEF Clean
  <2> QED BY <1>8, <2>4, <2>5, <2>7 DEF VInv
<1>10. CASE SetHeaderValid
  <2>1. flash' = AtLast("headerValid") /\ high' = high /\ pc = "headerValid" /\ pc' = "data"
    BY <1>10 DEF SetHeaderValid
  <2>4. StoreOK'
    BY <1>1, <1>7, <2>1 DEF StoreOK
  <2>5. Pointers'
    BY <1>1, <1>6, <1>7, <2>1 DEF Pointers
  <2>7. Clean'
    BY <1>0, <1>1, <1>4, <1>5, <2>1 DEF Clean
  <2> QED BY <1>8, <2>4, <2>5, <2>7 DEF VInv
<1>11. CASE WriteData
  <2>1. flash' = flash /\ high' = Programmed(NewSize) /\ pc = "data" /\ pc' = "added"
    BY <1>11 DEF WriteData
  <2>2. high' \in Nat /\ high' <= config.space /\ (high <= total + NewSize => high' <= total + NewSize)
    BY <1>0, <1>3, <1>4, <2>1, ProgrammedBounds
  <2>3. Consistent(flash', cache, last, total, high', config.space)
    BY <1>0, <1>2, <2>1, <2>2, ConsistentHigh DEF StoreOK
  <2>4. StoreOK'
    BY <1>1, <2>3 DEF StoreOK
  <2>5. Pointers'
    BY <1>1, <1>6, <2>1 DEF Pointers
  <2>6. errors = 0 => high <= total + NewSize
    BY <1>0, <1>2, <1>3, <2>1 DEF Clean
  <2>7. Clean'
    BY <1>1, <1>4, <1>5, <2>1, <2>2, <2>6 DEF Clean
  <2> QED BY <1>8, <2>4, <2>5, <2>7 DEF VInv
<1> QED BY <1>9, <1>10, <1>11

(* The new record becomes a record. *)
LEMMA SetAddedStep ==
  ASSUME VInv, SetAdded
  PROVE  VInv'
<1>0. DataOK /\ StoreOK /\ Clean /\ Pointers
  BY DEF VInv
<1>1. /\ config' = config /\ high' = high /\ last' = last + 1 /\ total' = total + NewSize
      /\ reclaimed' = reclaimed /\ runtime' = runtime /\ volatile' = volatile
      /\ errors' = errors /\ op' = [op EXCEPT !.done = TRUE] /\ status' \in {"success", status}
      /\ pc = "added" /\ pc' \in {"return", "delTrans", "delCurr"}
      /\ flash' = AtLast("added") /\ cache' = Append(Prefix(cache), NewRecord("added"))
  BY DEF SetAdded, bootVars, used, Done, Return
<1>2. /\ total \in Nat /\ config.space \in Nat /\ last \in Nat
      /\ flash \in Seq(Record)
      /\ Prefix(flash) \in Seq(Record) /\ Len(Prefix(flash)) = last
      /\ \A i \in 1 .. last : Prefix(flash)[i] = flash[i]
  BY <1>0, StoreBasics
<1> DEFINE r == NewRecord("added")
           F == Append(Prefix(flash), r)
<1>3. r \in Record /\ NewSize \in Nat /\ RecordSize(r) = NewSize
  <2>1. pc \notin {"start", "idle"} /\ "added" \in State
    BY <1>1 DEF State
  <2> QED BY <1>0, <2>1, NewRecordProperties
<1>4. total + NewSize <= config.space
  BY <1>0, <1>1 DEF Clean, WritePc
<1>5. op' \in OpType /\ op'.name = op.name /\ op'.curr = op.curr /\ op'.trans = op.trans
  BY <1>0, <1>1 DEF DataOK, OpType
<1>6. DataOK'
  BY <1>0, <1>1, <1>5 DEF DataOK, Pc, FlashPc
<1>7. flash' = F /\ cache' = Append(Prefix(cache), r)
  BY <1>1 DEF AtLast
<1> HIDE DEF r
<1>8. Consistent(Append(SubSeq(flash, 1, last), r), Append(SubSeq(cache, 1, last), r), last + 1,
                 total + RecordSize(r), high, config.space)
  BY <1>0, <1>2, <1>3, <1>4, ConsistentAdd DEF StoreOK
<1>9. StoreOK'
  BY <1>1, <1>3, <1>7, <1>8 DEF StoreOK, Prefix
<1>10. Clean'
  BY <1>0, <1>1 DEF Clean, WritePc
<1>11. \A j \in 1 .. last : F[j] = flash[j]
  BY <1>2, <1>3
<1> HIDE DEF F
<1>12. ASSUME NEW j, Points(flash, last, op.name, j) PROVE Points(F, last + 1, op.name, j)
  <2>1. (j # 0 => j \in 1 .. last) /\ j \in 0 .. last + 1
    BY <1>2, <1>12 DEF Points
  <2> QED BY <1>11, <1>12, <2>1 DEF Points
<1>13. Points(flash, last, op.name, op.curr) /\ Points(flash, last, op.name, op.trans)
  BY <1>0, <1>1 DEF Pointers, NvPc, FlashPc
<1>14. Pointers'
  BY <1>1, <1>5, <1>7, <1>12, <1>13 DEF Pointers
<1> QED BY <1>6, <1>9, <1>10, <1>14 DEF VInv

(* Reclaim ends: the store is replaced. *)
LEMMA ReplaceSteps ==
  ASSUME VInv, NEW b \in Seq(Record), SizeOf(b) <= config.space, StoreReplaced(b),
         DataOK', config' = config, pc' \in {"idle", "return"}
  PROVE  VInv'
<1>1. config.space \in Nat
  BY SpaceNat DEF VInv
<1>2. Consistent(b, b, Len(b), SizeOf(b), SizeOf(b), config.space)
  BY <1>1, ConsistentReplaced
<1>3. StoreOK'
  BY <1>2 DEF StoreOK, StoreReplaced
<1>4. high' <= total'
  <2>1. SizeOf(b) \in Nat
    BY <1>2 DEF Consistent
  <2> QED BY <2>1 DEF StoreReplaced
<1>5. Clean' /\ Pointers'
  BY <1>4 DEF Clean, Pointers, NvPc, FlashPc, WritePc
<1> QED BY <1>3, <1>5 DEF VInv

(* Cache and sizes are read from flash again. *)
LEMMA RereadSteps ==
  ASSUME VInv, flash' = flash, cache' = flash, last' = Len(flash), total' = SizeOf(flash),
         high' \in Nat, high' <= config.space, config' = config,
         DataOK', pc' = "start" \/ (pc' \in {"idle", "return"} /\ errors' # 0)
  PROVE  VInv'
<1>1. config.space \in Nat /\ StoreOK
  BY SpaceNat DEF VInv
<1>2. Consistent(flash, flash, Len(flash), SizeOf(flash), high', config.space)
  BY <1>1, ConsistentReread DEF StoreOK
<1>3. StoreOK'
  BY <1>2 DEF StoreOK
<1>5. Clean' /\ Pointers'
  BY DEF Clean, Pointers, NvPc, FlashPc, WritePc
<1> QED BY <1>3, <1>5 DEF VInv

(* What an action does to the record of the call when it ends it. *)
LEMMA DoneOp ==
  ASSUME DataOK, Done
  PROVE  op' \in OpType /\ op'.name = op.name
<1>1. op \in OpType /\ op' = [op EXCEPT !.done = TRUE]
  BY DEF DataOK, Done
<1> QED BY <1>1 DEF OpType

(* Reclaim puts the new record behind the ones it keeps. *)
LEMMA ReclaimWithNewStep ==
  ASSUME VInv, ReclaimWithNew
  PROVE  VInv'
<1>0. DataOK /\ StoreOK /\ pc = "reclaim" /\ flash \in Seq(Record)
  BY StoreBasics DEF VInv, ReclaimWithNew
<1> DEFINE r == NewRecord("added")
           b == Append(Buffer, r)
<1>1. r \in Record /\ RecordSize(r) = NewSize
  <2>1. pc \notin {"start", "idle"} /\ "added" \in State
    BY <1>0 DEF State
  <2> QED BY <1>0, <2>1, NewRecordProperties
<1>2. Buffer \in Seq(Record)
  BY <1>0, ReclaimBufferProperties DEF Buffer
<1>3. StoreReplaced(b) /\ SizeOf(Buffer) + NewSize <= config.space
  BY DEF ReclaimWithNew
<1> HIDE DEF r
<1>4. b \in Seq(Record) /\ SizeOf(b) = SizeOf(Buffer) + RecordSize(r)
  BY <1>1, <1>2, SizeOfAppend
<1> HIDE DEF b
<1>5. SizeOf(b) <= config.space
  BY <1>1, <1>3, <1>4
<1>6. op' \in OpType /\ op'.name = op.name
  BY <1>0, DoneOp DEF ReclaimWithNew
<1>7. config' = config /\ pc' = "return"
  BY DEF ReclaimWithNew, bootVars, Return
<1>8. DataOK'
  BY <1>0, <1>6 DEF DataOK, ReclaimWithNew, bootVars, used, Return, Pc
<1> QED BY <1>3, <1>4, <1>5, <1>7, <1>8, ReplaceSteps

(* Reclaim without a new variable, at the start or for the operating system, or
   no Reclaim because there is no need for one. *)
LEMMA ReclaimSteps ==
  ASSUME VInv, WriteServiceInitialize \/ ReclaimForOS
  PROVE  VInv'
<1>0. DataOK /\ StoreOK /\ Clean /\ Pointers
  BY DEF VInv
<1>1. /\ flash \in Seq(Record) /\ SizeOf(flash) <= config.space /\ config.space \in Nat
      /\ SizeOf(flash) \in Nat /\ total = SizeOf(Prefix(flash)) /\ Prefix(cache) = Prefix(flash)
  BY <1>0, StoreBasics
<1>2. /\ pc' = "idle" /\ config' = config /\ pc \in {"start", "idle"} /\ errors' = errors
      /\ op' = op
  BY DEF WriteServiceInitialize, ReclaimForOS, bootVars, used
<1>3. DataOK'
  <2>1. CASE WriteServiceInitialize
    BY <1>0, <1>2, <2>1 DEF DataOK, WriteServiceInitialize, bootVars, used, Pc
  <2>2. CASE ReclaimForOS
    BY <1>0, <1>2, <2>2 DEF DataOK, ReclaimForOS, bootVars, used, Pc
  <2> QED BY <2>1, <2>2
<1>4. CASE StoreReplaced(ReclaimBuffer(flash, 0, 0))
  <2> DEFINE b == ReclaimBuffer(flash, 0, 0)
  <2>1. b \in Seq(Record) /\ SizeOf(b) \in Nat /\ SizeOf(b) <= SizeOf(flash)
    BY <1>1, ReclaimBufferProperties
  <2> HIDE DEF b
  <2>2. SizeOf(b) <= config.space
    BY <1>1, <2>1
  <2>3. StoreReplaced(b)
    BY <1>4 DEF b
  <2> QED BY <1>2, <1>3, <2>1, <2>2, <2>3, ReplaceSteps
<1>5. CASE UNCHANGED nvVars /\ (pc = "start" => FreeAreaErased)
  <2>1. /\ flash' = flash /\ cache' = cache /\ last' = last /\ total' = total /\ high' = high
    BY <1>5 DEF nvVars
  <2>2. StoreOK'
    BY <1>0, <1>2, <2>1 DEF StoreOK
  <2>3. errors = 0 => high <= total
    <3>1. CASE pc = "start"
      BY <1>1, <1>5, <3>1 DEF FreeAreaErased
    <3>2. CASE pc = "idle"
      BY <1>0, <3>2 DEF Clean
    <3> QED BY <1>2, <3>1, <3>2
  <2>4. Clean' /\ Pointers'
    BY <1>2, <2>1, <2>3 DEF Clean, Pointers, NvPc, FlashPc, WritePc
  <2> QED BY <1>3, <2>2, <2>4 DEF VInv
<1>6. \/ StoreReplaced(ReclaimBuffer(flash, 0, 0))
      \/ UNCHANGED nvVars /\ (pc = "start" => FreeAreaErased)
  <2>1. CASE WriteServiceInitialize
    BY <2>1 DEF WriteServiceInitialize
  <2>2. CASE ReclaimForOS
    BY <2>2 DEF ReclaimForOS
  <2> QED BY <2>1, <2>2
<1> QED BY <1>4, <1>5, <1>6

(* Reclaim has no room for the new variable. *)
LEMMA ReclaimOutOfResourcesStep ==
  ASSUME VInv, ReclaimOutOfResources
  PROVE  VInv'
<1>0. DataOK /\ StoreOK /\ Clean /\ Pointers /\ config.space \in Nat
  BY SpaceNat DEF VInv
<1>1. /\ config' = config /\ flash' = flash /\ cache' = flash /\ last' = last /\ total' = total
      /\ high' = high /\ reclaimed' = reclaimed /\ runtime' = runtime /\ volatile' = volatile
      /\ errors' = errors /\ op' = op /\ pc = "reclaim" /\ pc' = "return" /\ status' = "error"
  BY DEF ReclaimOutOfResources, flashVars, bootVars, used, Return
<1>2. Consistent(flash, flash, last, total, high, config.space)
  BY <1>0, ConsistentCache DEF StoreOK
<1>3. StoreOK'
  BY <1>1, <1>2 DEF StoreOK
<1>4. DataOK'
  BY <1>0, <1>1 DEF DataOK, Pc
<1>5. Clean' /\ Pointers'
  BY <1>0, <1>1 DEF Clean, Pointers, NvPc, FlashPc, WritePc
<1> QED BY <1>3, <1>4, <1>5 DEF VInv

(* The fault tolerant write of Reclaim fails. *)
LEMMA ReclaimFailsSteps ==
  ASSUME VInv, ReclaimFails \/ WriteServiceReclaimFails \/ ReclaimForOSFails
  PROVE  VInv'
<1>0. DataOK /\ StoreOK /\ high \in Nat /\ high <= config.space /\ errors \in Nat
  BY StoreBasics DEF VInv, DataOK
<1>1. FlashError /\ StoreReread
  BY DEF ReclaimFails, WriteServiceReclaimFails, ReclaimForOSFails
<1>2. /\ flash' = flash /\ cache' = flash /\ last' = Len(flash) /\ total' = SizeOf(flash)
      /\ high' = high /\ errors' = errors + 1
  BY <1>1 DEF FlashError, StoreReread, flashVars
<1>3. /\ pc' \in {"idle", "return"} /\ config' = config /\ op' = op /\ volatile' = volatile
      /\ runtime' = runtime /\ (pc' = "return" => pc = "reclaim")
      /\ reclaimed' \in {TRUE, reclaimed} /\ status' \in {"error", status}
  BY DEF ReclaimFails, WriteServiceReclaimFails, ReclaimForOSFails, bootVars, Return
<1>4. errors' \in Nat /\ errors' # 0
  BY <1>0, <1>2
<1>5. DataOK'
  BY <1>0, <1>3, <1>4 DEF DataOK, Pc
<1> QED BY <1>0, <1>2, <1>3, <1>4, <1>5, RereadSteps

(* The machine is restarted. *)
LEMMA RestartStep ==
  ASSUME VInv, NEW torn \in BOOLEAN, Restart(torn)
  PROVE  VInv'
<1>0. DataOK /\ StoreOK /\ Clean
  BY DEF VInv
<1>1. /\ flash' = flash /\ cache' = flash /\ last' = Len(flash) /\ total' = SizeOf(flash)
      /\ config' = config /\ errors' = errors /\ pc' = "start" /\ op' = NoOp /\ volatile' = <<>>
      /\ runtime' = FALSE /\ reclaimed' = FALSE /\ status' = "none"
  BY DEF Restart
<1>2. high \in Nat /\ high <= config.space /\ config.space \in Nat /\ total \in Nat
  BY <1>0, StoreBasics
<1>3. high' \in Nat /\ high' <= config.space
  <2>1. CASE torn
    <3>1. pc = "header" /\ high' = Programmed(1)
      BY <2>1 DEF Restart
    <3>2. NewSize \in Nat /\ NewSize >= 1
      BY <1>0, <3>1, NewRecordProperties
    <3>3. total + 1 <= config.space
      <4>1. total + NewSize <= config.space
        BY <1>0, <3>1 DEF Clean, WritePc
      <4> QED BY <1>2, <3>2, <4>1
    <3> QED BY <1>0, <3>1, <3>3, ProgrammedBounds
  <2>2. CASE ~torn
    BY <1>2, <2>2 DEF Restart
  <2> QED BY <2>1, <2>2
<1>4. op' \in OpType
  <2>1. <<>> \in Value
    BY EmptyIsValue
  <2> QED BY <1>1, <2>1 DEF NoOp, OpType
<1>5. DataOK'
  <2>1. <<>> \in Seq(Record)
    BY SizeOfEmpty
  <2>2. volatile' \in Seq(Record)
    BY <1>1, <2>1
  <2> QED BY <1>0, <1>1, <1>4, <2>2 DEF DataOK, Pc
<1> QED BY <1>1, <1>3, <1>5, RereadSteps

-----------------------------------------------------------------------------
(* The store invariant *)

(* The store starts empty. *)
LEMMA InitVInv == Init => VInv
<1> SUFFICES ASSUME Init PROVE VInv
  OBVIOUS
<1>1. /\ config \in Configs /\ flash = <<>> /\ high = 0 /\ cache = <<>> /\ last = 0 /\ total = 0
      /\ volatile = <<>> /\ runtime = FALSE /\ reclaimed = FALSE /\ pc = "start" /\ op = NoOp
      /\ status = "none" /\ errors = 0
  BY DEF Init
<1>2. op \in OpType
  <2>1. <<>> \in Value
    BY EmptyIsValue
  <2> QED BY <1>1, <2>1 DEF NoOp, OpType
<1>3. DataOK
  <2>1. <<>> \in Seq(Record)
    BY SizeOfEmpty
  <2>2. volatile \in Seq(Record)
    BY <1>1, <2>1
  <2> QED BY <1>1, <1>2, <2>2 DEF DataOK, Pc
<1>4. config.space \in Nat
  BY <1>3, SpaceNat
<1>5. Consistent(<<>>, <<>>, 0, 0, 0, config.space)
  <2> DEFINE e == <<>>
  <2>1. e \in Seq(Record) /\ SizeOf(e) = 0 /\ Len(e) = 0
    BY SizeOfEmpty
  <2>2. SizeOf(e) <= config.space
    BY <1>4, <2>1
  <2> HIDE DEF e
  <2>3. Consistent(e, e, Len(e), SizeOf(e), SizeOf(e), config.space)
    BY <1>4, <2>1, <2>2, ConsistentReplaced
  <2>4. Consistent(e, e, 0, 0, 0, config.space)
    BY <2>1, <2>3
  <2> QED BY <2>4 DEF e
<1>6. StoreOK
  BY <1>1, <1>5 DEF StoreOK
<1>7. Clean /\ Pointers
  BY <1>1 DEF Clean, Pointers, NvPc, FlashPc, WritePc
<1> QED BY <1>3, <1>6, <1>7 DEF VInv

(* Every step keeps the invariant. *)
LEMMA NextVInv == VInv /\ [Next]_vars => VInv'
<1> SUFFICES ASSUME VInv, [Next]_vars PROVE VInv'
  OBVIOUS
<1>1. CASE UNCHANGED vars \/ ReadService \/ Unpredictable \/ Refuse \/ Unchanged \/ ReleaseLock
           \/ WriteFails \/ ExitBootServices \/ ProgramOver
  BY <1>1, QuietSteps DEF ReadService, Unpredictable
<1>2. ASSUME NEW k \in Name, NEW attr \in config.attributes, NEW append \in BOOLEAN,
             NEW d \in Inputs, SetVariable(k, attr, append, d)
      PROVE  VInv'
  BY <1>2, SetVariableStep
<1>3. CASE VolatileDelete \/ VolatileUpdate \/ VolatileReclaim
  BY <1>3, VolatileSteps
<1>4. CASE MarkOld \/ DeleteTransition \/ DeleteCurrent
  BY <1>4, MarkSteps
<1>5. CASE CheckSpace
  BY <1>5, CheckSpaceStep
<1>6. CASE ReclaimWithNew
  BY <1>6, ReclaimWithNewStep
<1>7. CASE ReclaimOutOfResources
  BY <1>7, ReclaimOutOfResourcesStep
<1>8. CASE ReclaimFails \/ WriteServiceReclaimFails \/ ReclaimForOSFails
  BY <1>8, ReclaimFailsSteps
<1>9. CASE WriteHeader \/ SetHeaderValid \/ WriteData
  BY <1>9, WriteSteps
<1>10. CASE SetAdded
  BY <1>10, SetAddedStep
<1>11. CASE WriteServiceInitialize \/ ReclaimForOS
  BY <1>11, ReclaimSteps
<1>12. ASSUME NEW torn \in BOOLEAN, Restart(torn) PROVE VInv'
  BY <1>12, RestartStep
<1> QED BY <1>1, <1>2, <1>3, <1>4, <1>5, <1>6, <1>7, <1>8, <1>9, <1>10, <1>11, <1>12 DEF Next

(* The records on flash, the cache and the sizes fit together, whatever calls,
   restarts and flash errors there were, up to a write whose result on flash is
   unpredictable (ProgramOver). *)
THEOREM StoreInductive == Spec => []VInv
<1>1. Init => VInv
  BY InitVInv
<1>2. VInv /\ [Next]_vars => VInv'
  BY NextVInv
<1> QED BY <1>1, <1>2, PTL DEF Spec

(* The type invariant of the driver. *)
THEOREM VariableTypeCorrect == Spec => []TypeOK
<1>1. VInv => TypeOK
  <2> SUFFICES ASSUME VInv PROVE TypeOK
    OBVIOUS
  <2>0. DataOK /\ StoreOK /\ Pointers
    BY DEF VInv
  <2>1. /\ config.space \in Nat /\ flash \in Seq(Record) /\ cache \in Seq(Record) /\ last \in Nat
        /\ last \in 0 .. Len(flash) /\ total \in Nat /\ total <= config.space
        /\ high \in Nat /\ high <= config.space
    BY <2>0, StoreBasics
  <2>2. op.curr \in Nat /\ op.trans \in Nat /\ op.value \in Value
    BY <2>0 DEF DataOK, OpType
  <2>3. pc \in FlashPc => op.curr <= last /\ op.trans <= last
    BY <2>0, <2>1 DEF Pointers, Points, NvPc
  <2> QED BY <2>0, <2>1, <2>2, <2>3 DEF DataOK, TypeOK
<1> QED BY <1>1, StoreInductive, PTL

(* CommonVariableTotalSize counts the records on flash and nothing runs over the
   end of the store, through crashes, failed writes and reclaims, up to a write over
   what a failed one left (ProgramOver). *)
THEOREM SizesAlwaysKept == Spec => []SizesKept
<1>1. VInv => SizesKept
  BY StoreBasics DEF VInv, SizesKept
<1> QED BY <1>1, StoreInductive, PTL

(* As long as no flash service has failed, a new record goes to erased flash. *)
THEOREM AlwaysProgramsErasedFlash == Spec => []ProgramsErasedFlash
<1>1. VInv => ProgramsErasedFlash
  <2> SUFFICES ASSUME VInv, pc = "header", errors = 0 PROVE high <= SizeOf(Prefix(flash))
    BY DEF ProgramsErasedFlash
  <2>1. total = SizeOf(Prefix(flash))
    BY StoreBasics DEF VInv
  <2>2. high <= total
    BY DEF VInv, Clean
  <2> QED BY <2>1, <2>2
<1> QED BY <1>1, StoreInductive, PTL

(* mNvVariableCache is the store, record by record up to the last one and for
   every name once no call is under way, up to a write over what a failed one left
   (ProgramOver). *)
THEOREM CacheAlwaysMatchesFlash == Spec => []CacheMatchesFlash
<1>1. VInv => CacheMatchesFlash
  <2> SUFFICES ASSUME VInv PROVE CacheMatchesFlash
    OBVIOUS
  <2>1. /\ flash \in Seq(Record) /\ cache \in Seq(Record) /\ last \in Nat
        /\ last \in 0 .. Len(flash) /\ last \in 0 .. Len(cache)
        /\ Settled(flash, last) /\ Settled(cache, last)
        /\ \A i \in 1 .. last : cache[i] = flash[i]
        /\ Prefix(cache) = Prefix(flash)
    BY StoreBasics DEF VInv
  <2>2. last <= Len(flash) /\ last <= Len(cache)
    BY <2>1
  <2>3. \A i \in 1 .. Len(flash) : i > last => ~Live(flash[i])
    BY <2>1 DEF Settled, Live
  <2>4. \A i \in 1 .. Len(cache) : i > last => ~Live(cache[i])
    BY <2>1 DEF Settled, Live
  <2>5. ASSUME NEW k \in Name PROVE ValueIn(cache, k, TRUE) = ValueIn(flash, k, TRUE)
    BY <2>1, <2>2, <2>3, <2>4, ValueInSame
  <2> QED BY <2>1, <2>5 DEF CacheMatchesFlash
<1> QED BY <1>1, StoreInductive, PTL

-----------------------------------------------------------------------------
(* No variable is in both stores *)

(* A variable being written to one store has no live record in the other. *)
Adding == NvPc \ {"delTrans", "delCurr"}
Apart ==
  /\ pc \in Adding => ~Has(volatile, op.name)
  /\ pc = "volatile" => ~Has(cache, op.name)
  /\ \A k \in Name : ~(Has(volatile, k) /\ Has(cache, k))

(* The names with a live record are the same on flash and in the cache. *)
LEMMA HasFlash ==
  ASSUME DataOK, StoreOK, NEW k
  PROVE  Has(flash, k) <=> Has(cache, k)
<1>1. /\ last \in Nat /\ last \in 0 .. Len(flash) /\ last \in 0 .. Len(cache)
      /\ flash \in Seq(Record) /\ cache \in Seq(Record)
      /\ Settled(flash, last) /\ Settled(cache, last)
      /\ \A i \in 1 .. last : cache[i] = flash[i]
  BY StoreBasics
<1>2. \A i \in 1 .. Len(flash) : Live(flash[i]) => i \in 1 .. last
  BY <1>1 DEF Settled, Live
<1>3. \A i \in 1 .. Len(cache) : Live(cache[i]) => i \in 1 .. last
  BY <1>1 DEF Settled, Live
<1>4. \A i \in 1 .. last : i \in 1 .. Len(flash) /\ i \in 1 .. Len(cache)
  BY <1>1
<1> QED BY <1>1, <1>2, <1>3, <1>4 DEF Has

(* Marking a record of variable k0 makes no other name live, and deleting none. *)
LEMMA HasMarked ==
  ASSUME NEW log \in Seq(Record), NEW L, NEW i, NEW s, Marked(L, log, i, s), NEW k0,
         i \in 1 .. Len(log) => log[i].name = k0, NEW k, Has(L, k)
  PROVE  /\ Has(log, k) \/ k = k0
         /\ s = "deleted" => Has(log, k)
<1>1. PICK j \in 1 .. Len(L) : L[j].name = k /\ Live(L[j])
  BY DEF Has
<1>2. j \in 1 .. Len(log) /\ log[j].name = k
  BY <1>1 DEF Marked
<1>3. CASE j = i
  <2>1. s # "deleted"
    BY <1>1, <1>2, <1>3 DEF Marked, Live
  <2> QED BY <1>2, <1>3, <2>1
<1>4. CASE j # i
  BY <1>1, <1>2, <1>4 DEF Marked, Has
<1> QED BY <1>3, <1>4

(* Deleting a record makes no name live. *)
LEMMA HasDeleted ==
  ASSUME NEW log \in Seq(Record), NEW L, NEW i, Marked(L, log, i, "deleted"), NEW k, Has(L, k)
  PROVE  Has(log, k)
<1>1. PICK j \in 1 .. Len(L) : L[j].name = k /\ Live(L[j])
  BY DEF Has
<1>2. j \in 1 .. Len(log) /\ log[j].name = k /\ j # i
  BY <1>1 DEF Marked, Live
<1>3. L[j] = log[j]
  BY <1>2 DEF Marked
<1> QED BY <1>1, <1>2, <1>3 DEF Has

(* A record more makes its own name live. *)
LEMMA HasAppend ==
  ASSUME NEW log \in Seq(Record), NEW r \in Record, NEW k, Has(Append(log, r), k)
  PROVE  Has(log, k) \/ k = r.name
<1> DEFINE a == Append(log, r)
<1>1. PICK j \in 1 .. Len(a) : a[j].name = k /\ Live(a[j])
  BY DEF Has
<1>2. j \in 1 .. Len(log) + 1
  BY <1>1
<1>3. CASE j = Len(log) + 1
  BY <1>1, <1>3
<1>4. CASE j \in 1 .. Len(log)
  BY <1>1, <1>4 DEF Has
<1> QED BY <1>2, <1>3, <1>4

(* A prefix has no other names. *)
LEMMA HasPrefix ==
  ASSUME NEW log \in Seq(Record), NEW m \in 0 .. Len(log), NEW k, Has(SubSeq(log, 1, m), k)
  PROVE  Has(log, k)
<1> DEFINE p == SubSeq(log, 1, m)
<1>1. Len(p) = m /\ \A i \in 1 .. m : p[i] = log[i]
  BY PrefixProperties
<1>2. Has(p, k)
  OBVIOUS
<1> HIDE DEF p
<1>3. PICK j \in 1 .. Len(p) : p[j].name = k /\ Live(p[j])
  BY <1>2 DEF Has
<1>4. j \in 1 .. Len(log) /\ log[j] = p[j]
  BY <1>1, <1>3
<1> QED BY <1>3, <1>4 DEF Has

(* Reclaim makes no name live. *)
LEMMA HasBuffer ==
  ASSUME NEW log \in Seq(Record), NEW curr, NEW trans, NEW k,
         Has(ReclaimBuffer(log, curr, trans), k)
  PROVE  Has(log, k)
<1> DEFINE b == ReclaimBuffer(log, curr, trans)
<1>1. FromLog(b, log, curr, trans)
  BY ReclaimBufferProperties
<1>2. PICK j \in 1 .. Len(b) : b[j].name = k
  BY DEF Has
<1> HIDE DEF b
<1>3. \E i \in 1 .. Len(log) : Live(log[i]) /\ log[i].name = b[j].name
  BY <1>1, <1>2 DEF FromLog
<1> QED BY <1>2, <1>3 DEF Has

(* Nothing is live in an empty log. *)
LEMMA HasEmpty == \A k : ~Has(<<>>, k)
BY DEF Has

(* A step that leaves the volatile store alone and gives no variable a record but
   the one it is adding. *)
LEMMA ApartNv ==
  ASSUME Apart, volatile' = volatile,
         pc' \in Adding => pc \in Adding /\ op'.name = op.name,
         pc' # "volatile",
         \A k \in Name : Has(cache', k) => Has(cache, k) \/ (pc \in Adding /\ k = op.name)
  PROVE  Apart'
<1>1. pc' \in Adding => ~Has(volatile', op'.name)
  BY DEF Apart
<1>2. ASSUME NEW k \in Name, Has(volatile', k), Has(cache', k) PROVE FALSE
  <2>1. Has(volatile, k)
    BY <1>2
  <2>2. Has(cache, k) \/ (pc \in Adding /\ k = op.name)
    BY <1>2
  <2> QED BY <2>1, <2>2 DEF Apart
<1>3. (pc \in Adding)' <=> pc' \in Adding
  BY DEF Adding, NvPc, FlashPc
<1> QED BY <1>1, <1>2, <1>3 DEF Apart

(* The names the cache has after a step. *)
LEMMA CacheNames ==
  ASSUME VInv, [Next]_vars, NEW k, Has(cache', k)
  PROVE  Has(cache, k) \/ (pc \in Adding /\ k = op.name)
<1>0. DataOK /\ StoreOK /\ Pointers
  BY DEF VInv
<1>1. /\ flash \in Seq(Record) /\ cache \in Seq(Record) /\ last \in Nat
      /\ last \in 0 .. Len(flash) /\ last \in 0 .. Len(cache)
      /\ \A i \in 1 .. last : cache[i] = flash[i]
  BY <1>0, StoreBasics
<1>2. CASE cache' = cache
  BY <1>2
<1>3. CASE cache' = flash
  BY <1>0, <1>3, HasFlash
<1>4. CASE cache' = ReclaimBuffer(flash, 0, 0)
  <2>1. Has(flash, k)
    BY <1>1, <1>4, HasBuffer
  <2> QED BY <1>0, <2>1, HasFlash
<1>5. CASE ReclaimWithNew
  <2>1. cache' = Append(Buffer, NewRecord("added")) /\ pc = "reclaim"
    BY <1>5 DEF ReclaimWithNew, StoreReplaced
  <2>2. NewRecord("added") \in Record /\ NewRecord("added").name = op.name
    <3>1. pc \notin {"start", "idle"} /\ "added" \in State
      BY <2>1 DEF State
    <3> QED BY <1>0, <3>1, NewRecordProperties
  <2>3. Buffer \in Seq(Record)
    BY <1>1, ReclaimBufferProperties DEF Buffer
  <2>4. Has(Buffer, k) \/ k = op.name
    BY <2>1, <2>2, <2>3, HasAppend
  <2>5. pc \in Adding
    BY <2>1 DEF Adding, NvPc
  <2>6. CASE Has(Buffer, k)
    <3>1. Has(flash, k)
      BY <1>1, <2>6, HasBuffer DEF Buffer
    <3> QED BY <1>0, <3>1, HasFlash
  <2> QED BY <2>4, <2>5, <2>6
<1>6. CASE SetAdded
  <2>1. cache' = Append(Prefix(cache), NewRecord("added")) /\ pc = "added"
    BY <1>6 DEF SetAdded
  <2>2. NewRecord("added") \in Record /\ NewRecord("added").name = op.name
    <3>1. pc \notin {"start", "idle"} /\ "added" \in State
      BY <2>1 DEF State
    <3> QED BY <1>0, <3>1, NewRecordProperties
  <2>3. Prefix(cache) \in Seq(Record)
    BY <1>1, PrefixProperties DEF Prefix
  <2>4. Has(Prefix(cache), k) \/ k = op.name
    BY <2>1, <2>2, <2>3, HasAppend
  <2>5. pc \in Adding
    BY <2>1 DEF Adding, NvPc, FlashPc
  <2>6. Has(Prefix(cache), k) => Has(cache, k)
    BY <1>1, HasPrefix DEF Prefix
  <2> QED BY <2>4, <2>5, <2>6
<1>7. CASE MarkOld \/ DeleteTransition \/ DeleteCurrent
  <2>1. PICK i \in {op.curr, op.trans}, s \in {"inDeleted", "deleted"} :
          MarkState(i, s) /\ (s = "inDeleted" => pc = "markOld")
    BY <1>7 DEF MarkOld, DeleteTransition, DeleteCurrent
  <2>2. pc \in {"markOld", "delTrans", "delCurr"}
    BY <1>7 DEF MarkOld, DeleteTransition, DeleteCurrent
  <2>3. Points(flash, last, op.name, i)
    BY <1>0, <2>1, <2>2 DEF Pointers, NvPc, FlashPc
  <2>4. i \in 0 .. Len(cache) /\ (i \in 1 .. Len(cache) => cache[i].name = op.name)
    BY <1>1, <2>3 DEF Points
  <2>5. s \in State \ {"blank"}
    BY DEF State
  <2>6. cache' = SetState(cache, i, s)
    BY <2>1 DEF MarkState
  <2>7. Marked(cache', cache, i, s)
    BY <1>1, <2>4, <2>5, <2>6, SetStateProperties
  <2>8. (Has(cache, k) \/ k = op.name) /\ (s = "deleted" => Has(cache, k))
    BY <1>1, <2>4, <2>7, HasMarked
  <2>9. s = "inDeleted" => pc \in Adding
    BY <2>1 DEF Adding, NvPc, FlashPc
  <2> QED BY <2>8, <2>9
<1>8. \/ cache' = cache \/ cache' = flash \/ cache' = ReclaimBuffer(flash, 0, 0)
      \/ ReclaimWithNew \/ SetAdded \/ MarkOld \/ DeleteTransition \/ DeleteCurrent
  <2>1. CASE UNCHANGED vars
    BY <2>1 DEF vars, nvVars
  <2>2. CASE Next
    <3>1. CASE ReadService \/ Unpredictable \/ Refuse \/ Unchanged \/ ReleaseLock \/ CheckSpace
               \/ WriteFails \/ ExitBootServices \/ ProgramOver
      BY <3>1 DEF ReadService, Unpredictable, Refuse, Unchanged, ReleaseLock, CheckSpace,
         WriteFails, ExitBootServices, ProgramOver, vars, nvVars
    <3>2. ASSUME NEW n, NEW attr, NEW append, NEW d, SetVariable(n, attr, append, d)
          PROVE  cache' = cache
      BY <3>2 DEF SetVariable, nvVars
    <3>3. CASE VolatileDelete \/ VolatileUpdate \/ VolatileReclaim
      BY <3>3 DEF VolatileDelete, VolatileUpdate, VolatileReclaim, nvVars
    <3>4. CASE ReclaimOutOfResources \/ ReclaimFails \/ WriteServiceReclaimFails \/ ReclaimForOSFails
      BY <3>4 DEF ReclaimOutOfResources, ReclaimFails, WriteServiceReclaimFails,
         ReclaimForOSFails, StoreReread
    <3>5. CASE WriteHeader \/ SetHeaderValid \/ WriteData
      BY <3>5 DEF WriteHeader, SetHeaderValid, WriteData
    <3>6. CASE WriteServiceInitialize \/ ReclaimForOS
      BY <3>6 DEF WriteServiceInitialize, ReclaimForOS, StoreReplaced, nvVars
    <3>7. ASSUME NEW torn, Restart(torn) PROVE cache' = flash
      BY <3>7 DEF Restart
    <3> QED BY <2>2, <3>1, <3>2, <3>3, <3>4, <3>5, <3>6, <3>7 DEF Next
  <2> QED BY <2>1, <2>2
<1> QED BY <1>2, <1>3, <1>4, <1>5, <1>6, <1>7, <1>8

(* A call on the volatile store gives no name a record there but its own. *)
LEMMA VolatileNames ==
  ASSUME VInv, VolatileDelete \/ VolatileUpdate \/ VolatileReclaim, NEW k, Has(volatile', k)
  PROVE  Has(volatile, k) \/ (pc = "volatile" /\ k = op.name)
<1>0. DataOK /\ StoreOK /\ Pointers
  BY DEF VInv
<1>1. pc \in {"volatile", "volatileDelete"}
  BY DEF VolatileDelete, VolatileUpdate, VolatileReclaim
<1>2. /\ volatile \in Seq(Record) /\ op.curr \in 0 .. Len(volatile) /\ op.trans \in 0 .. Len(volatile)
      /\ (op.curr # 0 => volatile[op.curr].name = op.name)
      /\ (op.trans # 0 => volatile[op.trans].name = op.name)
  BY <1>0, <1>1 DEF DataOK, Pointers, Points
<1>3. NewRecord("added") \in Record /\ NewRecord("added").name = op.name
  <2>1. "added" \in State /\ pc \notin {"start", "idle"}
    BY <1>1 DEF State
  <2> QED BY <1>0, <2>1, NewRecordProperties
<1>4. "deleted" \in State \ {"blank"} /\ "inDeleted" \in State \ {"blank"}
  BY DEF State
<1>5. ASSUME NEW log \in Seq(Record), op.curr \in 0 .. Len(log), op.trans \in 0 .. Len(log),
             (op.curr # 0 => log[op.curr].name = op.name),
             (op.trans # 0 => log[op.trans].name = op.name), Has(MarkedDeleted(log), k)
      PROVE  Has(log, k)
  <2> DEFINE M == SetState(log, op.trans, "deleted")
             N == SetState(M, op.curr, "deleted")
  <2>1. Marked(M, log, op.trans, "deleted")
    BY <1>4, <1>5, SetStateProperties
  <2>2. N = MarkedDeleted(log)
    BY DEF MarkedDeleted
  <2> HIDE DEF M
  <2>3. M \in Seq(Record) /\ op.curr \in 0 .. Len(M)
    BY <1>5, <2>1 DEF Marked
  <2>4. Marked(N, M, op.curr, "deleted")
    BY <1>4, <2>3, SetStateProperties
  <2> HIDE DEF N
  <2>5. Has(M, k)
    BY <1>5, <2>2, <2>3, <2>4, HasDeleted
  <2> QED BY <2>1, <2>5, HasDeleted
<1>6. CASE VolatileDelete
  <2>1. volatile' = MarkedDeleted(volatile)
    BY <1>6 DEF VolatileDelete
  <2> QED BY <1>2, <1>5, <2>1
<1>7. CASE VolatileUpdate
  <2> DEFINE a == Append(volatile, NewRecord("added"))
  <2>1. volatile' = MarkedDeleted(a) /\ pc = "volatile"
    BY <1>7 DEF VolatileUpdate
  <2>2. /\ a \in Seq(Record) /\ op.curr \in 0 .. Len(a) /\ op.trans \in 0 .. Len(a)
        /\ (op.curr # 0 => a[op.curr].name = op.name)
        /\ (op.trans # 0 => a[op.trans].name = op.name)
    BY <1>2, <1>3
  <2>3. Has(a, k) => Has(volatile, k) \/ k = op.name
    BY <1>2, <1>3, HasAppend
  <2> HIDE DEF a
  <2>4. Has(a, k)
    BY <1>5, <2>1, <2>2
  <2> QED BY <2>1, <2>3, <2>4
<1>8. CASE VolatileReclaim
  <2> DEFINE marked == SetState(volatile, op.curr, "inDeleted")
             buffer == ReclaimBuffer(marked, op.curr, op.trans)
  <2>1. (volatile' = Append(buffer, NewRecord("added")) \/ volatile' = marked) /\ pc = "volatile"
    BY <1>8 DEF VolatileReclaim
  <2>2. Marked(marked, volatile, op.curr, "inDeleted")
    BY <1>2, <1>4, SetStateProperties
  <2> HIDE DEF marked
  <2>3. marked \in Seq(Record)
    BY <2>2 DEF Marked
  <2>4. op.curr \in 1 .. Len(volatile) => volatile[op.curr].name = op.name
    BY <1>2
  <2>5. Has(marked, k) => Has(volatile, k) \/ k = op.name
    BY <1>2, <2>2, <2>4, HasMarked
  <2>6. buffer \in Seq(Record)
    BY <2>3, ReclaimBufferProperties
  <2>7. Has(buffer, k) => Has(marked, k)
    BY <2>3, HasBuffer
  <2> HIDE DEF buffer
  <2>8. Has(Append(buffer, NewRecord("added")), k) => Has(buffer, k) \/ k = op.name
    BY <1>3, <2>6, HasAppend
  <2> QED BY <2>1, <2>5, <2>7, <2>8
<1> QED BY <1>6, <1>7, <1>8

(* Every step keeps the two stores apart. *)
LEMMA NextApart == VInv /\ Apart /\ [Next]_vars => Apart'
<1> SUFFICES ASSUME VInv, Apart, [Next]_vars PROVE Apart'
  OBVIOUS
<1>0. DataOK /\ StoreOK
  BY DEF VInv
<1>1. \A k \in Name : Has(cache', k) => Has(cache, k) \/ (pc \in Adding /\ k = op.name)
  BY CacheNames
<1>2. CASE UNCHANGED vars \/ ReadService \/ Unpredictable
  <2>1. volatile' = volatile /\ cache' = cache /\ pc' = pc /\ op' = op
    BY <1>2 DEF ReadService, Unpredictable, vars, nvVars
  <2> QED BY <2>1 DEF Apart
<1>3. CASE VolatileDelete \/ VolatileUpdate \/ VolatileReclaim
  <2>1. cache' = cache /\ pc' = "return"
    BY <1>3 DEF VolatileDelete, VolatileUpdate, VolatileReclaim, nvVars, Return
  <2>2. \A k \in Name : Has(volatile', k) => Has(volatile, k) \/ (pc = "volatile" /\ k = op.name)
    BY <1>3, VolatileNames
  <2>3. \A k \in Name : ~(Has(volatile', k) /\ Has(cache', k))
    BY <2>1, <2>2 DEF Apart
  <2> QED BY <2>1, <2>3 DEF Apart, Adding, NvPc, FlashPc
<1>4. ASSUME NEW k \in Name, NEW attr \in config.attributes, NEW append \in BOOLEAN,
             NEW d \in Inputs, SetVariable(k, attr, append, d)
      PROVE  Apart'
  <2> DEFINE f == FindVariable(k, TRUE)
  <2>1. /\ FoundOK(f, k)
        /\ pc' \in {"refused", "unchanged", "volatileDelete", "volatile", "markOld", "delTrans",
                    "delCurr", "space"}
        /\ pc' \in {"markOld", "delTrans", "delCurr"} => f.nv /\ f.curr # 0
        /\ pc' = "space" => f.nv /\ f.curr = 0
        /\ pc' = "volatile" => f.curr = 0 \/ ~f.nv
        /\ op'.name = k
    BY <1>4, SetVariableStart
  <2>2. volatile' = volatile /\ cache' = cache
    BY <1>4 DEF SetVariable, nvVars
  <2> HIDE DEF f
  <2>3. pc' \in Adding => ~Has(volatile, k)
    BY <2>1 DEF FoundOK, Adding, NvPc, FlashPc
  <2>4. pc' = "volatile" => ~Has(cache, k)
    BY <2>1 DEF FoundOK, Apart
  <2> QED BY <2>1, <2>2, <2>3, <2>4 DEF Apart
<1>5. ASSUME NEW torn \in BOOLEAN, Restart(torn) PROVE Apart'
  <2>1. volatile' = <<>> /\ pc' = "start"
    BY <1>5 DEF Restart
  <2> QED BY <2>1, HasEmpty DEF Apart
<1>6. CASE Refuse \/ Unchanged \/ ReleaseLock \/ WriteFails \/ ExitBootServices \/ ProgramOver
           \/ DeleteTransition \/ DeleteCurrent \/ ReclaimWithNew \/ ReclaimOutOfResources
           \/ ReclaimFails \/ SetAdded \/ WriteServiceInitialize \/ WriteServiceReclaimFails
           \/ ReclaimForOS \/ ReclaimForOSFails
  <2>1. volatile' = volatile /\ pc' \in {"return", "idle", "delTrans", "delCurr", "unpredictable"}
    <3>1. CASE Refuse \/ Unchanged \/ ReleaseLock \/ WriteFails \/ ExitBootServices \/ ProgramOver
      BY <3>1 DEF Refuse, Unchanged, ReleaseLock, WriteFails, ExitBootServices, ProgramOver, Return
    <3>2. CASE DeleteTransition \/ DeleteCurrent \/ ReclaimWithNew \/ ReclaimOutOfResources
           \/ ReclaimFails \/ SetAdded
      BY <3>2 DEF DeleteTransition, DeleteCurrent, ReclaimWithNew, ReclaimOutOfResources,
         ReclaimFails, SetAdded, Return
    <3>3. CASE WriteServiceInitialize \/ WriteServiceReclaimFails \/ ReclaimForOS \/ ReclaimForOSFails
      BY <3>3 DEF WriteServiceInitialize, WriteServiceReclaimFails, ReclaimForOS, ReclaimForOSFails
    <3> QED BY <1>6, <3>1, <3>2, <3>3
  <2>2. pc' \notin Adding /\ pc' # "volatile"
    BY <2>1 DEF Adding, NvPc, FlashPc
  <2> QED BY <1>1, <2>1, <2>2, ApartNv
<1>7. CASE MarkOld \/ CheckSpace \/ WriteHeader \/ SetHeaderValid \/ WriteData
  <2>1. /\ volatile' = volatile /\ op' = op
        /\ pc \in {"markOld", "space", "header", "headerValid", "data"} /\ pc' # "volatile"
    BY <1>7 DEF MarkOld, CheckSpace, WriteHeader, SetHeaderValid, WriteData, Return
  <2>2. pc \in Adding
    BY <2>1 DEF Adding, NvPc, FlashPc
  <2> QED BY <1>1, <2>1, <2>2, ApartNv
<1> QED BY <1>2, <1>3, <1>4, <1>5, <1>6, <1>7 DEF Next

(* A name never has a value in the volatile and in the non-volatile store at once,
   across updates, reclaims, failures and restarts. *)
THEOREM AlwaysOneStorePerName == Spec => []OneStorePerName
<1>1. Init => Apart
  <2> SUFFICES ASSUME Init PROVE Apart
    OBVIOUS
  <2>1. volatile = <<>> /\ pc = "start"
    BY DEF Init
  <2> QED BY <2>1, HasEmpty DEF Apart, Adding, NvPc, FlashPc
<1>2. VInv /\ Apart /\ [Next]_vars => Apart'
  BY NextApart
<1>3. VInv /\ Apart => OneStorePerName
  <2> SUFFICES ASSUME VInv, Apart, NEW k \in Name,
                      ValueIn(volatile, k, TRUE) # <<>>, ValueIn(cache, k, TRUE) # <<>>
               PROVE  FALSE
    BY DEF OneStorePerName
  <2>1. volatile \in Seq(Record) /\ cache \in Seq(Record)
    BY DEF VInv, DataOK, StoreOK, Consistent
  <2>2. Has(volatile, k) /\ Has(cache, k)
    BY <2>1, ValueHas
  <2> QED BY <2>2 DEF Apart
<1> QED BY <1>1, <1>2, <1>3, StoreInductive, PTL DEF Spec

-----------------------------------------------------------------------------
(* One ADDED record of a name *)

NoneAdded(log, k) == \A i \in 1 .. Len(log) : log[i].name = k => log[i].state # "added"
OnlyAdded(log, k, c) ==
  \A i \in 1 .. Len(log) : log[i].name = k /\ log[i].state = "added" => i = c

(* The states of a call in which the old record has been taken out of VAR_ADDED and
   the new one is not there yet. *)
Between == WritePc \union {"space", "reclaim"}

AInv ==
  ~twin =>
    /\ OneAdded(flash)
    /\ pc \in Between => NoneAdded(flash, op.name)
    /\ pc = "markOld" => OnlyAdded(flash, op.name, op.curr)

(* L is the first n records of log and one more, r. *)
Extended(L, log, n, r) ==
  /\ L \in Seq(Record) /\ n \in 0 .. Len(log) /\ Len(L) = n + 1
  /\ \A i \in 1 .. n : L[i] = log[i]
  /\ L[n + 1] = r

(* The new record is put behind the last one. *)
LEMMA AtLastExtends ==
  ASSUME DataOK, StoreOK, pc \in WritePc, NEW s \in State
  PROVE  /\ Extended(AtLast(s), flash, last, NewRecord(s))
         /\ NewRecord(s).state = s /\ NewRecord(s).name = op.name
<1> DEFINE r == NewRecord(s)
           p == Prefix(flash)
<1>1. /\ last \in Nat /\ last \in 0 .. Len(flash) /\ p \in Seq(Record) /\ Len(p) = last
      /\ \A i \in 1 .. last : p[i] = flash[i]
  BY StoreBasics
<1>2. r \in Record /\ r.state = s /\ r.name = op.name
  <2>1. pc \notin {"start", "idle"}
    BY DEF WritePc
  <2> QED BY <2>1, NewRecordProperties
<1>3. AtLast(s) = Append(p, r)
  BY DEF AtLast
<1> HIDE DEF p, r
<1>4. /\ Append(p, r) \in Seq(Record) /\ Len(Append(p, r)) = last + 1
      /\ \A i \in 1 .. last : Append(p, r)[i] = p[i]
      /\ Append(p, r)[last + 1] = r
  BY <1>1, <1>2
<1>5. Extended(AtLast(s), flash, last, r)
  BY <1>1, <1>3, <1>4 DEF Extended
<1> QED BY <1>2, <1>5 DEF r

(* Marking a record with another state adds no ADDED record. *)
LEMMA AddedMarked ==
  ASSUME NEW log \in Seq(Record), NEW L, NEW i, NEW s, Marked(L, log, i, s), s # "added"
  PROVE  /\ OneAdded(log) => OneAdded(L)
         /\ \A k : OnlyAdded(log, k, i) => NoneAdded(L, k)
<1>1. \A j \in 1 .. Len(L) : L[j].state = "added" => j \in 1 .. Len(log) /\ j # i /\ log[j] = L[j]
  BY DEF Marked
<1>2. OneAdded(log) => OneAdded(L)
  BY <1>1 DEF OneAdded
<1>3. ASSUME NEW k, OnlyAdded(log, k, i) PROVE NoneAdded(L, k)
  BY <1>1, <1>3 DEF OnlyAdded, NoneAdded
<1> QED BY <1>2, <1>3

(* A further record, ADDED only if its name has no ADDED record. *)
LEMMA AddedExtended ==
  ASSUME NEW log \in Seq(Record), NEW L, NEW n, NEW r, Extended(L, log, n, r)
  PROVE  /\ OneAdded(log) /\ (r.state = "added" => NoneAdded(log, r.name)) => OneAdded(L)
         /\ r.state # "added" => \A k : NoneAdded(log, k) => NoneAdded(L, k)
<1>1. n \in Nat /\ n <= Len(log)
  BY DEF Extended
<1>2. \A j \in 1 .. Len(L) : j = n + 1 \/ j \in 1 .. n
  BY <1>1 DEF Extended
<1>3. \A j \in 1 .. n : j \in 1 .. Len(log) /\ L[j] = log[j]
  BY <1>1 DEF Extended
<1>4. L[n + 1] = r
  BY DEF Extended
<1>5. ASSUME OneAdded(log), r.state = "added" => NoneAdded(log, r.name) PROVE OneAdded(L)
  <2> SUFFICES ASSUME NEW i \in 1 .. Len(L), NEW j \in 1 .. Len(L), L[i].name = L[j].name,
                      L[i].state = "added", L[j].state = "added"
               PROVE  i = j
    BY DEF OneAdded
  <2>1. CASE i = n + 1 /\ j \in 1 .. n
    BY <1>3, <1>4, <1>5, <2>1 DEF NoneAdded
  <2>2. CASE j = n + 1 /\ i \in 1 .. n
    BY <1>3, <1>4, <1>5, <2>2 DEF NoneAdded
  <2>3. CASE i \in 1 .. n /\ j \in 1 .. n
    BY <1>3, <1>5, <2>3 DEF OneAdded
  <2> QED BY <1>2, <2>1, <2>2, <2>3
<1>6. ASSUME r.state # "added", NEW k, NoneAdded(log, k) PROVE NoneAdded(L, k)
  BY <1>2, <1>3, <1>4, <1>6 DEF NoneAdded
<1> QED BY <1>5, <1>6

(* A log with a record appended extends all of it. *)
LEMMA AppendExtends ==
  ASSUME NEW log \in Seq(Record), NEW r \in Record
  PROVE  Extended(Append(log, r), log, Len(log), r)
BY DEF Extended

(* Every step keeps it. *)
LEMMA NextAInv == VInv /\ AInv /\ [Next]_vars => AInv'
<1> SUFFICES ASSUME VInv, AInv, [Next]_vars, ~twin' PROVE AInv'
  BY DEF AInv
<1>0. DataOK /\ StoreOK /\ Pointers
  BY DEF VInv
<1>1. flash \in Seq(Record)
  BY <1>0, StoreBasics
<1>2. ~twin
  <2>1. CASE ReclaimWithNew
    BY <2>1 DEF ReclaimWithNew
  <2>2. CASE twin' = twin
    BY <2>2
  <2>3. twin' = twin \/ ReclaimWithNew
    <3>1. CASE UNCHANGED vars \/ ReadService \/ Unpredictable \/ ProgramOver
      BY <3>1 DEF ReadService, Unpredictable, ProgramOver, vars, used
    <3>2. ASSUME NEW n, NEW attr, NEW append, NEW d, SetVariable(n, attr, append, d)
          PROVE  twin' = twin
      BY <3>2 DEF SetVariable
    <3>3. ASSUME NEW torn, Restart(torn) PROVE twin' = twin
      BY <3>3 DEF Restart
    <3>4. CASE Refuse \/ Unchanged \/ ReleaseLock \/ VolatileDelete \/ VolatileUpdate
               \/ VolatileReclaim \/ MarkOld \/ CheckSpace \/ ReclaimOutOfResources
      BY <3>4 DEF Refuse, Unchanged, ReleaseLock, VolatileDelete, VolatileUpdate,
         VolatileReclaim, MarkOld, CheckSpace, ReclaimOutOfResources, used
    <3>5. CASE WriteHeader \/ SetHeaderValid \/ WriteData \/ SetAdded \/ DeleteTransition
               \/ DeleteCurrent \/ WriteServiceInitialize \/ ReclaimForOS \/ ExitBootServices
      BY <3>5 DEF WriteHeader, SetHeaderValid, WriteData, SetAdded, DeleteTransition,
         DeleteCurrent, WriteServiceInitialize, ReclaimForOS, ExitBootServices, used
    <3>6. CASE ReclaimFails \/ WriteFails \/ WriteServiceReclaimFails \/ ReclaimForOSFails
      BY <3>6 DEF ReclaimFails, WriteFails, WriteServiceReclaimFails, ReclaimForOSFails, FlashError
    <3> QED BY <3>1, <3>2, <3>3, <3>4, <3>5, <3>6 DEF Next
  <2> QED BY <2>1, <2>2, <2>3
<1>3. /\ OneAdded(flash)
      /\ pc \in Between => NoneAdded(flash, op.name)
      /\ pc = "markOld" => OnlyAdded(flash, op.name, op.curr)
  BY <1>2 DEF AInv
(* Steps that leave the log alone and end the call. *)
<1>4. CASE flash' = flash /\ pc' \notin Between /\ pc' # "markOld"
  BY <1>3, <1>4 DEF AInv, Between, WritePc
<1>5. CASE UNCHANGED vars \/ ReadService \/ Unpredictable \/ ProgramOver \/ CheckSpace \/ WriteData
  <2>1. /\ flash' = flash /\ op' = op
        /\ pc' = pc \/ (pc \in Between /\ pc' # "markOld")
    BY <1>5 DEF vars, nvVars, ReadService, Unpredictable, ProgramOver, CheckSpace, WriteData,
       Between, WritePc, Return
  <2>2. pc' \in Between => NoneAdded(flash, op.name)
    BY <1>3, <2>1
  <2> QED BY <1>3, <2>1, <2>2 DEF AInv, Between, WritePc
<1>6. ASSUME NEW k \in Name, NEW attr \in config.attributes, NEW append \in BOOLEAN,
             NEW d \in Inputs, SetVariable(k, attr, append, d)
      PROVE  AInv'
  <2> DEFINE f == FindVariable(k, TRUE)
  <2>1. /\ FoundOK(f, k)
        /\ pc' \in {"refused", "unchanged", "volatileDelete", "volatile", "markOld", "delTrans",
                    "delCurr", "space"}
        /\ pc' \in {"markOld", "delTrans", "delCurr"} => f.nv /\ f.curr # 0
        /\ pc' = "space" => f.nv /\ f.curr = 0
        /\ op'.name = k /\ op'.curr = f.curr
    BY <1>6, SetVariableStart
  <2>2. flash' = flash
    BY <1>6 DEF SetVariable, nvVars
  <2> HIDE DEF f
  <2>3. pc' = "space" => NoneAdded(flash, k)
    <3> SUFFICES ASSUME pc' = "space" PROVE NoneAdded(flash, k)
      OBVIOUS
    <3>1. ~Has(cache, k)
      BY <2>1 DEF FoundOK
    <3>2. ~Has(flash, k)
      BY <1>0, <3>1, HasFlash
    <3> QED BY <3>2 DEF Has, Live, NoneAdded
  <2>4. pc' = "markOld" => OnlyAdded(flash, k, f.curr)
    <3> SUFFICES ASSUME pc' = "markOld", NEW i \in 1 .. Len(flash), flash[i].name = k,
                        flash[i].state = "added"
                 PROVE  i = f.curr
      BY DEF OnlyAdded
    <3>1. /\ last \in Nat /\ last \in 0 .. Len(flash) /\ last \in 0 .. Len(cache)
          /\ Settled(flash, last) /\ \A j \in 1 .. last : cache[j] = flash[j]
      BY <1>0, StoreBasics
    <3>2. i \in 1 .. last
      BY <1>1, <3>1 DEF Settled
    <3>3. i \in 1 .. Len(cache) /\ cache[i] = flash[i]
      BY <3>1, <3>2
    <3>4. f.curr # 0 /\ cache[f.curr].state = "added"
      BY <2>1, <3>3 DEF FoundOK
    <3>5. Found(cache, k, f.curr)
      BY <2>1 DEF FoundOK
    <3>6. Points(flash, last, k, f.curr) /\ flash[f.curr] = cache[f.curr]
      BY <1>0, <3>4, <3>5, FoundPoints
    <3>7. f.curr \in 1 .. Len(flash) /\ flash[f.curr].name = k
      BY <3>1, <3>4, <3>6 DEF Points
    <3> QED BY <1>3, <3>4, <3>6, <3>7 DEF OneAdded
  <2>5. pc' \in Between => pc' = "space"
    BY <2>1 DEF Between, WritePc
  <2> QED BY <1>3, <2>1, <2>2, <2>3, <2>4, <2>5 DEF AInv, Between, WritePc
<1>7. CASE MarkOld \/ DeleteTransition \/ DeleteCurrent
  <2>1. PICK i \in {op.curr, op.trans}, s \in {"inDeleted", "deleted"} :
          MarkState(i, s) /\ (pc = "markOld" => i = op.curr)
    BY <1>7 DEF MarkOld, DeleteTransition, DeleteCurrent
  <2>2. /\ pc \in {"markOld", "delTrans", "delCurr"} /\ pc' # "markOld"
        /\ pc' \in Between => pc = "markOld" /\ op' = op
    BY <1>7 DEF MarkOld, DeleteTransition, DeleteCurrent, Return, Between, WritePc
  <2>3. Points(flash, last, op.name, i)
    BY <1>0, <2>1, <2>2 DEF Pointers, NvPc, FlashPc
  <2>4. i \in 0 .. Len(flash)
    <3>1. last \in Nat /\ last \in 0 .. Len(flash)
      BY <1>0, StoreBasics
    <3> QED BY <1>1, <2>3, <3>1 DEF Points
  <2>5. s \in State \ {"blank"} /\ s # "added"
    BY DEF State
  <2>6. flash' = SetState(flash, i, s)
    BY <2>1 DEF MarkState
  <2>7. Marked(flash', flash, i, s)
    BY <1>1, <2>4, <2>5, <2>6, SetStateProperties
  <2>8. OneAdded(flash') /\ (OnlyAdded(flash, op.name, i) => NoneAdded(flash', op.name))
    BY <1>1, <1>3, <2>5, <2>7, AddedMarked
  <2>9. pc' \in Between => NoneAdded(flash', op'.name)
    BY <1>3, <2>1, <2>2, <2>8
  <2> QED BY <2>2, <2>8, <2>9 DEF AInv, Between, WritePc
<1>8. CASE WriteHeader \/ SetHeaderValid
  <2>1. PICK s \in {"blank", "headerValid"} : flash' = AtLast(s)
    BY <1>0, <1>8, HeaderStates DEF WriteHeader, HeaderState, SetHeaderValid
  <2>2. pc \in {"header", "headerValid"} /\ op' = op /\ pc' # "markOld"
    BY <1>8 DEF WriteHeader, SetHeaderValid
  <2>3. s \in State /\ pc \in WritePc /\ pc \in Between
    BY <2>2 DEF State, WritePc, Between
  <2>4. Extended(flash', flash, last, NewRecord(s)) /\ NewRecord(s).state = s
    BY <1>0, <2>1, <2>3, AtLastExtends
  <2>5. NewRecord(s).state # "added"
    BY <2>4
  <2>6. OneAdded(flash') /\ NoneAdded(flash', op.name)
    BY <1>1, <1>3, <2>3, <2>4, <2>5, AddedExtended
  <2> QED BY <2>2, <2>6 DEF AInv
<1>9. CASE SetAdded
  <2>1. flash' = AtLast("added") /\ pc = "added" /\ pc' \in {"return", "delTrans", "delCurr"}
    BY <1>9 DEF SetAdded, Return
  <2>2. "added" \in State /\ pc \in WritePc /\ pc \in Between
    BY <2>1 DEF State, WritePc, Between
  <2>3. Extended(flash', flash, last, NewRecord("added")) /\ NewRecord("added").name = op.name
    BY <1>0, <2>1, <2>2, AtLastExtends
  <2>4. NoneAdded(flash, NewRecord("added").name)
    BY <1>3, <2>2, <2>3
  <2>5. OneAdded(flash')
    BY <1>1, <1>3, <2>3, <2>4, AddedExtended
  <2> QED BY <2>1, <2>5 DEF AInv, Between, WritePc
<1>10. CASE WriteServiceInitialize \/ ReclaimForOS
  <2>1. flash' \in {flash, ReclaimBuffer(flash, 0, 0)} /\ pc' = "idle"
    <3>1. CASE WriteServiceInitialize
      BY <3>1 DEF WriteServiceInitialize, StoreReplaced, nvVars
    <3>2. CASE ReclaimForOS
      BY <3>2 DEF ReclaimForOS, StoreReplaced, nvVars
    <3> QED BY <1>10, <3>1, <3>2
  <2>2. OneAdded(ReclaimBuffer(flash, 0, 0))
    BY <1>1, <1>3, ReclaimBufferProperties
  <2>3. OneAdded(flash')
    BY <1>3, <2>1, <2>2
  <2> QED BY <2>1, <2>3 DEF AInv, Between, WritePc
<1>11. CASE ReclaimWithNew
  <2>1. flash' = Append(Buffer, NewRecord("added")) /\ pc = "reclaim" /\ pc' = "return" /\ ~Twins
    BY <1>11 DEF ReclaimWithNew, StoreReplaced, Return
  <2>2. Buffer \in Seq(Record) /\ FromLog(Buffer, flash, op.curr, op.trans) /\ OneAdded(Buffer)
    BY <1>1, <1>3, ReclaimBufferProperties DEF Buffer
  <2>3. NewRecord("added") \in Record /\ NewRecord("added").name = op.name
    <3>1. pc \notin {"start", "idle"} /\ "added" \in State
      BY <2>1 DEF State
    <3> QED BY <1>0, <3>1, NewRecordProperties
  <2>4. NoneAdded(Buffer, op.name)
    <3> SUFFICES ASSUME NEW a \in 1 .. Len(Buffer), Buffer[a].name = op.name PROVE FALSE
      BY DEF NoneAdded
    <3>1. PICK i \in 1 .. Len(flash) :
            /\ Live(flash[i]) /\ i # op.curr
            /\ flash[i].state = "inDeleted" => i # op.trans
            /\ flash[i].name = Buffer[a].name
      BY <2>2 DEF FromLog
    <3>2. flash[i].state # "added"
      BY <1>3, <2>1, <3>1 DEF Between, NoneAdded
    <3>3. flash[i].state = "inDeleted" /\ i \notin {op.curr, op.trans}
      BY <3>1, <3>2 DEF Live
    <3>4. i \in DOMAIN flash
      BY <1>1
    <3> QED BY <2>1, <3>1, <3>3, <3>4 DEF Twins
  <2>5. Extended(flash', Buffer, Len(Buffer), NewRecord("added"))
    BY <2>1, <2>2, <2>3, AppendExtends
  <2>6. NoneAdded(Buffer, NewRecord("added").name)
    BY <2>3, <2>4
  <2>7. OneAdded(flash')
    BY <2>2, <2>5, <2>6, AddedExtended
  <2> QED BY <2>1, <2>7 DEF AInv, Between, WritePc
<1>12. CASE Refuse \/ Unchanged \/ ReleaseLock \/ WriteFails \/ ExitBootServices
            \/ VolatileDelete \/ VolatileUpdate \/ VolatileReclaim
  <2>1. flash' = flash /\ pc' \in {"return", "idle"}
    BY <1>12 DEF Refuse, Unchanged, ReleaseLock, WriteFails, ExitBootServices, VolatileDelete,
       VolatileUpdate, VolatileReclaim, nvVars, Return
  <2> QED BY <1>4, <2>1 DEF Between, WritePc
<1>13. CASE ReclaimOutOfResources \/ ReclaimFails \/ WriteServiceReclaimFails \/ ReclaimForOSFails
  <2>1. flash' = flash /\ pc' \in {"return", "idle"}
    BY <1>13 DEF ReclaimOutOfResources, ReclaimFails, WriteServiceReclaimFails,
       ReclaimForOSFails, StoreReread, flashVars, Return
  <2> QED BY <1>4, <2>1 DEF Between, WritePc
<1>14. ASSUME NEW torn \in BOOLEAN, Restart(torn) PROVE AInv'
  <2>1. flash' = flash /\ pc' = "start"
    BY <1>14 DEF Restart
  <2> QED BY <1>4, <2>1 DEF Between, WritePc
<1> QED BY <1>5, <1>6, <1>7, <1>8, <1>9, <1>10, <1>11, <1>12, <1>13, <1>14 DEF Next

(* No two live records of one name, position c apart. *)
OneLive(log, c) ==
  \A i, j \in 1 .. Len(log) :
    i # c /\ j # c /\ log[i].name = log[j].name /\ Live(log[i]) /\ Live(log[j]) => i = j
OnlyLive(log, k, c) == \A i \in 1 .. Len(log) : log[i].name = k /\ Live(log[i]) => i = c

(* As long as there was no fault, a variable has one live record, and two between
   VAR_ADDED of the new one and VAR_DELETED of the old one. *)
FaultFree ==
  /\ ~twin
  /\ pc \in NvPc => op.trans = 0
  /\ pc # "delTrans"
  /\ pc # "delCurr" => OneLive(flash, 0)
  /\ pc = "delCurr" => OneLive(flash, op.curr)
  /\ pc \in Adding => OnlyLive(flash, op.name, op.curr)

FInv == crashes \in Nat /\ (crashes = 0 /\ errors = 0 => FaultFree)

(* Marking a record that is the only live one of its name, or deleting one. *)
LEMMA LiveMarked ==
  ASSUME NEW log \in Seq(Record), NEW L, NEW i, NEW s, Marked(L, log, i, s)
  PROVE  /\ s = "deleted" /\ OneLive(log, i) => OneLive(L, 0)
         /\ \A k : /\ i \in 1 .. Len(log) => log[i].name = k
                   /\ OneLive(log, 0) /\ OnlyLive(log, k, i)
                   => OneLive(L, 0) /\ OnlyLive(L, k, i)
<1>1. \A j \in 1 .. Len(L) : /\ j \in 1 .. Len(log) /\ L[j].name = log[j].name
                             /\ j # i => L[j] = log[j]
                             /\ j = i => L[j].state = s
                             /\ j # 0
  <2>1. Len(L) = Len(log)
    BY DEF Marked
  <2>2. \A j \in 1 .. Len(log) : /\ L[j].name = log[j].name
                                 /\ j # i => L[j] = log[j]
                                 /\ j = i => L[j].state = s
    BY DEF Marked
  <2>3. \A j \in 1 .. Len(log) : j # 0
    OBVIOUS
  <2> QED BY <2>1, <2>2, <2>3
<1>2. ASSUME s = "deleted", OneLive(log, i) PROVE OneLive(L, 0)
  <2>1. \A j \in 1 .. Len(L) : Live(L[j]) => j # i /\ Live(log[j])
    BY <1>1, <1>2 DEF Live
  <2> QED BY <1>1, <1>2, <2>1 DEF OneLive
<1>3. ASSUME NEW k, i \in 1 .. Len(log) => log[i].name = k, OneLive(log, 0), OnlyLive(log, k, i)
      PROVE  OneLive(L, 0) /\ OnlyLive(L, k, i)
  <2>1. OnlyLive(L, k, i)
    BY <1>1, <1>3 DEF OnlyLive
  <2>2. OneLive(L, 0)
    <3> SUFFICES ASSUME NEW a \in 1 .. Len(L), NEW b \in 1 .. Len(L), L[a].name = L[b].name,
                        Live(L[a]), Live(L[b])
                 PROVE  a = b
      BY DEF OneLive
    <3>1. CASE a # i /\ b # i
      BY <1>1, <1>3, <3>1 DEF OneLive
    <3>2. CASE a = i \/ b = i
      <4>1. L[a].name = k /\ L[b].name = k
        BY <1>1, <1>3, <3>2
      <4> QED BY <2>1, <4>1 DEF OnlyLive
    <3> QED BY <3>1, <3>2
  <2> QED BY <2>1, <2>2
<1> QED BY <1>2, <1>3

(* A further record. *)
LEMMA LiveExtended ==
  ASSUME NEW log \in Seq(Record), NEW L, NEW n, NEW r, Extended(L, log, n, r), OneLive(log, 0),
         NEW c, OnlyLive(log, r.name, c), NEW e, e = 0 \/ e = c, Live(r) => e = c
  PROVE  /\ OneLive(L, e)
         /\ ~Live(r) => OnlyLive(L, r.name, c)
<1>1. n \in Nat /\ n <= Len(log)
  BY DEF Extended
<1>2. \A j \in 1 .. Len(L) : j = n + 1 \/ j \in 1 .. n
  BY <1>1 DEF Extended
<1>3. \A j \in 1 .. n : j \in 1 .. Len(log) /\ L[j] = log[j] /\ j # 0
  BY <1>1 DEF Extended
<1>4. L[n + 1] = r
  BY DEF Extended
<1>5. OneLive(L, e)
  <2> SUFFICES ASSUME NEW i \in 1 .. Len(L), NEW j \in 1 .. Len(L), i # e, j # e,
                      L[i].name = L[j].name, Live(L[i]), Live(L[j])
               PROVE  i = j
    BY DEF OneLive
  <2>1. CASE i = n + 1 /\ j \in 1 .. n
    <3>1. e = c /\ j \in 1 .. Len(log) /\ log[j].name = r.name /\ Live(log[j])
      BY <1>3, <1>4, <2>1
    <3> QED BY <3>1 DEF OnlyLive
  <2>2. CASE j = n + 1 /\ i \in 1 .. n
    <3>1. e = c /\ i \in 1 .. Len(log) /\ log[i].name = r.name /\ Live(log[i])
      BY <1>3, <1>4, <2>2
    <3> QED BY <3>1 DEF OnlyLive
  <2>3. CASE i \in 1 .. n /\ j \in 1 .. n
    BY <1>3, <2>3 DEF OneLive
  <2> QED BY <1>2, <2>1, <2>2, <2>3
<1>6. ASSUME ~Live(r) PROVE OnlyLive(L, r.name, c)
  BY <1>2, <1>3, <1>4, <1>6 DEF OnlyLive
<1> QED BY <1>5, <1>6

(* What Reclaim keeps of a log with one live record of each name. *)
LEMMA LiveBuffer ==
  ASSUME NEW log \in Seq(Record), NEW curr, NEW trans, OneLive(log, 0)
  PROVE  OneLive(ReclaimBuffer(log, curr, trans), 0)
<1> DEFINE b == ReclaimBuffer(log, curr, trans)
<1>1. OneAdded(log)
  <2>1. \A i \in 1 .. Len(log) : i # 0
    OBVIOUS
  <2> QED BY <2>1 DEF OneAdded, OneLive, Live
<1>2. OneAdded(b) /\ FromLog(b, log, curr, trans)
  BY <1>1, ReclaimBufferProperties
<1> HIDE DEF b
<1>3. OneLive(b, 0)
  BY <1>2 DEF OneAdded, FromLog, OneLive
<1> QED BY <1>3 DEF b

(* Without a fault, every step keeps it. *)
LEMMA NextFInv == VInv /\ FInv /\ [Next]_vars => FInv'
<1> SUFFICES ASSUME VInv, FInv, [Next]_vars PROVE FInv'
  OBVIOUS
<1>0. DataOK /\ StoreOK /\ Pointers /\ crashes \in Nat /\ errors \in Nat
  BY DEF VInv, DataOK, FInv
<1>1. flash \in Seq(Record)
  BY <1>0, StoreBasics
<1>2. CASE ReclaimFails \/ WriteFails \/ WriteServiceReclaimFails \/ ReclaimForOSFails
  <2>1. errors' = errors + 1 /\ crashes' = crashes
    BY <1>2 DEF ReclaimFails, WriteFails, WriteServiceReclaimFails, ReclaimForOSFails, FlashError
  <2>2. errors' # 0
    BY <1>0, <2>1
  <2> QED BY <1>0, <2>1, <2>2 DEF FInv
<1>3. ASSUME NEW torn \in BOOLEAN, Restart(torn) PROVE FInv'
  <2>1. crashes' = crashes + 1
    BY <1>3 DEF Restart
  <2>2. crashes' \in Nat /\ crashes' # 0
    BY <1>0, <2>1
  <2> QED BY <2>2 DEF FInv
<1> DEFINE Keeps == errors' = errors /\ crashes' = crashes
<1>4. ASSUME Keeps, FaultFree => FaultFree' PROVE FInv'
  BY <1>0, <1>4 DEF FInv
<1>5. CASE UNCHANGED vars \/ ReadService \/ Unpredictable \/ CheckSpace \/ WriteData
  <2>1. /\ flash' = flash /\ op' = op /\ twin' = twin /\ Keeps
        /\ pc' = pc \/ pc' = "return" \/ (pc \in {"space", "data"} /\ pc' \in {"reclaim", "header", "added"})
    BY <1>5 DEF vars, nvVars, used, ReadService, Unpredictable, CheckSpace, WriteData, Return
  <2>2. pc' # "return" => /\ pc' \in NvPc => pc \in NvPc
                          /\ pc' \in Adding => pc \in Adding
                          /\ pc' = "delCurr" <=> pc = "delCurr"
                          /\ pc' = "delTrans" => pc = "delTrans"
    BY <2>1 DEF Adding, NvPc, FlashPc
  <2>3. CASE pc' # "return"
    BY <1>4, <2>1, <2>2, <2>3 DEF FaultFree, Adding, NvPc, FlashPc
  <2>4. CASE pc' = "return"
    <3>1. pc # "delCurr"
      BY <1>5, <2>4 DEF CheckSpace, WriteData, ReadService, Unpredictable, vars
    <3> QED BY <1>4, <2>1, <2>4, <3>1 DEF FaultFree, Adding, NvPc, FlashPc
  <2> QED BY <2>3, <2>4
<1>6. CASE Refuse \/ Unchanged \/ ReleaseLock \/ ExitBootServices \/ ProgramOver
           \/ VolatileDelete \/ VolatileUpdate \/ VolatileReclaim \/ ReclaimOutOfResources
  <2>1. /\ flash' = flash /\ twin' = twin /\ Keeps /\ pc # "delCurr"
        /\ pc' \in {"return", "idle", "unpredictable"}
    BY <1>6 DEF Refuse, Unchanged, ReleaseLock, ExitBootServices, ProgramOver, VolatileDelete,
       VolatileUpdate, VolatileReclaim, ReclaimOutOfResources, nvVars, flashVars, used, Return
  <2> QED BY <1>4, <2>1 DEF FaultFree, Adding, NvPc, FlashPc
<1>7. ASSUME NEW k \in Name, NEW attr \in config.attributes, NEW append \in BOOLEAN,
             NEW d \in Inputs, SetVariable(k, attr, append, d)
      PROVE  FInv'
  <2> DEFINE f == FindVariable(k, TRUE)
  <2>1. /\ FoundOK(f, k) /\ pc = "idle"
        /\ pc' \in {"refused", "unchanged", "volatileDelete", "volatile", "markOld", "delTrans",
                    "delCurr", "space"}
        /\ pc' \in {"markOld", "delTrans", "delCurr"} => f.nv /\ f.curr # 0
        /\ pc' = "space" => f.nv /\ f.curr = 0
        /\ op'.name = k /\ op'.curr = f.curr /\ op'.trans = f.trans
    BY <1>7, SetVariableStart
  <2>2. flash' = flash /\ twin' = twin /\ Keeps
    BY <1>7 DEF SetVariable, nvVars
  <2>3. pc' = "delTrans" => f.trans # 0
    BY <1>7 DEF SetVariable, ExistingPc, NewPc
  <2> HIDE DEF f
  <2>4. ASSUME FaultFree PROVE FaultFree'
    <3>1. OneLive(flash, 0) /\ ~twin
      BY <2>1, <2>4 DEF FaultFree
    <3>2. last \in Nat /\ last \in 0 .. Len(flash)
      BY <1>0, StoreBasics
    <3>3. ASSUME f.nv, NEW i, Found(cache, k, i), i # 0
          PROVE  i \in 1 .. Len(flash) /\ flash[i].name = k /\ Live(flash[i])
      <4>1. Points(flash, last, k, i) /\ flash[i] = cache[i]
        BY <1>0, <3>3, FoundPoints
      <4> QED BY <3>2, <3>3, <4>1 DEF Points, Found
    <3>4. f.nv => f.trans = 0
      <4> SUFFICES ASSUME f.nv, f.trans # 0 PROVE FALSE
        OBVIOUS
      <4>1. Found(cache, k, f.curr) /\ Found(cache, k, f.trans) /\ f.curr # 0 /\ f.trans # f.curr
        BY <2>1 DEF FoundOK
      <4>2. f.curr \in 1 .. Len(flash) /\ flash[f.curr].name = k /\ Live(flash[f.curr])
        BY <3>3, <4>1
      <4>3. f.trans \in 1 .. Len(flash) /\ flash[f.trans].name = k /\ Live(flash[f.trans])
        BY <3>3, <4>1
      <4> QED BY <3>1, <4>1, <4>2, <4>3 DEF OneLive
    <3>5. f.nv => OnlyLive(flash, k, f.curr)
      <4>1. CASE f.nv /\ f.curr = 0
        <5>1. ~Has(cache, k)
          BY <2>1, <4>1 DEF FoundOK
        <5>2. ~Has(flash, k)
          BY <1>0, <5>1, HasFlash
        <5> QED BY <5>2 DEF Has, OnlyLive
      <4>2. CASE f.nv /\ f.curr # 0
        <5>1. Found(cache, k, f.curr)
          BY <2>1, <4>2 DEF FoundOK
        <5>2. f.curr \in 1 .. Len(flash) /\ flash[f.curr].name = k /\ Live(flash[f.curr])
          BY <3>3, <4>2, <5>1
        <5>3. \A i \in 1 .. Len(flash) : i # 0
          OBVIOUS
        <5> QED BY <3>1, <4>2, <5>2, <5>3 DEF OneLive, OnlyLive
      <4> QED BY <4>1, <4>2
    <3>6. pc' \in NvPc => f.nv
      BY <2>1 DEF NvPc, FlashPc
    <3>7. pc' # "delTrans"
      BY <2>1, <2>3, <3>4
    <3>8. OneLive(flash, f.curr)
      BY <3>1 DEF OneLive
    <3>9. pc' \in Adding => pc' \in NvPc
      BY DEF Adding
    <3> QED BY <2>1, <2>2, <3>1, <3>4, <3>5, <3>6, <3>7, <3>8, <3>9 DEF FaultFree
  <2> QED BY <1>4, <2>2, <2>4
<1>8. CASE MarkOld \/ DeleteTransition \/ DeleteCurrent
  <2>1. PICK i \in {op.curr, op.trans}, s \in {"inDeleted", "deleted"} :
          /\ MarkState(i, s) /\ (pc # "delTrans" => i = op.curr)
          /\ pc = "delCurr" => s = "deleted"
    BY <1>8 DEF MarkOld, DeleteTransition, DeleteCurrent
  <2>2. /\ pc \in {"markOld", "delTrans", "delCurr"}
        /\ pc = "markOld" => op' = op /\ pc' = "space"
        /\ pc = "delCurr" => pc' = "return"
        /\ twin' = twin /\ Keeps
    BY <1>8 DEF MarkOld, DeleteTransition, DeleteCurrent, Return, used
  <2>3. Points(flash, last, op.name, i)
    BY <1>0, <2>1, <2>2 DEF Pointers, NvPc, FlashPc
  <2>4. i \in 0 .. Len(flash) /\ (i \in 1 .. Len(flash) => flash[i].name = op.name)
    <3>1. last \in Nat /\ last \in 0 .. Len(flash)
      BY <1>0, StoreBasics
    <3> QED BY <1>1, <2>3, <3>1 DEF Points
  <2>5. s \in State \ {"blank"}
    BY DEF State
  <2>6. flash' = SetState(flash, i, s)
    BY <2>1 DEF MarkState
  <2>7. Marked(flash', flash, i, s)
    BY <1>1, <2>4, <2>5, <2>6, SetStateProperties
  <2>8. ASSUME FaultFree PROVE FaultFree'
    <3>1. CASE pc = "markOld"
      <4>1. OneLive(flash, 0) /\ OnlyLive(flash, op.name, i) /\ op.trans = 0 /\ i = op.curr /\ ~twin
        BY <2>1, <2>8, <3>1 DEF FaultFree, Adding, NvPc, FlashPc
      <4>2. OneLive(flash', 0) /\ OnlyLive(flash', op.name, i)
        BY <1>1, <2>4, <2>7, <4>1, LiveMarked
      <4> QED BY <2>2, <3>1, <4>1, <4>2 DEF FaultFree
    <3>2. CASE pc = "delCurr"
      <4>1. OneLive(flash, i) /\ s = "deleted" /\ ~twin
        BY <2>1, <2>8, <3>2 DEF FaultFree
      <4>2. OneLive(flash', 0)
        BY <1>1, <2>7, <4>1, LiveMarked
      <4> QED BY <2>2, <3>2, <4>1, <4>2 DEF FaultFree, Adding, NvPc, FlashPc
    <3> QED BY <2>2, <2>8, <3>1, <3>2 DEF FaultFree
  <2> QED BY <1>4, <2>2, <2>8
<1>9. CASE WriteHeader \/ SetHeaderValid
  <2>1. PICK s \in {"blank", "headerValid"} : flash' = AtLast(s)
    BY <1>0, <1>9, HeaderStates DEF WriteHeader, HeaderState, SetHeaderValid
  <2>2. /\ pc \in {"header", "headerValid"} /\ op' = op /\ pc' \in {"headerValid", "data"}
        /\ twin' = twin /\ Keeps
    BY <1>9 DEF WriteHeader, SetHeaderValid, used
  <2>3. s \in State /\ pc \in WritePc /\ pc \in Adding /\ pc \in NvPc
    BY <2>2 DEF State, WritePc, Adding, NvPc, FlashPc
  <2> DEFINE r == NewRecord(s)
  <2>4. Extended(flash', flash, last, r) /\ r.state = s /\ r.name = op.name
    BY <1>0, <2>1, <2>3, AtLastExtends
  <2> HIDE DEF r
  <2>5. ~Live(r)
    BY <2>4 DEF Live
  <2>6. ASSUME FaultFree PROVE FaultFree'
    <3>1. OneLive(flash, 0) /\ OnlyLive(flash, r.name, op.curr) /\ op.trans = 0 /\ ~twin
      BY <2>2, <2>3, <2>4, <2>6 DEF FaultFree
    <3>2. OneLive(flash', 0) /\ OnlyLive(flash', r.name, op.curr)
      BY <1>1, <2>4, <2>5, <3>1, LiveExtended
    <3> QED BY <2>2, <2>4, <3>1, <3>2 DEF FaultFree
  <2> QED BY <1>4, <2>2, <2>6
<1>10. CASE SetAdded
  <2>1. /\ flash' = AtLast("added") /\ pc = "added" /\ twin' = twin /\ Keeps
        /\ op' = [op EXCEPT !.done = TRUE]
        /\ pc' = IF op.curr = 0 THEN "return" ELSE IF op.trans # 0 THEN "delTrans" ELSE "delCurr"
    BY <1>10 DEF SetAdded, Return, Done, used
  <2>2. "added" \in State /\ pc \in WritePc /\ pc \in Adding /\ pc \in NvPc
    BY <2>1 DEF State, WritePc, Adding, NvPc, FlashPc
  <2> DEFINE r == NewRecord("added")
  <2>3. Extended(flash', flash, last, r) /\ r.name = op.name
    BY <1>0, <2>1, <2>2, AtLastExtends
  <2> HIDE DEF r
  <2>4. op'.curr = op.curr /\ op'.trans = op.trans
    BY <1>0, <2>1 DEF DataOK, OpType
  <2>5. ASSUME FaultFree PROVE FaultFree'
    <3>1. OneLive(flash, 0) /\ OnlyLive(flash, r.name, op.curr) /\ op.trans = 0 /\ ~twin
      BY <2>1, <2>2, <2>3, <2>5 DEF FaultFree
    <3>2. OneLive(flash', op.curr)
      BY <1>1, <2>3, <3>1, LiveExtended
    <3>3. CASE op.curr = 0
      BY <2>1, <3>1, <3>2, <3>3 DEF FaultFree, Adding, NvPc, FlashPc
    <3>4. CASE op.curr # 0
      BY <2>1, <2>4, <3>1, <3>2, <3>4 DEF FaultFree, Adding, NvPc, FlashPc
    <3> QED BY <3>3, <3>4
  <2> QED BY <1>4, <2>1, <2>5
<1>11. CASE WriteServiceInitialize \/ ReclaimForOS
  <2>1. /\ flash' \in {flash, ReclaimBuffer(flash, 0, 0)} /\ pc' = "idle" /\ pc \in {"start", "idle"}
        /\ twin' = twin /\ Keeps
    <3>1. CASE WriteServiceInitialize
      BY <3>1 DEF WriteServiceInitialize, StoreReplaced, nvVars, used
    <3>2. CASE ReclaimForOS
      BY <3>2 DEF ReclaimForOS, StoreReplaced, nvVars, used
    <3> QED BY <1>11, <3>1, <3>2
  <2>2. ASSUME FaultFree PROVE FaultFree'
    <3>1. OneLive(flash, 0) /\ ~twin
      BY <2>1, <2>2 DEF FaultFree
    <3>2. OneLive(ReclaimBuffer(flash, 0, 0), 0)
      BY <1>1, <3>1, LiveBuffer
    <3>3. OneLive(flash', 0)
      BY <2>1, <3>1, <3>2
    <3> QED BY <2>1, <3>1, <3>3 DEF FaultFree, Adding, NvPc, FlashPc
  <2> QED BY <1>4, <2>1, <2>2
<1>12. CASE ReclaimWithNew
  <2>1. /\ flash' = Append(Buffer, NewRecord("added")) /\ pc = "reclaim" /\ pc' = "return"
        /\ twin' = (twin \/ Twins) /\ Keeps
    BY <1>12 DEF ReclaimWithNew, StoreReplaced, Return
  <2>2. pc \in NvPc /\ pc \in Adding
    BY <2>1 DEF Adding, NvPc, FlashPc
  <2> DEFINE r == NewRecord("added")
  <2>3. r \in Record /\ r.name = op.name
    <3>1. pc \notin {"start", "idle"} /\ "added" \in State
      BY <2>1 DEF State
    <3> QED BY <1>0, <3>1, NewRecordProperties
  <2> HIDE DEF r
  <2>4. Buffer \in Seq(Record) /\ FromLog(Buffer, flash, op.curr, op.trans)
    BY <1>1, ReclaimBufferProperties DEF Buffer
  <2>5. Extended(flash', Buffer, Len(Buffer), r)
    BY <2>1, <2>3, <2>4, AppendExtends DEF r
  <2>6. ASSUME FaultFree PROVE FaultFree'
    <3>1. OneLive(flash, 0) /\ OnlyLive(flash, op.name, op.curr) /\ ~twin
      BY <2>1, <2>2, <2>6 DEF FaultFree
    <3>2. ~Twins
      <4>1. DOMAIN flash = 1 .. Len(flash)
        BY <1>1
      <4> QED BY <3>1, <4>1 DEF Twins, OnlyLive, Live
    <3>3. OneLive(Buffer, 0)
      BY <1>1, <3>1, LiveBuffer DEF Buffer
    <3>4. OnlyLive(Buffer, r.name, 0)
      BY <2>3, <2>4, <3>1 DEF OnlyLive, FromLog
    <3>5. OneLive(flash', 0)
      BY <2>4, <2>5, <3>3, <3>4, LiveExtended
    <3> QED BY <2>1, <3>1, <3>2, <3>5 DEF FaultFree, Adding, NvPc, FlashPc
  <2> QED BY <1>4, <2>1, <2>6
<1> QED BY <1>2, <1>3, <1>5, <1>6, <1>7, <1>8, <1>9, <1>10, <1>11, <1>12 DEF Next

(* A name has one VAR_ADDED record on flash, however updates are interrupted,
   until a Reclaim runs over more old records in transition than an update knows of;
   without a restart in the middle of an update or a flash error there never are. *)
THEOREM AlwaysOneAddedRecord == Spec => []OneAddedRecord
<1>1. Init => AInv /\ FInv
  <2> SUFFICES ASSUME Init PROVE AInv /\ FInv
    OBVIOUS
  <2>1. flash = <<>> /\ pc = "start" /\ twin = FALSE /\ crashes = 0
    BY DEF Init
  <2>2. OneAdded(flash) /\ OneLive(flash, 0)
    BY <2>1 DEF OneAdded, OneLive
  <2> QED BY <2>1, <2>2 DEF AInv, FInv, FaultFree, Between, WritePc, Adding, NvPc, FlashPc
<1>2. VInv /\ AInv /\ FInv /\ [Next]_vars => AInv' /\ FInv'
  BY NextAInv, NextFInv
<1>3. VInv /\ AInv /\ FInv => OneAddedRecord
  <2> SUFFICES ASSUME VInv, AInv, FInv PROVE OneAddedRecord
    OBVIOUS
  <2>1. flash \in Seq(Record) /\ errors \in Nat /\ crashes \in Nat
    BY StoreBasics DEF VInv, DataOK, FInv
  <2>2. DOMAIN flash = 1 .. Len(flash)
    BY <2>1
  <2>3. ~twin => OneAdded(flash)
    BY DEF AInv
  <2>4. twin => crashes # 0 \/ errors # 0
    BY DEF FInv, FaultFree
  <2>5. twin => crashes + errors > 0
    BY <2>1, <2>4
  <2> QED BY <2>2, <2>3, <2>5 DEF OneAddedRecord, OneAdded
<1> QED BY <1>1, <1>2, <1>3, StoreInductive, PTL DEF Spec

-----------------------------------------------------------------------------
(* What GetNextVariableName lists *)

(* The volatile store, which no loss of power interrupts, has one live record of a
   name, and a call on it has found that one. *)
LInv ==
  /\ OneLive(volatile, 0)
  /\ pc \in {"volatile", "volatileDelete"} => OnlyLive(volatile, op.name, op.curr)

(* Deleting one record and then the one set aside. *)
LEMMA LiveMarkedDeleted ==
  ASSUME NEW log \in Seq(Record), op.curr \in 0 .. Len(log), op.trans \in 0 .. Len(log),
         OneLive(log, op.curr)
  PROVE  OneLive(MarkedDeleted(log), 0)
<1> DEFINE M == SetState(log, op.trans, "deleted")
           N == SetState(M, op.curr, "deleted")
<1>0. "deleted" \in State \ {"blank"}
  BY DEF State
<1>1. Marked(M, log, op.trans, "deleted")
  BY <1>0, SetStateProperties
<1> HIDE DEF M
<1>2. M \in Seq(Record) /\ op.curr \in 0 .. Len(M)
  BY <1>1 DEF Marked
<1>3. Marked(N, M, op.curr, "deleted")
  BY <1>0, <1>2, SetStateProperties
<1> HIDE DEF N
<1>4. \A i \in 1 .. Len(M) : i \in 1 .. Len(log) /\ (Live(M[i]) => M[i] = log[i])
  BY <1>1 DEF Marked, Live
<1>5. OneLive(M, op.curr)
  BY <1>4 DEF OneLive
<1>6. OneLive(N, 0)
  BY <1>2, <1>3, <1>5, LiveMarked
<1> QED BY <1>6 DEF MarkedDeleted, M, N

(* A call on the volatile store. *)
LEMMA VolatileLive ==
  ASSUME VInv, LInv, VolatileDelete \/ VolatileUpdate \/ VolatileReclaim
  PROVE  OneLive(volatile', 0)
<1>0. DataOK /\ StoreOK /\ Pointers
  BY DEF VInv
<1>1. pc \in {"volatile", "volatileDelete"}
  BY DEF VolatileDelete, VolatileUpdate, VolatileReclaim
<1>2. /\ volatile \in Seq(Record) /\ op.curr \in 0 .. Len(volatile) /\ op.trans \in 0 .. Len(volatile)
      /\ (op.curr # 0 => volatile[op.curr].name = op.name)
  BY <1>0, <1>1 DEF DataOK, Pointers, Points
<1> DEFINE r == NewRecord("added")
<1>3. r \in Record /\ r.name = op.name
  <2>1. "added" \in State /\ pc \notin {"start", "idle"}
    BY <1>1 DEF State
  <2> QED BY <1>0, <2>1, NewRecordProperties
<1>4. OneLive(volatile, 0) /\ OnlyLive(volatile, op.name, op.curr)
  BY <1>1 DEF LInv
<1>5. CASE VolatileDelete
  <2>1. OneLive(volatile, op.curr)
    <3>1. \A i \in 1 .. Len(volatile) : i # 0
      OBVIOUS
    <3> QED BY <1>4, <3>1 DEF OneLive
  <2> QED BY <1>2, <1>5, <2>1, LiveMarkedDeleted DEF VolatileDelete
<1>6. CASE VolatileUpdate
  <2> DEFINE a == Append(volatile, r)
  <2>1. a \in Seq(Record) /\ op.curr \in 0 .. Len(a) /\ op.trans \in 0 .. Len(a)
    BY <1>2, <1>3
  <2>2. volatile' = MarkedDeleted(a)
    BY <1>6 DEF VolatileUpdate
  <2>3. Extended(a, volatile, Len(volatile), r)
    BY <1>2, <1>3, AppendExtends
  <2> HIDE DEF a, r
  <2>4. OneLive(a, op.curr)
    BY <1>2, <1>3, <1>4, <2>3, LiveExtended
  <2> QED BY <2>1, <2>2, <2>4, LiveMarkedDeleted
<1>7. CASE VolatileReclaim
  <2> DEFINE marked == SetState(volatile, op.curr, "inDeleted")
             buffer == ReclaimBuffer(marked, op.curr, op.trans)
  <2>1. volatile' = Append(buffer, r) \/ volatile' = marked
    BY <1>7 DEF VolatileReclaim
  <2>2. Marked(marked, volatile, op.curr, "inDeleted")
    <3>1. "inDeleted" \in State \ {"blank"}
      BY DEF State
    <3> QED BY <1>2, <3>1, SetStateProperties
  <2> HIDE DEF marked
  <2>3. marked \in Seq(Record)
    BY <2>2 DEF Marked
  <2>4. op.curr \in 1 .. Len(volatile) => volatile[op.curr].name = op.name
    BY <1>2
  <2>5. OneLive(marked, 0) /\ OnlyLive(marked, op.name, op.curr)
    BY <1>2, <1>4, <2>2, <2>4, LiveMarked
  <2>6. buffer \in Seq(Record) /\ FromLog(buffer, marked, op.curr, op.trans)
    BY <2>3, ReclaimBufferProperties
  <2>7. OneLive(buffer, 0)
    BY <2>3, <2>5, LiveBuffer
  <2> HIDE DEF buffer, r
  <2>8. OnlyLive(buffer, r.name, 0)
    BY <1>3, <2>5, <2>6 DEF OnlyLive, FromLog
  <2>9. Extended(Append(buffer, r), buffer, Len(buffer), r)
    BY <1>3, <2>6, AppendExtends
  <2>10. OneLive(Append(buffer, r), 0)
    BY <2>6, <2>7, <2>8, <2>9, LiveExtended
  <2> QED BY <2>1, <2>5, <2>10
<1> QED BY <1>5, <1>6, <1>7

(* Every step keeps it. *)
LEMMA NextLInv == VInv /\ LInv /\ [Next]_vars => LInv'
<1> SUFFICES ASSUME VInv, LInv, [Next]_vars PROVE LInv'
  OBVIOUS
<1>0. DataOK /\ StoreOK
  BY DEF VInv
<1>1. CASE UNCHANGED vars \/ ReadService \/ Unpredictable
  <2>1. volatile' = volatile /\ pc' = pc /\ op' = op
    BY <1>1 DEF ReadService, Unpredictable, vars
  <2> QED BY <2>1 DEF LInv
<1>2. CASE VolatileDelete \/ VolatileUpdate \/ VolatileReclaim
  <2>1. pc' = "return"
    BY <1>2 DEF VolatileDelete, VolatileUpdate, VolatileReclaim, Return
  <2> QED BY <1>2, <2>1, VolatileLive DEF LInv
<1>3. ASSUME NEW k \in Name, NEW attr \in config.attributes, NEW append \in BOOLEAN,
             NEW d \in Inputs, SetVariable(k, attr, append, d)
      PROVE  LInv'
  <2> DEFINE f == FindVariable(k, TRUE)
  <2>1. /\ FoundOK(f, k) /\ op'.name = k /\ op'.curr = f.curr
        /\ pc' = "volatileDelete" => ~f.nv
        /\ pc' = "volatile" => f.curr = 0 \/ ~f.nv
    BY <1>3, SetVariableStart
  <2>2. volatile' = volatile
    BY <1>3 DEF SetVariable
  <2> HIDE DEF f
  <2>3. \A i \in 1 .. Len(volatile) : i # 0
    BY <1>0 DEF DataOK
  <2>4. ASSUME ~f.nv PROVE OnlyLive(volatile, k, f.curr)
    <3>1. f.curr # 0 /\ Found(volatile, k, f.curr)
      BY <2>1, <2>4 DEF FoundOK
    <3>2. f.curr \in 1 .. Len(volatile) /\ volatile[f.curr].name = k /\ Live(volatile[f.curr])
      BY <1>0, <3>1 DEF Found, DataOK
    <3> QED BY <2>3, <3>2 DEF LInv, OneLive, OnlyLive
  <2>5. ASSUME f.curr = 0 PROVE OnlyLive(volatile, k, f.curr)
    BY <2>1, <2>5 DEF FoundOK, Has, OnlyLive
  <2> QED BY <2>1, <2>2, <2>4, <2>5 DEF LInv
<1>4. ASSUME NEW torn \in BOOLEAN, Restart(torn) PROVE LInv'
  <2>1. volatile' = <<>> /\ pc' = "start"
    BY <1>4 DEF Restart
  <2> QED BY <2>1 DEF LInv, OneLive
<1>5. ASSUME volatile' = volatile, pc' \notin {"volatile", "volatileDelete"} PROVE LInv'
  BY <1>5 DEF LInv
<1>6. CASE Refuse \/ Unchanged \/ ReleaseLock \/ WriteFails \/ ExitBootServices
           \/ MarkOld \/ CheckSpace \/ WriteHeader \/ ProgramOver \/ SetHeaderValid \/ WriteData
           \/ SetAdded
  BY <1>5, <1>6 DEF Refuse, Unchanged, ReleaseLock, WriteFails, ExitBootServices, MarkOld,
     CheckSpace, WriteHeader, ProgramOver, SetHeaderValid, WriteData, SetAdded, Return
<1>7. CASE DeleteTransition \/ DeleteCurrent \/ ReclaimWithNew \/ ReclaimOutOfResources
           \/ ReclaimFails
  BY <1>5, <1>7 DEF DeleteTransition, DeleteCurrent, ReclaimWithNew, ReclaimOutOfResources,
     ReclaimFails, Return
<1>8. CASE WriteServiceInitialize \/ WriteServiceReclaimFails \/ ReclaimForOS \/ ReclaimForOSFails
  BY <1>5, <1>8 DEF WriteServiceInitialize, WriteServiceReclaimFails, ReclaimForOS,
     ReclaimForOSFails
<1> QED BY <1>1, <1>2, <1>3, <1>4, <1>6, <1>7, <1>8 DEF Next

(* Position i of a log is a record of variable k that FindVariableEx looks at. *)
Seen(log, k, i) == i \in 1 .. Len(log) /\ log[i].name = k /\ Visible(log[i], FALSE)

(* FindVariableEx without IgnoreRtCheck: an ADDED record, or else the last one. *)
LEMMA FindSeen ==
  ASSUME NEW log \in Seq(Record), NEW k
  PROVE  /\ FindVariableEx(log, k, FALSE).curr \in 0 .. Len(log)
         /\ FindVariableEx(log, k, FALSE).curr # 0 =>
              Seen(log, k, FindVariableEx(log, k, FALSE).curr)
         /\ \A i : Seen(log, k, i) => FindVariableEx(log, k, FALSE).curr # 0
         /\ \A i : Seen(log, k, i) /\ log[i].state = "added" =>
              log[FindVariableEx(log, k, FALSE).curr].state = "added"
         /\ log[FindVariableEx(log, k, FALSE).curr].state # "added" =>
              \A i : Seen(log, k, i) => i <= FindVariableEx(log, k, FALSE).curr
<1> DEFINE n == Len(log)
           copies == {i \in DOMAIN log : log[i].name = k /\ Visible(log[i], FALSE)}
           as == {i \in copies : log[i].state = "added"}
           added == FirstOf(as)
           F == FindVariableEx(log, k, FALSE)
<1>1. n \in Nat /\ DOMAIN log = 1 .. n
  OBVIOUS
<1>2. \A i : i \in copies <=> Seen(log, k, i)
  BY <1>1 DEF Seen
<1>3. copies \subseteq 1 .. n
  BY <1>1
<1>4. F.curr = IF added # 0 THEN added ELSE LastOf(copies)
  BY DEF FindVariableEx
<1> HIDE DEF copies, F
<1>5. \A i : i \in as <=> Seen(log, k, i) /\ log[i].state = "added"
  BY <1>2
<1>6. as \subseteq 1 .. n
  BY <1>3
<1> HIDE DEF as
<1>7. /\ as = {} => added = 0
      /\ added \in 0 .. n
      /\ added # 0 => added \in as
  BY <1>1, <1>6, FirstOfProperties
<1>8. as # {} => added # 0
  <2>1. as # {} => added \in as
    BY <1>1, <1>6, FirstOfProperties
  <2>2. \A i \in as : i # 0
    <3> TAKE i \in as
    <3>1. i \in 1 .. n
      BY <1>6
    <3> QED BY <1>1, <3>1
  <2> QED BY <2>1, <2>2
<1> DEFINE lc == LastOf(copies)
<1>9. /\ lc \in 0 .. n /\ (lc # 0 => lc \in copies)
      /\ copies # {} => lc \in copies /\ \A j \in copies : j <= lc
  BY <1>1, <1>3, LastOfProperties
<1>10. \A i \in copies : i # 0
  BY <1>3
<1> HIDE DEF lc, added
<1>11. CASE added # 0
  <2>1. F.curr = added /\ Seen(log, k, added) /\ log[added].state = "added"
    BY <1>4, <1>5, <1>7, <1>11
  <2> QED BY <1>7, <1>11, <2>1 DEF F
<1>12. CASE added = 0
  <2>1. F.curr = lc
    BY <1>4, <1>12 DEF lc
  <2>2. \A i : Seen(log, k, i) => log[i].state # "added"
    BY <1>5, <1>8, <1>12
  <2>3. lc # 0 => Seen(log, k, lc)
    BY <1>2, <1>9
  <2>4. \A i : Seen(log, k, i) => lc # 0 /\ i <= lc
    BY <1>2, <1>9, <1>10
  <2> QED BY <1>9, <2>1, <2>2, <2>3, <2>4 DEF F
<1> QED BY <1>11, <1>12

(* What a listing needs of the two stores. *)
Listable ==
  /\ volatile \in Seq(Record) /\ cache \in Seq(Record)
  /\ OneLive(volatile, 0) /\ OneAdded(cache)
  /\ \A k \in Name : ~(Has(volatile, k) /\ Has(cache, k))

(* The two stores behind each other. *)
LEMMA WalkedAt ==
  ASSUME Listable
  PROVE  /\ Len(volatile) \in Nat /\ Len(cache) \in Nat
         /\ Len(Walked) = Len(volatile) + Len(cache)
         /\ DOMAIN Walked = 1 .. Len(Walked)
         /\ \A p \in 1 .. Len(Walked) :
              /\ Walked[p] \in Record
              /\ p <= Len(volatile) => /\ p \in 1 .. Len(volatile)
                                       /\ Walked[p] = volatile[p] /\ StoreAt(p) = volatile
              /\ p > Len(volatile) => /\ p - Len(volatile) \in 1 .. Len(cache)
                                      /\ Walked[p] = cache[p - Len(volatile)] /\ StoreAt(p) = cache
<1>1. volatile \in Seq(Record) /\ cache \in Seq(Record)
  BY DEF Listable
<1>2. Len(volatile) \in Nat /\ Len(cache) \in Nat /\ Len(Walked) = Len(volatile) + Len(cache)
      /\ DOMAIN Walked = 1 .. Len(Walked)
  BY <1>1 DEF Walked
<1>3. ASSUME NEW p \in 1 .. Len(Walked)
      PROVE  /\ Walked[p] \in Record
             /\ p <= Len(volatile) => /\ p \in 1 .. Len(volatile)
                                      /\ Walked[p] = volatile[p] /\ StoreAt(p) = volatile
             /\ p > Len(volatile) => /\ p - Len(volatile) \in 1 .. Len(cache)
                                     /\ Walked[p] = cache[p - Len(volatile)] /\ StoreAt(p) = cache
  BY <1>1, <1>2 DEF Walked, StoreAt
<1> QED BY <1>2, <1>3

(* The first variable returned from a position on. *)
LEMMA FirstReturnedProperties ==
  ASSUME Listable, NEW from \in Nat, from >= 1
  PROVE  /\ FirstReturned(from) \in 0 .. Len(Walked)
         /\ FirstReturned(from) # 0 => FirstReturned(from) >= from /\ Returned(FirstReturned(from))
         /\ \A q \in 1 .. Len(Walked) : q >= from /\ Returned(q) =>
              FirstReturned(from) # 0 /\ FirstReturned(from) <= q
<1> DEFINE N == Len(Walked)
           S == {p \in from .. N : Returned(p)}
           F == FirstOf(S)
<1>1. N \in Nat
  BY WalkedAt
<1>2. \A p : p \in S <=> p \in from .. N /\ Returned(p)
  OBVIOUS
<1> HIDE DEF N
<1>3. S \subseteq 1 .. N
  BY <1>1
<1> HIDE DEF S
<1>4. /\ F \in 0 .. N
      /\ F # 0 => F \in S
      /\ S # {} => F \in S /\ \A j \in S : F <= j
  BY <1>1, <1>3, FirstOfProperties
<1>5. FirstReturned(from) = F
  BY DEF FirstReturned, F, S, N
<1> HIDE DEF F
<1>6. F # 0 => F >= from /\ Returned(F)
  BY <1>1, <1>2, <1>4
<1>7. ASSUME NEW q \in 1 .. N, q >= from, Returned(q) PROVE F # 0 /\ F <= q
  <2>1. q \in S
    BY <1>1, <1>2, <1>7
  <2>2. F \in S /\ F <= q
    BY <1>4, <2>1
  <2> QED BY <1>3, <2>2
<1> QED BY <1>4, <1>5, <1>6, <1>7 DEF N

(* A live record in one store has no other of its name in the other. *)
LEMMA SeenApart ==
  ASSUME Listable, NEW k \in Name, NEW i, NEW j, Seen(volatile, k, i), Seen(cache, k, j)
  PROVE  FALSE
BY DEF Seen, Listable, Has, Live, Visible

(* A variable that is returned is found where it is, or, in transition, at a later
   record in transition. *)
LEMMA NextPosition ==
  ASSUME Listable, NEW p \in 1 .. Len(Walked), Returned(p)
  PROVE  \E e \in p .. Len(Walked) :
           /\ NextVariable(Walked[p].name) = FirstReturned(e + 1)
           /\ (\A k \in Name : ~Stranded(k)) => e = p
<1> DEFINE V == Len(volatile)
           C == Len(cache)
           N == Len(Walked)
           k == Walked[p].name
           v == FindVariableEx(volatile, k, FALSE).curr
           c == FindVariableEx(cache, k, FALSE).curr
           f == FindVariable(k, FALSE)
<1>1. /\ V \in Nat /\ C \in Nat /\ N = V + C
      /\ Walked[p] \in Record
      /\ p <= V => p \in 1 .. V /\ Walked[p] = volatile[p] /\ StoreAt(p) = volatile
      /\ p > V => p - V \in 1 .. C /\ Walked[p] = cache[p - V] /\ StoreAt(p) = cache
  BY WalkedAt
<1>2. volatile \in Seq(Record) /\ cache \in Seq(Record) /\ k \in Name
  BY <1>1 DEF Listable, Record
<1>3. Visible(Walked[p], FALSE)
  BY DEF Returned
<1>4. /\ v # 0 => f.curr = v /\ f.nv = FALSE
      /\ v = 0 => f.curr = c /\ f.nv = TRUE
  BY DEF FindVariable
<1>5. NextVariable(k) = FirstReturned(f.curr + 1 + (IF f.nv THEN V ELSE 0))
  BY DEF NextVariable
<1>6. Walked[p].state \in {"added", "inDeleted"}
  BY <1>3 DEF Visible
<1>7. /\ v # 0 => Seen(volatile, k, v)
      /\ \A i : Seen(volatile, k, i) => v # 0
      /\ c \in 0 .. C
      /\ c # 0 => Seen(cache, k, c)
      /\ \A i : Seen(cache, k, i) => c # 0
      /\ \A i : Seen(cache, k, i) /\ cache[i].state = "added" => cache[c].state = "added"
      /\ cache[c].state # "added" => \A i : Seen(cache, k, i) => i <= c
  BY <1>2, FindSeen
<1>8. /\ StoreAt(p) = cache /\ Walked[p].state = "inDeleted" => cache[c].state # "added"
      /\ \A i : Seen(volatile, k, i) => i \in 1 .. V
      /\ \A i : Seen(cache, k, i) => i \in 1 .. C
  BY DEF Returned, Seen
<1> HIDE DEF f, v, c, N
<1>9. CASE p <= V
  <2>1. Seen(volatile, k, p)
    BY <1>1, <1>3, <1>9 DEF Seen
  <2>2. v # 0 /\ Seen(volatile, k, v)
    BY <1>7, <2>1
  <2>3. v = p
    <3>1. \A i \in 1 .. Len(volatile) : i # 0
      BY <1>2
    <3>2. Live(volatile[v]) /\ Live(volatile[p])
      BY <2>1, <2>2 DEF Seen, Visible, Live
    <3> QED BY <2>1, <2>2, <3>1, <3>2 DEF Listable, OneLive, Seen
  <2>4. NextVariable(k) = FirstReturned(p + 1)
    <3>1. f.curr = p /\ f.nv = FALSE
      BY <1>4, <2>2, <2>3
    <3>2. (IF f.nv THEN V ELSE 0) = 0
      BY <3>1
    <3>3. f.curr + 1 + (IF f.nv THEN V ELSE 0) = p + 1
      <4>1. V \in Nat /\ p \in Nat
        BY <1>1, <1>9
      <4> HIDE DEF V
      <4> QED BY <3>1, <3>2, <4>1
    <3> QED BY <1>5, <3>3
  <2>5. p \in p .. N
    BY <1>1
  <2> QED BY <2>4, <2>5 DEF N
<1>10. CASE p > V
  <2> DEFINE i == p - V
  <2>1. i \in 1 .. C /\ Walked[p] = cache[i] /\ StoreAt(p) = cache /\ p = V + i
    BY <1>1, <1>10
  <2> HIDE DEF i
  <2>2. Seen(cache, k, i)
    BY <1>3, <2>1 DEF Seen
  <2>3. v = 0
    <3> SUFFICES ASSUME v # 0 PROVE FALSE
      OBVIOUS
    <3>1. Seen(volatile, k, v)
      BY <1>7
    <3> QED BY <1>2, <2>2, <3>1, SeenApart
  <2>4. c # 0 /\ Seen(cache, k, c) /\ c \in 0 .. C
    BY <1>7, <2>2
  <2>5. NextVariable(k) = FirstReturned(V + c + 1)
    <3>1. f.curr = c /\ f.nv = TRUE
      BY <1>4, <2>3
    <3>2. (IF f.nv THEN V ELSE 0) = V
      BY <3>1
    <3>3. f.curr + 1 + (IF f.nv THEN V ELSE 0) = V + c + 1
      <4>1. V \in Nat /\ c \in Nat
        BY <1>1, <2>4
      <4> HIDE DEF V
      <4> QED BY <3>1, <3>2, <4>1
    <3> QED BY <1>5, <3>3
  <2>6. c >= i /\ ((\A n \in Name : ~Stranded(n)) => c = i)
    <3>1. CASE cache[i].state = "added"
      <4>1. cache[c].state = "added"
        BY <1>7, <2>2, <3>1
      <4>2. c = i
        BY <2>2, <2>4, <3>1, <4>1 DEF Listable, OneAdded, Seen
      <4> QED BY <1>1, <2>1, <4>2
    <3>2. CASE cache[i].state # "added"
      <4>1. cache[i].state = "inDeleted"
        BY <1>6, <2>1, <3>2
      <4>2. cache[c].state # "added"
        BY <1>8, <2>1, <4>1
      <4>3. i <= c
        BY <1>7, <2>2, <4>2
      <4>4. ASSUME c # i PROVE Stranded(k)
        <5> DEFINE found == {j \in DOMAIN cache : cache[j].name = k /\ Visible(cache[j], FALSE)}
        <5>1. DOMAIN cache = 1 .. Len(cache)
          BY <1>2
        <5>2. \A j : j \in found <=> Seen(cache, k, j)
          BY <5>1 DEF Seen
        <5>3. ASSUME NEW j \in found PROVE cache[j].state = "inDeleted"
          <6>1. Seen(cache, k, j)
            BY <5>2
          <6>2. cache[j].state # "added"
            BY <1>7, <4>2, <6>1
          <6> QED BY <6>1, <6>2 DEF Seen, Visible
        <5>4. c \in found /\ i \in found
          BY <2>2, <2>4, <5>2
        <5>5. Stranded(k) <=> /\ \A j \in found : cache[j].state = "inDeleted"
                              /\ \E j, m \in found : j # m
          BY DEF Stranded
        <5> HIDE DEF found
        <5> QED BY <4>4, <5>3, <5>4, <5>5
      <4> QED BY <1>1, <1>2, <2>1, <2>4, <4>3, <4>4
    <3> QED BY <3>1, <3>2
  <2> DEFINE e == V + c
  <2>7. e \in p .. N /\ (c = i => e = p)
    BY <1>1, <2>1, <2>4, <2>6
  <2> HIDE DEF e
  <2>8. NextVariable(k) = FirstReturned(e + 1)
    BY <2>5 DEF e
  <2> QED BY <2>6, <2>7, <2>8 DEF N
<1> QED BY <1>1, <1>9, <1>10

(* Of a name with an ADDED record that is visible, that record alone is returned. *)
LEMMA ReturnedOnce ==
  ASSUME Listable, NEW p \in 1 .. Len(Walked), Walked[p].state = "added",
         Visible(Walked[p], FALSE)
  PROVE  /\ Returned(p)
         /\ \A q \in 1 .. Len(Walked) :
              Returned(q) /\ Walked[q].name = Walked[p].name => q = p
<1> DEFINE V == Len(volatile)
           C == Len(cache)
           k == Walked[p].name
<1>1. /\ V \in Nat /\ C \in Nat /\ Len(Walked) = V + C
      /\ \A q \in 1 .. Len(Walked) :
          /\ Walked[q] \in Record
          /\ q <= V => q \in 1 .. V /\ Walked[q] = volatile[q] /\ StoreAt(q) = volatile
          /\ q > V => q - V \in 1 .. C /\ Walked[q] = cache[q - V] /\ StoreAt(q) = cache
  BY WalkedAt
<1>2. volatile \in Seq(Record) /\ cache \in Seq(Record)
  BY DEF Listable
<1>3. Walked[p] \in Record /\ k \in Name
  BY <1>1 DEF Record
<1>4. Returned(p)
  BY DEF Returned
<1>5. ASSUME NEW q \in 1 .. Len(Walked), Returned(q), Walked[q].name = k PROVE q = p
  <2>1. Visible(Walked[q], FALSE)
    BY <1>5 DEF Returned
  <2>2. /\ p <= V => Seen(volatile, k, p) /\ volatile[p].state = "added"
        /\ p > V => Seen(cache, k, p - V) /\ cache[p - V].state = "added"
        /\ q <= V => Seen(volatile, k, q)
        /\ q > V => Seen(cache, k, q - V)
    BY <1>1, <1>5, <2>1 DEF Seen
  <2>3. CASE p <= V /\ q <= V
    <3>1. \A i \in 1 .. Len(volatile) : i # 0
      BY <1>2
    <3> QED BY <2>2, <2>3, <3>1 DEF Listable, OneLive, Seen, Visible, Live
  <2>4. CASE (p <= V /\ q > V) \/ (p > V /\ q <= V)
    BY <1>3, <2>2, <2>4, SeenApart
  <2>5. CASE p > V /\ q > V
    <3>1. cache[FindVariableEx(cache, k, FALSE).curr].state = "added"
      BY <1>2, <2>2, <2>5, FindSeen
    <3>2. StoreAt(q) = cache /\ Walked[q] = cache[q - V] /\ q - V \in 1 .. C /\ p - V \in 1 .. C
      BY <1>1, <2>5
    <3>3. Walked[q].state # "inDeleted"
      BY <1>5, <3>1, <3>2 DEF Returned
    <3>4. cache[q - V].state = "added"
      BY <2>1, <3>2, <3>3 DEF Visible
    <3>5. q - V = p - V
      BY <2>2, <2>5, <3>2, <3>4 DEF Listable, OneAdded, Seen
    <3> QED BY <1>1, <3>5
  <2> QED BY <1>1, <2>3, <2>4, <2>5
<1> QED BY <1>4, <1>5

(* Where a listing begins. *)
LEMMA FirstPosition ==
  ASSUME Listable
  PROVE  /\ FirstVariable \in 0 .. Len(Walked)
         /\ FirstVariable # 0 => Returned(FirstVariable)
         /\ \A p \in 1 .. Len(Walked) :
              Walked[p].state = "added" /\ Visible(Walked[p], FALSE) =>
                FirstVariable # 0 /\ FirstVariable <= p
<1> DEFINE V == Len(volatile)
           C == Len(cache)
           N == Len(Walked)
           a == FirstIn(volatile)
           b == FirstIn(cache)
<1>1. /\ V \in Nat /\ C \in Nat /\ N = V + C
      /\ \A q \in 1 .. N :
          /\ q <= V => q \in 1 .. V /\ Walked[q] = volatile[q]
          /\ q > V => q - V \in 1 .. C /\ Walked[q] = cache[q - V]
  BY WalkedAt
<1>2. ASSUME NEW log \in Seq(Record)
      PROVE  /\ FirstIn(log) \in 0 .. Len(log)
             /\ \A i \in 1 .. Len(log) : log[i].state = "added" /\ Visible(log[i], FALSE) =>
                  FirstIn(log) # 0 /\ FirstIn(log) <= i
  <2> DEFINE n == Len(log)
             seen == {i \in DOMAIN log : Visible(log[i], FALSE)}
             as == {i \in seen : log[i].state = "added"}
             f == FirstOf(as)
  <2>1. n \in Nat /\ DOMAIN log = 1 .. n
    OBVIOUS
  <2>2. seen \subseteq 1 .. n
    BY <2>1
  <2>3. \A i \in 1 .. n : log[i].state = "added" /\ Visible(log[i], FALSE) => i \in as
    BY <2>1
  <2>4. FirstIn(log) = IF f # 0 THEN f ELSE LastOf(seen)
    BY DEF FirstIn
  <2> HIDE DEF seen
  <2>5. as \subseteq 1 .. n
    BY <2>2
  <2> HIDE DEF as
  <2>6. f \in 0 .. n /\ (as # {} => f \in as /\ \A j \in as : f <= j)
    BY <2>1, <2>5, FirstOfProperties
  <2>7. LastOf(seen) \in 0 .. n
    BY <2>1, <2>2, LastOfProperties
  <2> HIDE DEF f
  <2>8. FirstIn(log) \in 0 .. n
    BY <2>4, <2>6, <2>7
  <2>9. ASSUME NEW i \in 1 .. n, log[i].state = "added", Visible(log[i], FALSE)
        PROVE  FirstIn(log) # 0 /\ FirstIn(log) <= i
    <3>1. i \in as
      BY <2>3, <2>9
    <3>2. f \in as /\ f <= i
      BY <2>6, <3>1
    <3>3. f \in 1 .. n
      BY <2>5, <3>2
    <3>4. f # 0
      BY <2>1, <3>3
    <3> QED BY <2>4, <3>2, <3>4
  <2> QED BY <2>8, <2>9
<1>3. volatile \in Seq(Record) /\ cache \in Seq(Record)
  BY DEF Listable
<1>4. /\ a \in 0 .. V
      /\ \A i \in 1 .. V : volatile[i].state = "added" /\ Visible(volatile[i], FALSE) =>
           a # 0 /\ a <= i
  BY <1>2, <1>3
<1>5. /\ b \in 0 .. C
      /\ \A i \in 1 .. C : cache[i].state = "added" /\ Visible(cache[i], FALSE) =>
           b # 0 /\ b <= i
  BY <1>2, <1>3
<1>6. FirstVariable = IF a # 0 THEN FirstReturned(a)
                      ELSE IF b # 0 THEN FirstReturned(V + b) ELSE 0
  BY DEF FirstVariable
<1> HIDE DEF a, b
<1>7. /\ a # 0 => a \in Nat /\ a >= 1
      /\ b # 0 => V + b \in Nat /\ V + b >= 1
  BY <1>1, <1>4, <1>5
<1>8. FirstVariable \in 0 .. N /\ (FirstVariable # 0 => Returned(FirstVariable))
  <2>1. CASE a # 0
    BY <1>6, <1>7, <2>1, FirstReturnedProperties
  <2>2. CASE a = 0 /\ b # 0
    BY <1>6, <1>7, <2>2, FirstReturnedProperties
  <2>3. CASE a = 0 /\ b = 0
    <3>1. FirstVariable = 0
      BY <1>6, <2>3
    <3> QED BY <1>1, <3>1
  <2> QED BY <2>1, <2>2, <2>3
<1>9. ASSUME NEW p \in 1 .. N, Walked[p].state = "added", Visible(Walked[p], FALSE)
      PROVE  FirstVariable # 0 /\ FirstVariable <= p
  <2>1. Returned(p)
    BY <1>9, ReturnedOnce
  <2>2. CASE p <= V
    <3>1. a # 0 /\ a <= p
      BY <1>1, <1>4, <1>9, <2>2
    <3>2. FirstVariable = FirstReturned(a)
      BY <1>6, <3>1
    <3> QED BY <1>7, <2>1, <3>1, <3>2, FirstReturnedProperties
  <2>3. CASE p > V
    <3>1. b # 0 /\ V + b <= p
      <4>1. p - V \in 1 .. C /\ Walked[p] = cache[p - V]
        BY <1>1, <2>3
      <4>2. b # 0 /\ b <= p - V
        BY <1>5, <1>9, <4>1
      <4>3. V \in Nat /\ b \in Nat /\ p \in Nat
        BY <1>1, <1>5
      <4> HIDE DEF V
      <4> QED BY <4>2, <4>3
    <3>2. CASE a # 0
      <4>1. p >= a /\ FirstVariable = FirstReturned(a)
        BY <1>1, <1>4, <1>6, <2>3, <3>2
      <4> QED BY <1>7, <2>1, <3>2, <4>1, FirstReturnedProperties
    <3>3. CASE a = 0
      <4>1. FirstVariable = FirstReturned(V + b)
        BY <1>6, <3>1, <3>3
      <4>2. p >= V + b
        BY <1>1, <1>5, <3>1
      <4> QED BY <1>7, <2>1, <3>1, <4>1, <4>2, FirstReturnedProperties
    <3> QED BY <3>2, <3>3
  <2> QED BY <1>1, <2>2, <2>3
<1> QED BY <1>8, <1>9

(* What the caller gets next, of position p of the last answer. *)
Follows(p) == IF p = 0 THEN 0 ELSE NextVariable(Walked[p].name)

(* Position p is 0, or the one of a variable that is returned. *)
Answer(p) == p \in 0 .. Len(Walked) /\ (p # 0 => Returned(p))

(* The answer after an answer is one, further on. *)
LEMMA FollowsAnswer ==
  ASSUME Listable, NEW p, Answer(p)
  PROVE  /\ Answer(Follows(p))
         /\ Follows(p) # 0 => p # 0 /\ p < Follows(p)
         /\ \A q \in 1 .. Len(Walked) :
              /\ Returned(q) /\ p # 0 /\ p < q /\ \A k \in Name : ~Stranded(k)
              => Follows(p) # 0 /\ Follows(p) <= q
<1>0. Len(Walked) \in Nat
  BY WalkedAt
<1>1. CASE p = 0
  <2>1. Follows(p) = 0
    BY <1>1 DEF Follows
  <2> QED BY <1>0, <1>1, <2>1 DEF Answer
<1>2. CASE p # 0
  <2>1. p \in 1 .. Len(Walked) /\ Returned(p)
    BY <1>0, <1>2 DEF Answer
  <2>2. PICK e \in p .. Len(Walked) :
           /\ NextVariable(Walked[p].name) = FirstReturned(e + 1)
           /\ (\A k \in Name : ~Stranded(k)) => e = p
    BY <2>1, NextPosition
  <2>3. Follows(p) = FirstReturned(e + 1)
    BY <1>2, <2>2 DEF Follows
  <2>4. e \in Nat /\ p \in Nat /\ p <= e /\ e + 1 \in Nat /\ e + 1 >= 1
    BY <1>0, <2>1
  <2> DEFINE g == FirstReturned(e + 1)
  <2>5. /\ g \in 0 .. Len(Walked)
        /\ g # 0 => g >= e + 1 /\ Returned(g)
        /\ \A q \in 1 .. Len(Walked) : q >= e + 1 /\ Returned(q) => g # 0 /\ g <= q
    BY <2>4, FirstReturnedProperties
  <2> HIDE DEF g
  <2>6. Answer(g) /\ (g # 0 => p < g)
    BY <1>0, <2>4, <2>5 DEF Answer
  <2>7. ASSUME NEW q \in 1 .. Len(Walked), Returned(q), p < q, \A k \in Name : ~Stranded(k)
        PROVE  g # 0 /\ g <= q
    <3>1. e = p
      BY <2>2, <2>7
    <3>2. q >= e + 1
      BY <1>0, <2>4, <2>7, <3>1
    <3> QED BY <2>5, <2>7, <3>2
  <2> QED BY <1>2, <2>3, <2>6, <2>7 DEF g
<1> QED BY <1>1, <1>2

(* The recursion of Listing. *)
LEMMA ListingDef ==
  ASSUME Listable
  PROVE  /\ DOMAIN Listing = 1 .. Len(Walked) + 1
         /\ Listing[1] = FirstVariable
         /\ \A n \in 1 .. Len(Walked) : Listing[n + 1] = Follows(Listing[n])
         /\ \A n \in 1 .. Len(Walked) + 1 : Answer(Listing[n])
<1> DEFINE N == Len(Walked)
           X == {p \in 0 .. N : Answer(p)}
           h == [x \in (1 .. N) \X X |-> Follows(x[2])]
<1>1. N \in Nat
  BY WalkedAt
<1>2. \A p : p \in X <=> Answer(p)
  BY DEF Answer
<1>3. FirstVariable \in X
  BY <1>2, FirstPosition DEF Answer
<1>4. \A p \in X : Follows(p) \in X
  <2> HIDE DEF X
  <2> QED BY <1>2, FollowsAnswer
<1> HIDE DEF X, N
<1>5. h \in [(1 .. N) \X X -> X]
  BY <1>4
<1>6. \A i \in 1 .. N : \A p \in X : h[<<i, p>>] = Follows(p)
  OBVIOUS
<1> HIDE DEF h
<1>7. PICK f : f \in [0 .. N -> X] /\ f[0] = FirstVariable /\ \A i \in 1 .. N : f[i] = h[<<i, f[i - 1]>>]
  <2>1. \E f : Iterates(f, N, X, FirstVariable, h)
    BY <1>1, <1>3, <1>5, IntervalRecursion, Zenon
  <2> QED BY <2>1 DEF Iterates
<1> DEFINE w == [n \in 1 .. N + 1 |-> f[n - 1]]
           G(g) == [n \in 1 .. N + 1 |-> IF n = 1 THEN FirstVariable
                      ELSE IF g[n - 1] = 0 THEN 0 ELSE NextVariable(Walked[g[n - 1]].name)]
<1>8. w = G(w)
  <2>1. ASSUME NEW n \in 1 .. N + 1 PROVE w[n] = G(w)[n]
    <3>1. CASE n = 1
      BY <1>1, <1>7, <3>1
    <3>2. CASE n # 1
      <4>1. n - 1 \in 1 .. N /\ n - 1 \in 1 .. N + 1 /\ n - 2 \in 0 .. N /\ (n - 1) - 1 = n - 2
        BY <1>1, <3>2
      <4>2. w[n] = f[n - 1] /\ w[n - 1] = f[n - 2] /\ f[n - 2] \in X
        BY <1>7, <4>1
      <4>3. f[n - 1] = Follows(f[n - 2])
        BY <1>6, <1>7, <4>1, <4>2
      <4>4. G(w)[n] = Follows(w[n - 1])
        BY <3>2 DEF Follows
      <4> QED BY <4>2, <4>3, <4>4
    <3> QED BY <3>1, <3>2
  <2>2. DOMAIN w = 1 .. N + 1 /\ DOMAIN G(w) = 1 .. N + 1
    OBVIOUS
  <2>3. w = [n \in 1 .. N + 1 |-> w[n]] /\ G(w) = [n \in 1 .. N + 1 |-> G(w)[n]]
    OBVIOUS
  <2> HIDE DEF w, G
  <2> QED BY <2>1, <2>3
<1>9. Listing = G(Listing)
  <2>1. Listing = CHOOSE g : g = G(g)
    BY DEF Listing, N
  <2> HIDE DEF G
  <2> QED BY <1>8, <2>1
<1> DEFINE s == Listing
<1>10. s = G(s)
  BY <1>9
<1> HIDE DEF s
<1>11. DOMAIN s = 1 .. N + 1 /\ s[1] = FirstVariable
  BY <1>1, <1>10
<1>12. ASSUME NEW n \in 1 .. N PROVE s[n + 1] = Follows(s[n])
  <2>1. n + 1 \in 1 .. N + 1 /\ n + 1 # 1 /\ (n + 1) - 1 = n
    BY <1>1
  <2>2. s[n + 1] = G(s)[n + 1]
    BY <1>10
  <2> QED BY <2>1, <2>2 DEF Follows
<1>13. \A n \in 1 .. N + 1 : s[n] \in X
  <2> DEFINE T == {i \in 0 .. N : s[i + 1] \in X}
  <2>1. 0 \in T
    BY <1>1, <1>3, <1>11
  <2>2. ASSUME NEW i \in 0 .. (N - 1), i \in T PROVE i + 1 \in T
    <3>1. i + 1 \in 1 .. N /\ i + 1 \in 0 .. N
      BY <1>1
    <3>2. s[(i + 1) + 1] = Follows(s[i + 1])
      BY <1>12, <3>1
    <3> QED BY <1>4, <2>2, <3>1, <3>2
  <2> HIDE DEF T
  <2>3. \A i \in 0 .. N : i \in T
    BY <1>1, <2>1, <2>2, IntervalInduction
  <2> TAKE n \in 1 .. N + 1
  <2>4. n - 1 \in 0 .. N /\ (n - 1) + 1 = n
    BY <1>1
  <2> QED BY <2>3, <2>4 DEF T
<1> QED BY <1>2, <1>11, <1>12, <1>13 DEF s, N

(* Answers come in the order of their positions. *)
LEMMA ListingOrdered ==
  ASSUME Listable, NEW m \in 1 .. Len(Walked) + 1, NEW n \in 1 .. Len(Walked) + 1, m < n,
         Listing[n] # 0
  PROVE  Listing[m] < Listing[n]
<1> DEFINE N == Len(Walked)
           L == Listing
           T == {i \in 0 .. N : L[i + 1] # 0 => \A j \in 1 .. i : L[j] < L[i + 1]}
<1>1. N \in Nat
  BY WalkedAt
<1>2. /\ \A i \in 1 .. N : L[i + 1] = Follows(L[i])
      /\ \A i \in 1 .. N + 1 : Answer(L[i])
  BY ListingDef
<1> HIDE DEF L
<1>3. \A i \in 1 .. N + 1 : L[i] \in Nat
  BY <1>1, <1>2 DEF Answer
<1> HIDE DEF N
<1>4. 0 \in T
  BY <1>1
<1>5. ASSUME NEW i \in 0 .. (N - 1), i \in T PROVE i + 1 \in T
  <2>1. i + 1 \in 1 .. N /\ i + 1 \in 0 .. N /\ i + 1 \in 1 .. N + 1 /\ (i + 1) + 1 \in 1 .. N + 1
    BY <1>1
  <2> SUFFICES ASSUME L[(i + 1) + 1] # 0, NEW j \in 1 .. (i + 1) PROVE L[j] < L[(i + 1) + 1]
    BY <2>1
  <2>2. L[(i + 1) + 1] = Follows(L[i + 1]) /\ Answer(L[i + 1])
    BY <1>2, <2>1
  <2>3. L[i + 1] # 0 /\ L[i + 1] < L[(i + 1) + 1]
    BY <2>2, FollowsAnswer
  <2>4. CASE j = i + 1
    BY <2>3, <2>4
  <2>5. CASE j \in 1 .. i
    <3>1. L[j] < L[i + 1]
      BY <1>5, <2>3, <2>5
    <3>2. j \in 1 .. N + 1
      BY <1>1, <2>5
    <3>3. L[j] \in Nat /\ L[i + 1] \in Nat /\ L[(i + 1) + 1] \in Nat
      BY <1>3, <2>1, <3>2
    <3> QED BY <2>3, <3>1, <3>3
  <2> QED BY <2>4, <2>5
<1> HIDE DEF T
<1>6. \A i \in 0 .. N : i \in T
  BY <1>1, <1>4, <1>5, IntervalInduction
<1>7. n - 1 \in 0 .. N /\ (n - 1) + 1 = n /\ m \in 1 .. (n - 1)
  BY <1>1 DEF N
<1>8. n - 1 \in T
  BY <1>6, <1>7
<1> QED BY <1>7, <1>8 DEF T, L

(* A variable with a visible ADDED record is listed at most once, and once if no
   variable is Stranded. *)
LEMMA ListedOnce ==
  ASSUME Listable, NEW p \in 1 .. Len(Walked), Walked[p].state = "added",
         Visible(Walked[p], FALSE),
         NEW S, S = {n \in DOMAIN Listing :
                       Listing[n] # 0 /\ Walked[Listing[n]].name = Walked[p].name}
  PROVE  /\ Cardinality(S) <= 1
         /\ Cardinality(S) = 1 \/ \E k \in Name : Stranded(k)
<1> DEFINE N == Len(Walked)
           L == Listing
<1>1. N \in Nat
  BY WalkedAt
<1>2. /\ DOMAIN L = 1 .. N + 1
      /\ L[1] = FirstVariable
      /\ \A i \in 1 .. N : L[i + 1] = Follows(L[i])
      /\ \A i \in 1 .. N + 1 : Answer(L[i])
  BY ListingDef
<1>3. Returned(p) /\ \A q \in 1 .. N : Returned(q) /\ Walked[q].name = Walked[p].name => q = p
  BY ReturnedOnce
<1>4. \A n : n \in S <=> n \in 1 .. N + 1 /\ L[n] # 0 /\ Walked[L[n]].name = Walked[p].name
  BY <1>2
<1>5. \A m, n \in 1 .. N + 1 : m < n /\ L[n] # 0 => L[m] < L[n]
  BY ListingOrdered
<1>6. FirstVariable # 0 /\ FirstVariable <= p
  BY FirstPosition
<1> HIDE DEF L
<1>7. \A n \in 1 .. N + 1 : L[n] \in Nat /\ (L[n] # 0 => L[n] \in 1 .. N /\ Returned(L[n]))
  BY <1>1, <1>2 DEF Answer
<1>8. \A n : n \in S <=> n \in 1 .. N + 1 /\ L[n] = p
  <2>1. ASSUME NEW n \in S PROVE n \in 1 .. N + 1 /\ L[n] = p
    BY <1>3, <1>4, <1>7
  <2>2. ASSUME NEW n \in 1 .. N + 1, L[n] = p PROVE n \in S
    <3>1. p # 0
      OBVIOUS
    <3> QED BY <1>4, <2>2, <3>1
  <2> QED BY <2>1, <2>2
<1>9. ASSUME NEW m \in S, NEW n \in S PROVE m = n
  <2>1. m \in 1 .. N + 1 /\ n \in 1 .. N + 1 /\ L[m] = p /\ L[n] = p /\ p # 0 /\ p \in Nat
    BY <1>1, <1>8
  <2>2. ~(m < n) /\ ~(n < m)
    BY <1>5, <2>1
  <2> QED BY <1>1, <2>1, <2>2
<1>10. CASE S = {}
  <2>1. Cardinality(S) = 0
    BY <1>10, FS_EmptySet
  <2>2. ASSUME \A k \in Name : ~Stranded(k) PROVE FALSE
    <3> DEFINE T == {i \in 0 .. N : L[i + 1] # 0 /\ L[i + 1] < p /\ L[i + 1] >= i + 1}
    <3>1. \A n \in 1 .. N + 1 : L[n] # p
      BY <1>8, <1>10
    <3> HIDE DEF N
    <3>2. 0 \in T
      <4>1. 1 \in 1 .. N + 1 /\ 0 \in 0 .. N
        BY <1>1
      <4>2. L[1] \in Nat /\ L[1] # 0 /\ L[1] <= p /\ L[1] # p
        BY <1>2, <1>6, <1>7, <3>1, <4>1
      <4>3. p \in Nat
        BY <1>1 DEF N
      <4>4. L[0 + 1] = L[1]
        OBVIOUS
      <4>5. L[1] < p /\ L[1] >= 1
        BY <4>2, <4>3
      <4> QED BY <4>1, <4>2, <4>4, <4>5
    <3>3. ASSUME NEW i \in 0 .. (N - 1), i \in T PROVE i + 1 \in T
      <4>1. i + 1 \in 1 .. N /\ i + 1 \in 0 .. N /\ i + 1 \in 1 .. N + 1 /\ (i + 1) + 1 \in 1 .. N + 1
        BY <1>1
      <4>2. L[i + 1] # 0 /\ L[i + 1] < p /\ L[i + 1] >= i + 1 /\ Answer(L[i + 1])
        BY <1>2, <3>3, <4>1
      <4> DEFINE x == L[i + 1]
                 y == L[(i + 1) + 1]
      <4>3. y = Follows(x)
        BY <1>2, <4>1
      <4>4. y # 0 /\ y <= p /\ x < y
        <5>1. Answer(x) /\ x # 0 /\ x < p
          BY <4>2
        <5> HIDE DEF x, y
        <5> QED BY <1>3, <2>2, <4>3, <5>1, FollowsAnswer DEF N
      <4>5. y # p /\ y \in Nat /\ x \in Nat /\ p \in Nat /\ x >= i + 1 /\ i \in Nat
        BY <1>1, <1>7, <3>1, <4>1, <4>2 DEF N
      <4>6. y < p /\ y >= (i + 1) + 1
        <5> HIDE DEF x, y
        <5> QED BY <4>4, <4>5
      <4> QED BY <4>1, <4>4, <4>6
    <3> HIDE DEF T
    <3>4. \A i \in 0 .. N : i \in T
      BY <1>1, <3>2, <3>3, IntervalInduction
    <3>5. N \in T
      BY <1>1, <3>4
    <3>6. L[N + 1] < p /\ L[N + 1] >= N + 1 /\ L[N + 1] \in Nat
      BY <1>1, <1>7, <3>5 DEF T
    <3>7. p <= N /\ p \in Nat
      BY <1>1 DEF N
    <3> QED BY <1>1, <3>6, <3>7
  <2> QED BY <2>1, <2>2
<1>11. CASE S # {}
  <2>1. PICK x : x \in S
    BY <1>11
  <2>2. S = {x}
    BY <1>9, <2>1
  <2>3. Cardinality(S) = 1
    BY <2>2, FS_Singleton
  <2> QED BY <2>3
<1> QED BY <1>10, <1>11

(* GetNextVariableName lists every variable that has an ADDED record once: whatever
   was interrupted, never twice, and always unless some variable is left with two old
   records in transition and no new one.  For every content the stores can have, and
   any number of calls, restarts and flash errors. *)
THEOREM AlwaysAddedListedOnce == Spec => []AddedListedOnce
<1>1. Init => Apart /\ AInv /\ LInv
  <2> SUFFICES ASSUME Init PROVE Apart /\ AInv /\ LInv
    OBVIOUS
  <2>1. volatile = <<>> /\ flash = <<>> /\ pc = "start"
    BY DEF Init
  <2>2. OneAdded(flash) /\ OneLive(volatile, 0)
    BY <2>1 DEF OneAdded, OneLive
  <2> QED BY <2>1, <2>2, HasEmpty DEF Apart, AInv, LInv, Between, WritePc, Adding, NvPc, FlashPc
<1>2. VInv /\ Apart /\ AInv /\ LInv /\ [Next]_vars => Apart' /\ AInv' /\ LInv'
  BY NextApart, NextAInv, NextLInv
<1>3. VInv /\ Apart /\ AInv /\ LInv => AddedListedOnce
  <2> SUFFICES ASSUME VInv, Apart, AInv, LInv, pc = "idle", ~twin PROVE AddedListedOnce
    BY DEF AddedListedOnce
  <2>1. /\ volatile \in Seq(Record) /\ cache \in Seq(Record) /\ flash \in Seq(Record)
        /\ last \in Nat /\ last \in 0 .. Len(flash)
        /\ Settled(cache, last) /\ \A i \in 1 .. last : cache[i] = flash[i]
    BY StoreBasics DEF VInv, DataOK
  <2>2. OneAdded(cache)
    <3>1. \A i \in 1 .. Len(cache) : cache[i].state = "added" => i \in 1 .. last
      BY <2>1 DEF Settled
    <3>2. \A i \in 1 .. last : i \in 1 .. Len(flash)
      BY <2>1
    <3> QED BY <2>1, <3>1, <3>2 DEF AInv, OneAdded
  <2>3. Listable
    BY <2>1, <2>2 DEF Listable, LInv, Apart
  <2>4. DOMAIN Walked = 1 .. Len(Walked)
    BY <2>3, WalkedAt
  <2>5. ASSUME NEW p \in 1 .. Len(Walked), Walked[p].state = "added", Visible(Walked[p], FALSE),
               NEW S, S = {n \in DOMAIN Listing :
                             Listing[n] # 0 /\ Walked[Listing[n]].name = Walked[p].name}
        PROVE  Cardinality(S) <= 1 /\ (Cardinality(S) = 1 \/ \E k \in Name : Stranded(k))
    BY <2>3, <2>5, ListedOnce
  <2> QED BY <2>4, <2>5 DEF AddedListedOnce
<1> QED BY <1>1, <1>2, <1>3, StoreInductive, PTL DEF Spec

=============================================================================
